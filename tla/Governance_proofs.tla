-------------------------- MODULE Governance_proofs --------------------------
(***************************************************************************)
(* Governance for every value of the constants: the Root's allocation, the *)
(* proposal with its escrow, one Module per proposal, what voters are      *)
(* promised, and the client that builds what the covenants accept.         *)
(***************************************************************************)
EXTENDS MC_Governance, EquityReserve_proofs, FiniteSetTheorems

(* Modules not created yet are blank: create_module writes over them. *)
BlankModules == \A m \in ModuleSlots : m > root.moduleNonce => modules[m] = NoModule

(* A new proposal takes a nonce no Module and no active proposal has. *)
ModuleInv ==
    /\ BlankModules
    /\ AllocationConserved
    /\ ModulesFollowProposals
    /\ governance.active <= governance.proposalNonce

(* A slot with a locked UTXO is not free for a new one. *)
LockedShares == \A s \in ShareSlots : shares[s].locked => shares[s].amount > 0

(* The inductive invariant. *)
GovInv ==
    /\ ReserveInv
    /\ GovernanceTypeOK
    /\ LockedShares
    /\ ProposalBacked
    /\ ModuleInv

SameLocks == \A s \in ShareSlots : shares'[s].locked <=> shares[s].locked

(* What wallets, fee UTXOs, Reserve and proposal hold together. *)
GovKusd == SumTo(kusd, NumUsers) + SumTo(feeToken, NumFeeSlots) + reserveToken + escrow
GovKas == SumTo(kas, NumUsers) + reserve.collateral + proposal.deposit
ValueKept == GovKusd' = GovKusd /\ GovKas' = GovKas

(* What every step has to keep. *)
StepKeeps == GovInv' /\ ValueKept

-----------------------------------------------------------------------------
(* Types and totals *)

LEMMA GovernanceConstants ==
    /\ NumModules \in Nat \ {0} /\ MaxProposals \in Nat
    /\ VotingDelay \in Nat /\ ExecutionWindow \in Nat /\ MaxAge \in Nat
    /\ ProposalDeposit \in Nat /\ ProposalFee \in Nat \ {0}
    /\ WeightEpoch \in Nat \ {0} /\ MaxVoteWeight \in Nat
    /\ InitialKusd \in Nat /\ InitialKas \in Nat /\ InitialDeposit \in Nat \ {0}
    /\ RootAllocation \in Nat /\ Allocations \subseteq Nat
    /\ 1 \in Users /\ NumShareSlots \in Nat \ {0}
    /\ CastWeights \subseteq 0..MaxVoteWeight /\ MaxVoteWeight > 0
<1>1. /\ NumModules \in Nat \ {0} /\ MaxProposals \in Nat
      /\ VotingDelay \in Nat /\ ExecutionWindow \in Nat
      /\ ProposalDeposit \in Nat /\ ProposalFee \in Nat \ {0}
      /\ WeightEpoch \in Nat \ {0} /\ RootAllocation \in Nat
      /\ InitialKusd \in Nat /\ InitialKas \in Nat /\ InitialDeposit \in Nat \ {0}
    BY GovernanceAssumption
<1>2. MaxVoteWeight \in 1..16 /\ Allocations \subseteq Nat \ {0} /\ NumShareSlots > 0
    BY GovernanceAssumption
<1>3. NumUsers \in Nat \ {0} /\ NumShareSlots \in Nat
    BY EquityAssumption
<1>4. MaxAge \in Nat
    BY <1>1 DEF MaxAge, Maximum
<1>5. /\ Allocations \subseteq Nat /\ MaxVoteWeight \in Nat /\ MaxVoteWeight > 0
      /\ CastWeights \subseteq 0..MaxVoteWeight
    BY <1>2, GovernanceAssumption
<1>6. 1 \in Users /\ NumShareSlots \in Nat \ {0}
    BY <1>2, <1>3 DEF Users
<1>7. QED
    BY <1>1, <1>4, <1>5, <1>6

LEMMA BlankTypes ==
    /\ NoProposal \in ProposalStates /\ NoDelegation \in Delegations
    /\ NoModule \in ModuleRecords
BY GovernanceConstants DEF NoProposal, ProposalStates, NoDelegation, Delegations,
                           NoModule, ModuleRecords

LEMMA GovernanceFacts ==
    ASSUME GovInv
    PROVE  /\ ReserveInv
           /\ root \in RootStates /\ root.remaining \in Nat
           /\ root.moduleNonce \in 0..NumModules
           /\ modules \in [ModuleSlots -> ModuleRecords]
           /\ governance \in GovernanceStates
           /\ governance.proposalNonce \in 0..MaxProposals
           /\ governance.executionNonce \in Nat
           /\ governance.active \in 0..MaxProposals
           /\ proposal \in ProposalStates /\ proposal.proposer \in Users
           /\ proposal.allocation \in Nat /\ proposal.deposit \in Nat
           /\ proposal.age \in 0..MaxAge
           /\ escrow \in Nat
           /\ delegation \in [ShareSlots -> Delegations]
           /\ shares \in [ShareSlots -> Share]
           /\ ModuleInv
BY ReserveFacts DEF GovInv, GovernanceTypeOK, RootStates, GovernanceStates, ProposalStates

(* New contents with the same amounts are as many KPS. *)
LEMMA SameAmounts ==
    ASSUME shares \in [ShareSlots -> Share], shares' \in [ShareSlots -> Share],
           \A s \in ShareSlots : shares'[s].amount = shares[s].amount
    PROVE  SumTo(AmountsOf(shares'), NumShareSlots) = SumTo(AmountsOf(shares), NumShareSlots)
<1> DEFINE f == AmountsOf(shares)
           g == AmountsOf(shares')
<1>1. \A i \in 1..NumShareSlots : f[i] \in Int /\ g[i] = f[i]
    BY DEF AmountsOf, ShareSlots, Share
<1> HIDE DEF f, g
<1>2. NumShareSlots \in Nat
    BY GovernanceConstants
<1>3. SumTo(g, NumShareSlots) = SumTo(f, NumShareSlots)
    BY <1>1, <1>2, SumSame
<1>4. QED
    BY <1>3 DEF f, g

(* A step that creates KPS UTXOs again, with other ages or locks. *)
LEMMA SameAmountsInv ==
    ASSUME ReserveInv, UNCHANGED <<kusd, kas, reserve, reserveToken, feeToken>>,
           shares' \in [ShareSlots -> Share],
           \A s \in ShareSlots : shares'[s].amount = shares[s].amount
    PROVE  ReserveInv'
<1>1. SumTo(AmountsOf(shares'), NumShareSlots) = reserve'.kps
    BY SameAmounts, ReserveFacts
<1>2. QED
    BY <1>1, ReserveFacts, ReserveInvNext

LEMMA RenewedShares ==
    ASSUME shares \in [ShareSlots -> Share], LockedShares, NEW slots, RenewShares(slots)
    PROVE  /\ shares' \in [ShareSlots -> Share]
           /\ \A s \in ShareSlots : shares'[s].amount = shares[s].amount
           /\ \A s \in ShareSlots : shares'[s].owner = shares[s].owner
           /\ LockedShares' /\ SameLocks
<1>1. ASSUME NEW s \in ShareSlots
      PROVE  /\ shares'[s] \in Share /\ shares'[s].amount = shares[s].amount
             /\ shares'[s].owner = shares[s].owner /\ (shares'[s].locked <=> shares[s].locked)
    <2>1. shares[s] \in Share /\ 0 \in 0..MinimumHoldingDaa
        BY EquityAssumption
    <2>2. shares'[s] = [shares[s] EXCEPT !.age = 0] \/ shares'[s] = shares[s]
        BY DEF RenewShares
    <2>3. QED
        BY <2>1, <2>2 DEF Share
<1>2. shares' \in [ShareSlots -> Share]
    BY <1>1 DEF RenewShares
<1>3. QED
    BY <1>1, <1>2 DEF LockedShares, SameLocks

-----------------------------------------------------------------------------
(* Modules *)

(* Steps of the Root's other actions and of Governance's that create none. *)
LEMMA NoModuleCreated ==
    ASSUME GovInv,
           modules' = modules, root'.moduleNonce = root.moduleNonce,
           root'.remaining = root.remaining,
           governance'.executionNonce = governance.executionNonce,
           governance'.proposalNonce \in Nat,
           governance'.proposalNonce >= governance.proposalNonce,
           governance'.active \in
               {0, governance.active, governance.proposalNonce + 1},
           governance'.active <= governance'.proposalNonce
    PROVE  ModuleInv'
<1>1. Governed' = Governed
    BY DEF Governed
<1>2. BlankModules' /\ AllocationConserved'
    BY GovernanceFacts DEF ModuleInv, BlankModules, AllocationConserved
<1>3. /\ Cardinality(Governed) = governance.executionNonce
      /\ \A m \in Governed : modules[m].proposal <= governance.proposalNonce
      /\ \A m \in Governed : modules[m].proposal # governance.active
      /\ \A m, n \in Governed : modules[m].proposal = modules[n].proposal => m = n
    BY GovernanceFacts DEF ModuleInv, ModulesFollowProposals
<1>4. ASSUME NEW m \in Governed
      PROVE  /\ modules'[m].proposal <= governance'.proposalNonce
             /\ modules'[m].proposal # governance'.active
    <2>1. modules[m].proposal \in Nat /\ modules[m].proposal # 0
        <3>1. m \in ModuleSlots
            BY GovernanceFacts, GovernanceConstants DEF Governed, ModuleSlots
        <3>2. modules[m] \in ModuleRecords
            BY <3>1, GovernanceFacts
        <3>3. modules[m].proposal # 0
            BY DEF Governed
        <3>4. QED
            BY <3>2, <3>3, GovernanceConstants DEF ModuleRecords
    <2>2. modules[m].proposal <= governance.proposalNonce
          /\ modules[m].proposal # governance.active
        BY <1>3
    <2>3. governance.proposalNonce \in Nat /\ governance.active \in Nat
        BY GovernanceFacts, GovernanceConstants
    <2>4. QED
        BY <2>1, <2>2, <2>3
<1>5. ModulesFollowProposals'
    BY <1>1, <1>3, <1>4 DEF ModulesFollowProposals
<1>6. QED
    BY <1>2, <1>5 DEF ModuleInv

LEMMA CreateModuleFacts ==
    ASSUME GovInv, NEW allocation, NEW from \in 0..MaxProposals, CreateModule(allocation, from)
    PROVE  /\ allocation \in Nat
           /\ root.moduleNonce + 1 \in ModuleSlots
           /\ root'.moduleNonce = root.moduleNonce + 1
           /\ root'.remaining = root.remaining - allocation
           /\ root' \in RootStates
           /\ modules' \in [ModuleSlots -> ModuleRecords]
           /\ modules'[root.moduleNonce + 1] = [allocation |-> allocation, proposal |-> from]
           /\ \A m \in ModuleSlots :
                  m # root.moduleNonce + 1 => modules'[m] = modules[m]
<1>1. allocation \in 1..root.remaining /\ root.moduleNonce < NumModules
    BY DEF CreateModule
<1>2. root.moduleNonce \in 0..NumModules /\ root.remaining \in Nat /\ NumModules \in Nat
    BY GovernanceFacts, GovernanceConstants
<1>3. /\ allocation \in Nat /\ root.remaining - allocation \in Nat
      /\ root.moduleNonce + 1 \in 1..NumModules
    BY <1>1, <1>2
<1>4. /\ root' = [root EXCEPT !.moduleNonce = root.moduleNonce + 1,
                               !.remaining = root.remaining - allocation]
      /\ modules' = [modules EXCEPT ![root.moduleNonce + 1] =
                        [allocation |-> allocation, proposal |-> from]]
    BY DEF CreateModule
<1>5. [allocation |-> allocation, proposal |-> from] \in ModuleRecords
    BY <1>3 DEF ModuleRecords
<1>6. /\ root' \in RootStates /\ root'.moduleNonce = root.moduleNonce + 1
      /\ root'.remaining = root.remaining - allocation
    <2> DEFINE nonce == root.moduleNonce + 1
               left == root.remaining - allocation
    <2>1. root \in RootStates /\ nonce \in 0..NumModules /\ left \in Nat
        BY <1>2, <1>3, GovernanceFacts
    <2>2. root' = [root EXCEPT !.moduleNonce = nonce, !.remaining = left]
        BY <1>4
    <2> HIDE DEF nonce, left
    <2>3. root' \in RootStates /\ root'.moduleNonce = nonce /\ root'.remaining = left
        BY <2>1, <2>2 DEF RootStates
    <2>4. QED
        BY <2>3 DEF nonce, left
<1>7. QED
    BY <1>3, <1>4, <1>5, <1>6, GovernanceFacts DEF ModuleSlots

(* What the Root gives up is what the new Module has. *)
LEMMA AllocationMoves ==
    ASSUME GovInv, NEW allocation, NEW from \in 0..MaxProposals, CreateModule(allocation, from)
    PROVE  BlankModules' /\ AllocationConserved'
<1> DEFINE k == root.moduleNonce + 1
           f == [m \in ModuleSlots |-> modules[m].allocation]
           g == [m \in ModuleSlots |-> modules'[m].allocation]
<1>1. /\ allocation \in Nat /\ k \in ModuleSlots
      /\ root'.moduleNonce = k /\ root'.remaining = root.remaining - allocation
      /\ modules' \in [ModuleSlots -> ModuleRecords]
      /\ modules'[k] = [allocation |-> allocation, proposal |-> from]
      /\ \A m \in ModuleSlots : m # k => modules'[m] = modules[m]
    BY CreateModuleFacts
<1>2. /\ modules \in [ModuleSlots -> ModuleRecords]
      /\ root.remaining \in Nat /\ root.moduleNonce \in Nat
      /\ BlankModules /\ AllocationConserved
    BY GovernanceFacts, GovernanceConstants DEF ModuleInv
<1>3. modules[k].allocation = 0
    BY <1>1, <1>2 DEF BlankModules, NoModule
<1>4. /\ \A i \in 1..NumModules : f[i] \in Int /\ g[i] \in Int
      /\ \A i \in 1..NumModules : i # k => g[i] = f[i]
      /\ f[k] = 0 /\ g[k] = allocation
    BY <1>1, <1>2, <1>3, SMTT(60) DEF ModuleSlots, ModuleRecords
<1>5. NumModules \in Nat /\ k \in 1..NumModules
    BY <1>1, GovernanceConstants DEF ModuleSlots
<1>6. root.remaining + SumTo(f, NumModules) = RootAllocation
    BY <1>2 DEF AllocationConserved, Handed
<1>7. AllocationConserved' = (root'.remaining + SumTo(g, NumModules) = RootAllocation)
    BY DEF AllocationConserved, Handed
<1> HIDE DEF f, g
<1>8. SumTo(g, NumModules) = SumTo(f, NumModules) + (g[k] - f[k]) /\ SumTo(f, NumModules) \in Int
    BY <1>4, <1>5, SumUpdate, SumInt, ZenonT(60)
<1>9. AllocationConserved'
    <2>1. root'.remaining = root.remaining - allocation /\ allocation \in Int
        BY <1>1
    <2>2. root.remaining \in Int
        BY <1>2
    <2>3. SumTo(g, NumModules) = SumTo(f, NumModules) + allocation
        BY <1>4, <1>8, <2>1
    <2>4. root'.remaining + SumTo(g, NumModules) = RootAllocation
        BY <1>6, <1>8, <2>1, <2>2, <2>3
    <2>5. QED
        BY <1>7, <2>4
<1>10. BlankModules'
    <2>1. k = root.moduleNonce + 1
        OBVIOUS
    <2> HIDE DEF k
    <2>2. ASSUME NEW m \in ModuleSlots, m > k
          PROVE  modules'[m] = NoModule
        <3>1. m \in Int /\ m # k /\ m > root.moduleNonce
            BY <1>2, <2>1, <2>2 DEF ModuleSlots
        <3>2. QED
            BY <1>1, <1>2, <3>1 DEF BlankModules
    <2>3. QED
        BY <1>1, <2>2 DEF BlankModules
<1>11. QED
    BY <1>9, <1>10

(* The key's Modules come from no proposal. *)
LEMMA KeyModuleInv ==
    ASSUME GovInv, NEW allocation, CreateModule(allocation, 0), governance' = governance
    PROVE  ModuleInv'
<1> DEFINE k == root.moduleNonce + 1
<1>1. 0 \in 0..MaxProposals
    BY GovernanceConstants
<1>2. /\ k \in ModuleSlots /\ root'.moduleNonce = k
      /\ modules'[k] = [allocation |-> allocation, proposal |-> 0]
      /\ \A m \in ModuleSlots : m # k => modules'[m] = modules[m]
    BY <1>1, CreateModuleFacts
<1>3. root.moduleNonce \in 0..NumModules /\ NumModules \in Nat
    BY GovernanceFacts, GovernanceConstants
<1>4. \A m \in 1..root.moduleNonce : modules'[m] = modules[m]
    BY <1>2, <1>3 DEF ModuleSlots
<1>5. Governed' = Governed
    <2>1. Governed' = {m \in 1..k : modules'[m].proposal # 0}
        BY <1>2 DEF Governed
    <2>2. modules'[k].proposal = 0 /\ 1..k = (1..root.moduleNonce) \cup {k}
        BY <1>2, <1>3
    <2>3. QED
        BY <1>4, <2>1, <2>2 DEF Governed
<1>6. ModulesFollowProposals'
    BY <1>4, <1>5, GovernanceFacts DEF ModuleInv, ModulesFollowProposals, Governed
<1>7. QED
    BY <1>1, <1>6, AllocationMoves, GovernanceFacts DEF ModuleInv

(* An execution adds one Module, of the proposal that was active. *)
LEMMA GovernedModuleInv ==
    ASSUME GovInv, NEW allocation, NEW from \in 0..MaxProposals,
           CreateModule(allocation, from), from = governance.active, from # 0,
           governance' = [governance EXCEPT !.executionNonce = @ + 1, !.active = 0]
    PROVE  ModuleInv'
<1> DEFINE k == root.moduleNonce + 1
<1>1. /\ k \in ModuleSlots /\ root'.moduleNonce = k
      /\ modules'[k] = [allocation |-> allocation, proposal |-> from]
      /\ \A m \in ModuleSlots : m # k => modules'[m] = modules[m]
    BY CreateModuleFacts
<1>2. root.moduleNonce \in 0..NumModules /\ NumModules \in Nat
    BY GovernanceFacts, GovernanceConstants
<1>3. \A m \in 1..root.moduleNonce : modules'[m] = modules[m]
    BY <1>1, <1>2 DEF ModuleSlots
<1>4. Governed' = Governed \cup {k} /\ k \notin Governed
    <2>1. Governed' = {m \in 1..k : modules'[m].proposal # 0}
        BY <1>1 DEF Governed
    <2>2. modules'[k].proposal # 0 /\ 1..k = (1..root.moduleNonce) \cup {k}
        BY <1>1, <1>2
    <2>3. k \notin 1..root.moduleNonce
        BY <1>2
    <2>4. QED
        BY <1>3, <2>1, <2>2, <2>3 DEF Governed
<1>5. IsFiniteSet(Governed)
    <2>1. IsFiniteSet(1..root.moduleNonce)
        <3>1. 1 \in Int /\ root.moduleNonce \in Int
            BY <1>2
        <3>2. QED
            BY <3>1, FS_Interval
    <2>2. Governed \in SUBSET (1..root.moduleNonce)
        BY DEF Governed
    <2>3. QED
        BY <2>1, <2>2, FS_Subset
<1>6. Cardinality(Governed') = Cardinality(Governed) + 1
    BY <1>4, <1>5, FS_AddElement
<1>7. /\ governance'.executionNonce = governance.executionNonce + 1
      /\ governance'.active = 0 /\ governance'.proposalNonce = governance.proposalNonce
    BY GovernanceFacts DEF GovernanceStates
<1>8. /\ Cardinality(Governed) = governance.executionNonce
      /\ \A m \in Governed : modules[m].proposal <= governance.proposalNonce
      /\ \A m \in Governed : modules[m].proposal # from
      /\ \A m, n \in Governed : modules[m].proposal = modules[n].proposal => m = n
      /\ from <= governance.proposalNonce
    BY GovernanceFacts DEF ModuleInv, ModulesFollowProposals
<1>9. \A m \in Governed : modules'[m] = modules[m] /\ modules[m].proposal # 0
    BY <1>3 DEF Governed
<1>10. modules'[k].proposal = from
    BY <1>1
<1> HIDE DEF k
<1>11. ModulesFollowProposals'
    <2>1. Cardinality(Governed') = governance'.executionNonce
        BY <1>6, <1>7, <1>8
    <2>2. \A m \in Governed' : modules'[m].proposal <= governance'.proposalNonce
        BY <1>4, <1>7, <1>8, <1>9, <1>10
    <2>3. \A m \in Governed' : modules'[m].proposal # governance'.active
        BY <1>4, <1>7, <1>9, <1>10
    <2>4. \A m, n \in Governed' : modules'[m].proposal = modules'[n].proposal => m = n
        BY <1>4, <1>8, <1>9, <1>10
    <2>5. QED
        BY <2>1, <2>2, <2>3, <2>4 DEF ModulesFollowProposals
<1>12. governance'.active <= governance'.proposalNonce
    BY <1>7, GovernanceFacts, GovernanceConstants
<1>13. QED
    BY <1>11, <1>12, AllocationMoves DEF ModuleInv

-----------------------------------------------------------------------------
(* Steps of the Root *)

LEMMA KeyStep ==
    ASSUME GovInv, NEW allocation \in Allocations, CreateModuleByKey(allocation)
    PROVE  StepKeeps
<1>1. /\ CreateModule(allocation, 0)
      /\ UNCHANGED equityVars /\ shares' = shares
      /\ governance' = governance /\ proposal' = proposal
      /\ escrow' = escrow /\ delegation' = delegation
    BY DEF CreateModuleByKey, equityVars
<1>2. 0 \in 0..MaxProposals
    BY GovernanceConstants
<1>3. root' \in RootStates /\ modules' \in [ModuleSlots -> ModuleRecords]
    BY <1>1, <1>2, CreateModuleFacts
<1>4. GovernanceTypeOK'
    BY <1>1, <1>3, GovernanceFacts DEF GovernanceTypeOK
<1>5. ReserveInv'
    BY <1>1, GovernanceFacts, ReserveStutter
<1>6. ModuleInv'
    BY <1>1, KeyModuleInv
<1>7. ProposalBacked' /\ ValueKept /\ LockedShares'
    BY <1>1 DEF GovInv, ProposalBacked, ValueKept, GovKusd, GovKas, LockedShares, equityVars
<1>8. QED
    BY <1>4, <1>5, <1>6, <1>7 DEF StepKeeps, GovInv

LEMMA HandoverStep ==
    ASSUME GovInv, Handover
    PROVE  StepKeeps
<1>1. /\ root' = [root EXCEPT !.authority = "governance"]
      /\ UNCHANGED equityVars /\ shares' = shares
      /\ modules' = modules /\ governance' = governance /\ proposal' = proposal
      /\ escrow' = escrow /\ delegation' = delegation
    BY DEF Handover, equityVars
<1>2. /\ root' \in RootStates /\ root'.moduleNonce = root.moduleNonce
      /\ root'.remaining = root.remaining
    BY <1>1, GovernanceFacts DEF RootStates
<1>3. GovernanceTypeOK'
    BY <1>1, <1>2, GovernanceFacts DEF GovernanceTypeOK
<1>4. ReserveInv'
    BY <1>1, GovernanceFacts, ReserveStutter
<1>5. ModuleInv'
    <2>1. /\ governance.active <= governance.proposalNonce
          /\ governance.proposalNonce \in Nat
        BY GovernanceFacts, GovernanceConstants DEF ModuleInv
    <2>2. QED
        BY <1>1, <1>2, <2>1, NoModuleCreated
<1>6. ProposalBacked' /\ ValueKept /\ LockedShares'
    BY <1>1 DEF GovInv, ProposalBacked, ValueKept, GovKusd, GovKas, LockedShares, equityVars
<1>7. QED
    BY <1>3, <1>4, <1>5, <1>6 DEF StepKeeps, GovInv

-----------------------------------------------------------------------------
(* Steps of a proposal *)

(* The parts of these totals are integers. *)
LEMMA ValueTotals ==
    ASSUME GovInv
    PROVE  /\ SumTo(kusd, NumUsers) \in Int /\ SumTo(kas, NumUsers) \in Int
           /\ SumTo(feeToken, NumFeeSlots) \in Int
           /\ reserveToken \in Int /\ reserve.collateral \in Int
           /\ escrow \in Int /\ proposal.deposit \in Int
BY GovernanceFacts, EquityTotals

LEMMA ProposeStep ==
    ASSUME GovInv, NEW u \in Users, NEW allocation \in Allocations,
           ProposeModule(u, allocation)
    PROVE  StepKeeps
<1> DEFINE nonce == governance.proposalNonce + 1
<1>1. /\ governance.active = 0 /\ governance.proposalNonce < MaxProposals
      /\ ProposalFee <= kusd[u] /\ ProposalDeposit <= kas[u]
      /\ governance' = [governance EXCEPT !.proposalNonce = nonce, !.active = nonce]
      /\ proposal' = [stage |-> "pending", proposer |-> u, nonce |-> nonce,
                      allocation |-> allocation, deposit |-> ProposalDeposit, age |-> 0]
      /\ escrow' = ProposalFee
      /\ kusd' = Debit(kusd, u, ProposalFee) /\ kas' = Debit(kas, u, ProposalDeposit)
      /\ reserve' = reserve /\ reserveToken' = reserveToken /\ feeToken' = feeToken
      /\ shares' = shares /\ root' = root /\ modules' = modules /\ delegation' = delegation
    BY DEF ProposeModule
<1>2. governance.proposalNonce \in 0..MaxProposals /\ MaxProposals \in Nat
    BY GovernanceFacts, GovernanceConstants
<1>3. nonce \in 1..MaxProposals
    BY <1>1, <1>2
<1>4. /\ governance' \in GovernanceStates
      /\ governance'.active = nonce /\ governance'.proposalNonce = nonce
      /\ governance'.executionNonce = governance.executionNonce
    <2> HIDE DEF nonce
    <2>1. nonce \in 0..MaxProposals
        BY <1>2, <1>3
    <2>2. QED
        BY <1>1, <2>1, GovernanceFacts DEF GovernanceStates
<1>5. proposal' \in ProposalStates
    <2> HIDE DEF nonce
    <2>1. /\ nonce \in 0..MaxProposals /\ allocation \in Nat /\ ProposalDeposit \in Nat
          /\ 0 \in 0..MaxAge
        BY <1>2, <1>3, GovernanceConstants
    <2>2. QED
        BY <1>1, <2>1 DEF ProposalStates
<1>6. GovernanceTypeOK'
    BY <1>1, <1>4, <1>5, GovernanceFacts, GovernanceConstants DEF GovernanceTypeOK
<1>7. /\ kusd' \in [Users -> Nat] /\ kas' \in [Users -> Nat]
      /\ SumTo(kusd', NumUsers) = SumTo(kusd, NumUsers) - ProposalFee
      /\ SumTo(kas', NumUsers) = SumTo(kas, NumUsers) - ProposalDeposit
    BY <1>1, GovernanceFacts, ReserveFacts, GovernanceConstants, WalletDebit
<1>8. ReserveInv'
    BY <1>1, <1>7, GovernanceFacts, ReserveFacts, ReserveInvNext
<1>9. ModuleInv'
    BY <1>1, <1>2, <1>3, <1>4, NoModuleCreated
<1>10. ProposalBacked'
    <2>1. governance'.active # 0
        BY <1>3, <1>4
    <2> HIDE DEF nonce
    <2>2. QED
        BY <1>1, <1>4, <2>1 DEF ProposalBacked
<1>11. ValueKept
    <2>1. escrow = 0 /\ proposal.deposit = 0
        BY <1>1 DEF GovInv, ProposalBacked, NoProposal
    <2>2. proposal'.deposit = ProposalDeposit /\ ProposalDeposit \in Int /\ ProposalFee \in Int
        BY <1>1, GovernanceConstants
    <2>3. QED
        BY <1>1, <1>7, <2>1, <2>2, ValueTotals DEF ValueKept, GovKusd, GovKas
<1>12. LockedShares'
    BY <1>1 DEF GovInv, LockedShares
<1>13. QED
    BY <1>6, <1>8, <1>9, <1>10, <1>11, <1>12 DEF StepKeeps, GovInv

LEMMA ActivateProposalStep ==
    ASSUME GovInv, ActivateProposal
    PROVE  StepKeeps
<1>1. /\ proposal.stage = "pending"
      /\ proposal' = [proposal EXCEPT !.stage = "activated", !.age = 0]
      /\ UNCHANGED equityVars /\ shares' = shares
      /\ root' = root /\ modules' = modules /\ governance' = governance
      /\ escrow' = escrow /\ delegation' = delegation
    BY DEF ActivateProposal, equityVars
<1>2. /\ proposal' \in ProposalStates /\ proposal'.stage = "activated"
      /\ proposal'.nonce = proposal.nonce /\ proposal'.deposit = proposal.deposit
    <2>1. proposal \in ProposalStates /\ 0 \in 0..MaxAge
        BY GovernanceFacts, GovernanceConstants
    <2>2. QED
        BY <1>1, <2>1 DEF ProposalStates
<1>3. GovernanceTypeOK'
    BY <1>1, <1>2, GovernanceFacts DEF GovernanceTypeOK
<1>4. ReserveInv'
    BY <1>1, GovernanceFacts, ReserveStutter
<1>5. ModuleInv'
    <2>1. /\ governance.active <= governance.proposalNonce
          /\ governance.proposalNonce \in Nat
        BY GovernanceFacts, GovernanceConstants DEF ModuleInv
    <2>2. QED
        BY <1>1, <2>1, NoModuleCreated
<1>6. ProposalBacked'
    BY <1>1, <1>2 DEF GovInv, ProposalBacked, NoProposal
<1>7. ValueKept /\ LockedShares'
    BY <1>1, <1>2 DEF GovInv, ValueKept, GovKusd, GovKas, LockedShares, equityVars
<1>8. QED
    BY <1>3, <1>4, <1>5, <1>6, <1>7 DEF StepKeeps, GovInv

(* The ends of a proposal: its deposit and fee go where they came from. *)
LEMMA RefundDepositFacts ==
    ASSUME GovInv, RefundDeposit
    PROVE  /\ kas' \in [Users -> Nat]
           /\ SumTo(kas', NumUsers) = SumTo(kas, NumUsers) + proposal.deposit
           /\ proposal' = NoProposal /\ proposal' \in ProposalStates
           /\ proposal'.deposit = 0
<1>1. kas' = Credit(kas, proposal.proposer, proposal.deposit) /\ proposal' = NoProposal
    BY DEF RefundDeposit
<1>2. proposal.proposer \in Users /\ proposal.deposit \in Nat /\ kas \in [Users -> Nat]
    BY GovernanceFacts, ReserveFacts
<1>3. /\ kas' \in [Users -> Nat]
      /\ SumTo(kas', NumUsers) = SumTo(kas, NumUsers) + proposal.deposit
    BY <1>1, <1>2, WalletCredit
<1>4. QED
    BY <1>1, <1>3, BlankTypes DEF NoProposal

LEMMA RefundFeeFacts ==
    ASSUME GovInv, RefundFee
    PROVE  /\ kusd' \in [Users -> Nat]
           /\ SumTo(kusd', NumUsers) = SumTo(kusd, NumUsers) + escrow
           /\ escrow' = 0
<1>1. kusd' = Credit(kusd, proposal.proposer, escrow) /\ escrow' = 0
    BY DEF RefundFee
<1>2. proposal.proposer \in Users /\ escrow \in Nat /\ kusd \in [Users -> Nat]
    BY GovernanceFacts, ReserveFacts
<1>3. QED
    BY <1>1, <1>2, WalletCredit

(* Fee and deposit are refunded and the Reserve is not in the transaction. *)
LEMMA RefundedValue ==
    ASSUME GovInv, RefundDeposit, RefundFee,
           UNCHANGED <<reserve, reserveToken, feeToken, shares>>
    PROVE  ReserveInv' /\ ValueKept /\ LockedShares'
<1>1. /\ kas' \in [Users -> Nat] /\ kusd' \in [Users -> Nat]
      /\ SumTo(kas', NumUsers) = SumTo(kas, NumUsers) + proposal.deposit
      /\ SumTo(kusd', NumUsers) = SumTo(kusd, NumUsers) + escrow
      /\ proposal'.deposit = 0 /\ escrow' = 0
    BY RefundDepositFacts, RefundFeeFacts
<1>2. ReserveInv'
    BY <1>1, GovernanceFacts, ReserveFacts, ReserveInvNext
<1>3. ValueKept
    BY <1>1, ValueTotals DEF ValueKept, GovKusd, GovKas
<1>4. LockedShares'
    BY DEF GovInv, LockedShares
<1>5. QED
    BY <1>2, <1>3, <1>4

(* Once Governance names no proposal and none is left, they agree. *)
LEMMA NoProposalBacked ==
    ASSUME governance'.active = 0, proposal' = NoProposal, escrow' = 0
    PROVE  ProposalBacked'
BY DEF ProposalBacked

LEMMA ExecuteModuleStep ==
    ASSUME GovInv, NEW entry \in RefundEntries, ExecuteModule(entry)
    PROVE  StepKeeps
<1>1. /\ ActiveProposalSpent
      /\ CreateModule(proposal.allocation, proposal.nonce)
      /\ governance' = [governance EXCEPT !.executionNonce = @ + 1, !.active = 0]
      /\ RefundDeposit /\ RefundFee
      /\ UNCHANGED <<reserve, reserveToken, feeToken, shares>> /\ delegation' = delegation
    BY DEF ExecuteModule
<1>2. /\ proposal.nonce = governance.active /\ proposal.nonce # 0
      /\ proposal.nonce \in 0..MaxProposals
    BY <1>1, GovernanceFacts DEF ActiveProposalSpent
<1>3. root' \in RootStates /\ modules' \in [ModuleSlots -> ModuleRecords]
    BY <1>1, <1>2, CreateModuleFacts
<1>4. governance' \in GovernanceStates /\ governance'.active = 0
    <2>1. /\ governance \in GovernanceStates /\ governance.executionNonce + 1 \in Nat
          /\ 0 \in 0..MaxProposals
        BY GovernanceFacts, GovernanceConstants
    <2>2. QED
        BY <1>1, <2>1 DEF GovernanceStates
<1>5. proposal' = NoProposal /\ proposal' \in ProposalStates /\ escrow' = 0
    BY <1>1, RefundDepositFacts, RefundFeeFacts
<1>6. GovernanceTypeOK'
    BY <1>1, <1>3, <1>4, <1>5, GovernanceFacts DEF GovernanceTypeOK
<1>7. ModuleInv'
    BY <1>1, <1>2, GovernedModuleInv
<1>8. ReserveInv' /\ ValueKept /\ LockedShares'
    BY <1>1, RefundedValue
<1>9. ProposalBacked'
    BY <1>4, <1>5, NoProposalBacked
<1>10. QED
    BY <1>6, <1>7, <1>8, <1>9 DEF StepKeeps, GovInv

(* Governance lets go of a proposal that creates no Module. *)
LEMMA ReleasedGovernance ==
    ASSUME GovInv, governance' = [governance EXCEPT !.active = 0],
           root' = root, modules' = modules
    PROVE  governance' \in GovernanceStates /\ governance'.active = 0 /\ ModuleInv'
<1>1. /\ governance \in GovernanceStates /\ 0 \in 0..MaxProposals
      /\ governance.proposalNonce \in Nat
    BY GovernanceFacts, GovernanceConstants
<1>2. /\ governance' \in GovernanceStates /\ governance'.active = 0
      /\ governance'.proposalNonce = governance.proposalNonce
      /\ governance'.executionNonce = governance.executionNonce
    BY <1>1 DEF GovernanceStates
<1>3. ModuleInv'
    BY <1>1, <1>2, NoModuleCreated
<1>4. QED
    BY <1>2, <1>3

LEMMA CancelExpiredStep ==
    ASSUME GovInv, NEW entry \in RefundEntries, CancelExpired(entry)
    PROVE  StepKeeps
<1>1. /\ governance' = [governance EXCEPT !.active = 0]
      /\ RefundDeposit /\ RefundFee
      /\ UNCHANGED <<reserve, reserveToken, feeToken, shares>>
      /\ root' = root /\ modules' = modules /\ delegation' = delegation
    BY DEF CancelExpired
<1>2. governance' \in GovernanceStates /\ governance'.active = 0 /\ ModuleInv'
    BY <1>1, ReleasedGovernance
<1>3. proposal' = NoProposal /\ proposal' \in ProposalStates /\ escrow' = 0
    BY <1>1, RefundDepositFacts, RefundFeeFacts
<1>4. GovernanceTypeOK'
    BY <1>1, <1>2, <1>3, GovernanceFacts DEF GovernanceTypeOK
<1>5. ReserveInv' /\ ValueKept /\ LockedShares'
    BY <1>1, RefundedValue
<1>6. ProposalBacked'
    BY <1>2, <1>3, NoProposalBacked
<1>7. QED
    BY <1>2, <1>4, <1>5, <1>6 DEF StepKeeps, GovInv

(* A veto moves the fee from escrow to the Reserve, its token and its book. *)
LEMMA VetoReserve ==
    ASSUME GovInv, CollectProposalFee(escrow), kusd' = kusd, feeToken' = feeToken,
           kas' \in [Users -> Nat], shares' \in [ShareSlots -> Share],
           \A s \in ShareSlots : shares'[s].amount = shares[s].amount
    PROVE  /\ ReserveInv'
           /\ reserve'.collateral = reserve.collateral
           /\ reserveToken' = reserveToken + escrow
<1>1. /\ reserve' = [reserve EXCEPT !.kusd = reserve.kusd + escrow]
      /\ reserveToken' = reserveToken + escrow
    BY DEF CollectProposalFee
<1>2. /\ reserve \in ReserveStates /\ escrow \in Nat /\ reserve.kusd \in Nat
      /\ reserveToken = reserve.kusd
      /\ SumTo(AmountsOf(shares), NumShareSlots) = reserve.kps
      /\ kusd \in [Users -> Nat] /\ feeToken \in [FeeSlots -> Nat]
      /\ shares \in [ShareSlots -> Share]
    BY GovernanceFacts, ReserveFacts
<1>3. /\ reserve' \in ReserveStates /\ reserve'.kusd = reserve.kusd + escrow
      /\ reserve'.kps = reserve.kps /\ reserve'.collateral = reserve.collateral
    <2>1. reserve.kusd + escrow \in Nat
        BY <1>2
    <2>2. QED
        BY <1>1, <1>2, <2>1 DEF ReserveStates
<1>4. SumTo(AmountsOf(shares'), NumShareSlots) = reserve'.kps
    BY <1>2, <1>3, SameAmounts
<1>5. ReserveInv'
    BY <1>1, <1>2, <1>3, <1>4, ReserveInvNext
<1>6. QED
    BY <1>1, <1>3, <1>5

LEMMA VetoModuleStep ==
    ASSUME GovInv, NEW voters \in SUBSET ShareSlots, VetoModule(voters)
    PROVE  StepKeeps
<1>1. /\ CollectProposalFee(escrow) /\ escrow' = 0
      /\ governance' = [governance EXCEPT !.active = 0]
      /\ RefundDeposit /\ RenewShares(voters)
      /\ delegation' = [s \in ShareSlots |->
             IF s \in voters THEN [delegation[s] EXCEPT !.age = 0] ELSE delegation[s]]
      /\ kusd' = kusd /\ feeToken' = feeToken /\ root' = root /\ modules' = modules
    BY DEF VetoModule, CastVotes
<1>2. governance' \in GovernanceStates /\ governance'.active = 0 /\ ModuleInv'
    BY <1>1, ReleasedGovernance
<1>3. /\ proposal' = NoProposal /\ proposal' \in ProposalStates /\ proposal'.deposit = 0
      /\ kas' \in [Users -> Nat]
      /\ SumTo(kas', NumUsers) = SumTo(kas, NumUsers) + proposal.deposit
    BY <1>1, RefundDepositFacts
<1>4. /\ shares' \in [ShareSlots -> Share]
      /\ \A s \in ShareSlots : shares'[s].amount = shares[s].amount
      /\ LockedShares'
    BY <1>1, GovernanceFacts, RenewedShares DEF GovInv
<1>5. /\ ReserveInv' /\ reserve'.collateral = reserve.collateral
      /\ reserveToken' = reserveToken + escrow
    BY <1>1, <1>3, <1>4, VetoReserve
<1>6. delegation' \in [ShareSlots -> Delegations]
    <2>1. ASSUME NEW s \in ShareSlots
          PROVE  [delegation[s] EXCEPT !.age = 0] \in Delegations /\ delegation[s] \in Delegations
        BY GovernanceFacts, GovernanceConstants DEF Delegations
    <2>2. QED
        BY <1>1, <2>1
<1>7. GovernanceTypeOK'
    BY <1>1, <1>2, <1>3, <1>6, GovernanceFacts DEF GovernanceTypeOK
<1>8. ValueKept
    BY <1>1, <1>3, <1>5, ValueTotals DEF ValueKept, GovKusd, GovKas
<1>9. ProposalBacked'
    BY <1>1, <1>2, <1>3, NoProposalBacked
<1>10. QED
    BY <1>2, <1>4, <1>5, <1>7, <1>8, <1>9 DEF StepKeeps, GovInv

-----------------------------------------------------------------------------
(* Steps of delegations and of time: proposals and Modules stay *)

LEMMA SharesOnlyStep ==
    ASSUME GovInv, LockedShares',
           UNCHANGED <<kusd, kas, reserve, reserveToken, feeToken, root, modules, governance,
                       escrow>>,
           shares' \in [ShareSlots -> Share],
           \A s \in ShareSlots : shares'[s].amount = shares[s].amount,
           delegation' \in [ShareSlots -> Delegations],
           proposal' \in ProposalStates, proposal'.stage = proposal.stage,
           proposal'.nonce = proposal.nonce, proposal'.deposit = proposal.deposit,
           proposal.stage = "none" => proposal' = proposal
    PROVE  StepKeeps
<1>1. ReserveInv'
    BY GovernanceFacts, SameAmountsInv
<1>2. GovernanceTypeOK'
    BY GovernanceFacts DEF GovernanceTypeOK
<1>3. ModuleInv'
    <2>1. /\ governance.active <= governance.proposalNonce
          /\ governance.proposalNonce \in Nat
        BY GovernanceFacts, GovernanceConstants DEF ModuleInv
    <2>2. QED
        BY <2>1, NoModuleCreated
<1>4. ProposalBacked'
    <2>1. proposal.stage = "none" <=> governance.active = 0
        BY DEF GovInv, ProposalBacked, NoProposal
    <2>2. QED
        BY <2>1 DEF GovInv, ProposalBacked
<1>5. ValueKept
    BY DEF GovInv, ValueKept, GovKusd, GovKas
<1>6. QED
    BY <1>1, <1>2, <1>3, <1>4, <1>5 DEF StepKeeps, GovInv

LEMMA AgeZero == 0 \in 0..MinimumHoldingDaa
BY EquityAssumption

(* A UTXO written by NewShare or NoShare is not locked. *)
LEMMA UnlockedShare ==
    /\ ~NoShare.locked
    /\ \A u, amount : ~NewShare(u, amount).locked
BY DEF NoShare, NewShare

LEMMA DelegationUpdate ==
    ASSUME GovInv, NEW s \in ShareSlots, NEW d \in Delegations
    PROVE  /\ [delegation EXCEPT ![s] = d] \in [ShareSlots -> Delegations]
           /\ [delegation EXCEPT ![s] = d][s] = d
           /\ \A i \in ShareSlots : i # s => [delegation EXCEPT ![s] = d][i] = delegation[i]
BY GovernanceFacts

(* Locking makes one UTXO again with a lock and a new age. *)
LEMMA LockedShare ==
    ASSUME GovInv, NEW s \in ShareSlots, LockShare(s)
    PROVE  /\ shares' \in [ShareSlots -> Share]
           /\ \A i \in ShareSlots : shares'[i].amount = shares[i].amount
           /\ LockedShares' /\ shares'[s].locked /\ ~shares[s].locked
           /\ shares'[s].owner = shares[s].owner
           /\ \A i \in ShareSlots : i # s => shares'[i] = shares[i]
<1>1. /\ shares \in [ShareSlots -> Share] /\ shares[s] \in Share
      /\ shares[s].amount > 0 /\ ~shares[s].locked
    BY GovernanceFacts DEF LockShare
<1>2. /\ shares'[s] = [shares[s] EXCEPT !.locked = TRUE, !.age = 0]
      /\ \A i \in ShareSlots : i # s => shares'[i] = shares[i]
      /\ shares' = [i \in ShareSlots |-> shares'[i]]
    BY <1>1 DEF LockShare, Share
<1>3. /\ shares'[s] \in Share /\ shares'[s].amount = shares[s].amount /\ shares'[s].locked
      /\ shares'[s].owner = shares[s].owner
    <2> DEFINE old == shares[s]
               new == shares'[s]
    <2>1. new = [old EXCEPT !.locked = TRUE, !.age = 0] /\ old \in Share
        BY <1>1, <1>2
    <2>2. 0 \in 0..MinimumHoldingDaa
        BY AgeZero
    <2> HIDE DEF old, new
    <2>3. new \in Share /\ new.amount = old.amount /\ new.locked /\ new.owner = old.owner
        BY <2>1, <2>2 DEF Share
    <2>4. QED
        BY <2>3 DEF old, new
<1>4. shares' \in [ShareSlots -> Share]
    BY <1>1, <1>2, <1>3
<1>5. LockedShares'
    BY <1>1, <1>2, <1>3 DEF GovInv, LockedShares
<1>6. QED
    BY <1>1, <1>2, <1>3, <1>4, <1>5

LEMMA LockDelegationStep ==
    ASSUME GovInv, NEW s \in ShareSlots, NEW v \in Users, LockDelegation(s, v)
    PROVE  StepKeeps
<1> DEFINE d == [delegate |-> v, weight |-> 0, age |-> 0]
<1>1. /\ LockShare(s)
      /\ delegation' = [delegation EXCEPT ![s] = d]
      /\ UNCHANGED <<kusd, kas, reserve, reserveToken, feeToken, root, modules, governance,
                     escrow>>
      /\ proposal' = proposal
    BY DEF LockDelegation
<1>2. d \in Delegations
    BY GovernanceConstants DEF Delegations
<1> HIDE DEF d
<1>3. delegation' \in [ShareSlots -> Delegations]
    BY <1>1, <1>2, DelegationUpdate
<1>4. /\ shares' \in [ShareSlots -> Share] /\ LockedShares'
      /\ \A i \in ShareSlots : shares'[i].amount = shares[i].amount
    BY <1>1, LockedShare
<1>5. QED
    BY <1>1, <1>3, <1>4, GovernanceFacts, SharesOnlyStep

(* Unlocking makes the same amount again for a wallet. *)
LEMMA UnlockedShares ==
    ASSUME GovInv, NEW s \in ShareSlots, NEW to \in Users, UnlockShare(s, to)
    PROVE  /\ shares' \in [ShareSlots -> Share]
           /\ \A i \in ShareSlots : shares'[i].amount = shares[i].amount
           /\ LockedShares' /\ ~shares'[s].locked /\ shares[s].locked
           /\ shares'[s].owner = to
           /\ \A i \in ShareSlots : i # s => shares'[i] = shares[i]
<1> DEFINE new == NewShare(to, shares[s].amount)
<1>1. /\ shares \in [ShareSlots -> Share] /\ shares[s] \in Share
      /\ shares[s].amount \in Nat /\ shares[s].amount > 0 /\ shares[s].locked
    BY GovernanceFacts DEF UnlockShare, Share
<1>2. shares' = [shares EXCEPT ![s] = new]
    BY DEF UnlockShare
<1>3. /\ new \in Share /\ new.amount = shares[s].amount /\ ~new.locked /\ new.owner = to
    BY <1>1, NewShareType, UnlockedShare DEF NewShare
<1> HIDE DEF new
<1>4. /\ shares' \in [ShareSlots -> Share] /\ shares'[s] = new
      /\ \A i \in ShareSlots : i # s => shares'[i] = shares[i]
    BY <1>1, <1>2, <1>3
<1>5. LockedShares'
    BY <1>3, <1>4 DEF GovInv, LockedShares
<1>6. QED
    BY <1>1, <1>3, <1>4, <1>5

LEMMA UnlockDelegationStep ==
    ASSUME GovInv, NEW s \in ShareSlots, NEW to \in Users, UnlockDelegation(s, to)
    PROVE  StepKeeps
<1>1. /\ UnlockShare(s, to)
      /\ delegation' = [delegation EXCEPT ![s] = NoDelegation]
      /\ UNCHANGED <<kusd, kas, reserve, reserveToken, feeToken, root, modules, governance,
                     escrow>>
      /\ proposal' = proposal
    BY DEF UnlockDelegation
<1>2. delegation' \in [ShareSlots -> Delegations]
    BY <1>1, BlankTypes, DelegationUpdate
<1>3. /\ shares' \in [ShareSlots -> Share] /\ LockedShares'
      /\ \A i \in ShareSlots : shares'[i].amount = shares[i].amount
    BY <1>1, UnlockedShares
<1>4. QED
    BY <1>1, <1>2, <1>3, GovernanceFacts, SharesOnlyStep

(* Beside a delegation that goes on only its owner and an age may change. *)
LEMMA KeptShares ==
    ASSUME GovInv, NEW s \in ShareSlots, NEW owner \in Users, NEW kept \in ShareSlots,
           KeepShare(s, owner, kept)
    PROVE  /\ shares' \in [ShareSlots -> Share]
           /\ \A i \in ShareSlots : shares'[i].amount = shares[i].amount
           /\ LockedShares' /\ SameLocks /\ shares[s].locked
           /\ shares'[s].owner = owner
           /\ \A i \in ShareSlots : i # s => shares'[i].owner = shares[i].owner
<1>1. ASSUME NEW i \in ShareSlots
      PROVE  /\ shares'[i] \in Share /\ shares'[i].amount = shares[i].amount
             /\ (shares'[i].locked <=> shares[i].locked)
             /\ shares'[i].owner = IF i = s THEN owner ELSE shares[i].owner
    <2> DEFINE who == IF i = s THEN owner ELSE shares[i].owner
               old == IF i = kept THEN 0 ELSE shares[i].age
    <2>1. shares[i] \in Share /\ 0 \in 0..MinimumHoldingDaa
        BY GovernanceFacts, AgeZero
    <2>2. shares'[i] = [shares[i] EXCEPT !.owner = who, !.age = old]
        <3>1. shares'[i] = [shares[i] EXCEPT !.owner = IF i = s THEN owner ELSE @,
                                             !.age = IF i = kept THEN 0 ELSE @]
            BY Zenon DEF KeepShare
        <3>2. QED
            BY <2>1, <3>1 DEF Share
    <2>3. who \in Users /\ old \in 0..MinimumHoldingDaa
        BY <2>1 DEF Share
    <2> HIDE DEF old, who
    <2>4. /\ shares'[i] \in Share /\ shares'[i].amount = shares[i].amount
          /\ (shares'[i].locked <=> shares[i].locked) /\ shares'[i].owner = who
        BY <2>1, <2>2, <2>3 DEF Share
    <2>5. QED
        BY <2>4 DEF who
<1>2. shares' \in [ShareSlots -> Share] /\ shares[s].locked
    <2>1. shares' = [i \in ShareSlots |-> shares'[i]]
        BY Zenon DEF KeepShare
    <2>2. shares[s].locked
        BY Zenon DEF KeepShare
    <2>3. QED
        BY <1>1, <2>1, <2>2
<1>3. QED
    BY <1>1, <1>2 DEF GovInv, LockedShares, SameLocks

LEMMA ContinuedStep ==
    ASSUME GovInv, NEW s \in ShareSlots, NEW owner \in Users, NEW d \in Delegations,
           NEW kept \in ShareSlots, Continued(s, owner, d, kept)
    PROVE  StepKeeps
<1>1. /\ KeepShare(s, owner, kept)
      /\ delegation' = [delegation EXCEPT ![s] = d]
      /\ UNCHANGED <<kusd, kas, reserve, reserveToken, feeToken, root, modules, governance,
                     escrow>>
      /\ proposal' = proposal
    BY DEF Continued
<1>2. /\ shares' \in [ShareSlots -> Share] /\ LockedShares'
      /\ \A i \in ShareSlots : shares'[i].amount = shares[i].amount
    BY <1>1, KeptShares
<1>3. delegation' \in [ShareSlots -> Delegations]
    BY <1>1, DelegationUpdate
<1>4. QED
    BY <1>1, <1>2, <1>3, GovernanceFacts, SharesOnlyStep

(* What the four policies of a delegation make of it. *)
LEMMA Matured ==
    ASSUME GovInv, NEW s \in ShareSlots, NEW kept \in ShareSlots, Mature(s, kept)
    PROVE  \E d \in Delegations :
              /\ Continued(s, shares[s].owner, d, kept) /\ shares[s].owner \in Users
              /\ d.weight = delegation[s].weight + 1 /\ d.age = 0
              /\ d.delegate = delegation[s].delegate
              /\ delegation[s].age >= WeightEpoch /\ delegation[s].weight < MaxVoteWeight
<1> DEFINE old == delegation[s]
           d == [old EXCEPT !.weight = @ + 1, !.age = 0]
<1>1. /\ old.weight < MaxVoteWeight /\ old.age >= WeightEpoch
      /\ Continued(s, shares[s].owner, d, kept)
    BY DEF Mature, MatureDue
<1>2. old \in Delegations /\ MaxVoteWeight \in Nat /\ 0 \in 0..WeightEpoch
      /\ shares[s].owner \in Users
    BY GovernanceFacts, GovernanceConstants DEF Share
<1> HIDE DEF old
<1>3. d \in Delegations /\ d.weight = old.weight + 1 /\ d.age = 0 /\ d.delegate = old.delegate
    <2>1. old.weight + 1 \in 0..MaxVoteWeight
        BY <1>1, <1>2 DEF Delegations
    <2>2. QED
        BY <1>2, <2>1 DEF Delegations
<1> HIDE DEF d
<1>4. QED
    BY <1>1, <1>2, <1>3 DEF old

LEMMA Redelegated ==
    ASSUME GovInv, NEW s \in ShareSlots, NEW kept \in ShareSlots, NEW v \in Users,
           Redelegate(s, v, kept)
    PROVE  \E d \in Delegations :
              /\ Continued(s, shares[s].owner, d, kept) /\ shares[s].owner \in Users
              /\ d.weight = delegation[s].weight /\ d.age = 0 /\ d.delegate = v
              /\ v # delegation[s].delegate
<1> DEFINE old == delegation[s]
           d == [old EXCEPT !.delegate = v, !.age = 0]
<1>1. v # old.delegate /\ Continued(s, shares[s].owner, d, kept)
    BY DEF Redelegate
<1>2. old \in Delegations /\ 0 \in 0..WeightEpoch /\ shares[s].owner \in Users
    BY GovernanceFacts, GovernanceConstants DEF Share
<1> HIDE DEF old
<1>3. d \in Delegations /\ d.weight = old.weight /\ d.age = 0 /\ d.delegate = v
    BY <1>2 DEF Delegations
<1> HIDE DEF d
<1>4. QED
    BY <1>1, <1>2, <1>3 DEF old

LEMMA CastElsewhere ==
    ASSUME GovInv, NEW s \in ShareSlots, NEW kept \in ShareSlots, NEW owner \in Users,
           NEW v \in Users, NEW weight \in CastWeights, CastUncounted(s, owner, v, weight, kept)
    PROVE  \E d \in Delegations :
              /\ Continued(s, owner, d, kept)
              /\ d.weight = weight /\ d.age = 0 /\ delegation[s].weight > 0
<1> DEFINE d == [delegate |-> v, weight |-> weight, age |-> 0]
<1>1. delegation[s].weight > 0 /\ Continued(s, owner, d, kept)
    BY DEF CastUncounted
<1>2. d \in Delegations
    BY GovernanceConstants DEF Delegations
<1>3. QED
    BY <1>1, <1>2

(* KPS released beside its delegation is a wallet's, and the delegation's *)
(* slot is empty.                                                          *)
LEMMA ReleasedShares ==
    ASSUME GovInv, NEW s \in ShareSlots, NEW kept \in ShareSlots, NEW to \in Users,
           ReleaseShare(s, kept, to)
    PROVE  /\ shares' \in [ShareSlots -> Share]
           /\ \A i \in ShareSlots : shares'[i].amount = shares[i].amount
           /\ LockedShares' /\ ~shares'[s].locked /\ shares[s].locked
           /\ shares'[s].owner = to
           /\ \A i \in ShareSlots : i # s => (shares'[i].locked <=> shares[i].locked)
           /\ \A i \in ShareSlots : i # s => shares'[i].owner = shares[i].owner
<1> DEFINE new == NewShare(to, shares[s].amount)
           renewed == [shares[kept] EXCEPT !.age = 0]
<1>1. /\ shares \in [ShareSlots -> Share] /\ shares[s] \in Share /\ shares[kept] \in Share
      /\ shares[s].amount \in Nat /\ shares[s].locked /\ kept # s
    BY GovernanceFacts DEF ReleaseShare, Share
<1>2. shares[s].amount > 0
    BY <1>1 DEF GovInv, LockedShares
<1>3. /\ new \in Share /\ new.amount = shares[s].amount /\ ~new.locked /\ new.owner = to
    BY <1>1, <1>2, NewShareType, UnlockedShare DEF NewShare
<1>4. /\ renewed \in Share /\ renewed.amount = shares[kept].amount
      /\ (renewed.locked <=> shares[kept].locked) /\ renewed.owner = shares[kept].owner
    BY <1>1, AgeZero DEF Share
<1>5. /\ shares' \in [ShareSlots -> Share] /\ shares'[s] = new /\ shares'[kept] = renewed
      /\ \A i \in ShareSlots : i # s /\ i # kept => shares'[i] = shares[i]
    <2>1. shares' = [shares EXCEPT ![s] = new, ![kept] = renewed]
        BY <1>1 DEF ReleaseShare
    <2> HIDE DEF new, renewed
    <2>2. QED
        BY <1>1, <1>3, <1>4, <2>1
<1> HIDE DEF new, renewed
<1>6. LockedShares'
    BY <1>3, <1>4, <1>5 DEF GovInv, LockedShares
<1>7. QED
    BY <1>1, <1>3, <1>4, <1>5, <1>6

LEMMA ReleaseKpsStep ==
    ASSUME GovInv, NEW s \in ShareSlots, NEW policy, NEW kept \in ShareSlots, NEW to \in Users,
           ReleaseKps(s, policy, kept, to)
    PROVE  StepKeeps
<1>1. /\ ReleaseShare(s, kept, to)
      /\ delegation' = [delegation EXCEPT ![s] = NoDelegation]
      /\ UNCHANGED <<kusd, kas, reserve, reserveToken, feeToken, root, modules, governance,
                     escrow>>
      /\ proposal' = proposal
    BY DEF ReleaseKps
<1>2. delegation' \in [ShareSlots -> Delegations]
    BY <1>1, BlankTypes, DelegationUpdate
<1>3. /\ shares' \in [ShareSlots -> Share] /\ LockedShares'
      /\ \A i \in ShareSlots : shares'[i].amount = shares[i].amount
    BY <1>1, ReleasedShares
<1>4. QED
    BY <1>1, <1>2, <1>3, GovernanceFacts, SharesOnlyStep

LEMMA AllDelegationSteps ==
    ASSUME GovInv, DelegationStep
    PROVE  StepKeeps
<1>1. ASSUME NEW s \in ShareSlots, NEW v \in Users, LockDelegation(s, v) \/ UnlockDelegation(s, v)
      PROVE  StepKeeps
    BY <1>1, LockDelegationStep, UnlockDelegationStep
<1>2. ASSUME NEW s \in ShareSlots, NEW kept \in ShareSlots,
             \/ Mature(s, kept) \/ \E v \in Users : Redelegate(s, v, kept)
             \/ \E owner, v \in Users, weight \in CastWeights :
                    CastUncounted(s, owner, v, weight, kept)
      PROVE  StepKeeps
    <2>1. \E owner \in Users, d \in Delegations : Continued(s, owner, d, kept)
        BY <1>2, Matured, Redelegated, CastElsewhere
    <2>2. QED
        BY <2>1, ContinuedStep
<1>3. ASSUME NEW s \in ShareSlots, NEW kept \in ShareSlots, NEW to \in Users,
             NEW policy \in DelegationPolicies, ReleaseKps(s, policy, kept, to)
      PROVE  StepKeeps
    BY <1>3, ReleaseKpsStep
<1>4. QED
    BY <1>1, <1>2, <1>3 DEF DelegationStep

LEMMA AgedShares ==
    ASSUME GovInv, AgeShares
    PROVE  /\ shares' \in [ShareSlots -> Share] /\ LockedShares' /\ SameLocks
           /\ \A i \in ShareSlots : shares'[i].amount = shares[i].amount
<1>1. ASSUME NEW i \in ShareSlots
      PROVE  /\ shares'[i] \in Share /\ shares'[i].amount = shares[i].amount
             /\ shares'[i].owner = shares[i].owner /\ (shares'[i].locked <=> shares[i].locked)
    <2> DEFINE older == IF shares[i].amount > 0 /\ shares[i].age < MinimumHoldingDaa
                        THEN shares[i].age + 1 ELSE shares[i].age
    <2>1. shares'[i] = [shares[i] EXCEPT !.age = older]
        BY DEF AgeShares
    <2>2. shares[i] \in Share /\ shares[i].age \in 0..MinimumHoldingDaa
        BY GovernanceFacts DEF Share
    <2>3. older \in 0..MinimumHoldingDaa
        BY <2>2, EquityAssumption
    <2> HIDE DEF older
    <2>4. QED
        BY <2>1, <2>2, <2>3 DEF Share
<1>2. shares' \in [ShareSlots -> Share]
    BY <1>1 DEF AgeShares
<1>3. QED
    BY <1>1, <1>2 DEF GovInv, LockedShares, SameLocks

LEMMA TickStep ==
    ASSUME GovInv, Tick
    PROVE  StepKeeps
<1>1. /\ AgeShares
      /\ UNCHANGED <<kusd, kas, reserve, reserveToken, feeToken, root, modules, governance,
                     escrow>>
    BY DEF Tick
<1>2. /\ proposal' \in ProposalStates /\ proposal'.stage = proposal.stage
      /\ proposal'.nonce = proposal.nonce /\ proposal'.deposit = proposal.deposit
      /\ proposal.stage = "none" => proposal' = proposal
    <2> DEFINE older == IF proposal.stage # "none" /\ proposal.age < MaxAge
                        THEN proposal.age + 1 ELSE proposal.age
    <2>1. proposal' = [proposal EXCEPT !.age = older]
        BY DEF Tick
    <2>2. proposal \in ProposalStates /\ proposal.age \in 0..MaxAge
        BY GovernanceFacts
    <2>3. older \in 0..MaxAge
        BY <2>2, GovernanceConstants
    <2>4. proposal.stage = "none" => older = proposal.age
        OBVIOUS
    <2> HIDE DEF older
    <2>5. QED
        BY <2>1, <2>2, <2>3, <2>4 DEF ProposalStates
<1>3. delegation' \in [ShareSlots -> Delegations]
    <2>1. ASSUME NEW s \in ShareSlots
          PROVE  delegation'[s] \in Delegations
        <3> DEFINE older == IF shares[s].locked /\ delegation[s].age < WeightEpoch
                            THEN delegation[s].age + 1 ELSE delegation[s].age
        <3>1. delegation'[s] = [delegation[s] EXCEPT !.age = older]
            BY DEF Tick
        <3>2. delegation[s] \in Delegations /\ delegation[s].age \in 0..WeightEpoch
            BY GovernanceFacts DEF Delegations
        <3>3. older \in 0..WeightEpoch
            BY <3>2, GovernanceConstants
        <3> HIDE DEF older
        <3>4. QED
            BY <3>1, <3>2, <3>3 DEF Delegations
    <2>2. QED
        BY <2>1 DEF Tick
<1>4. QED
    BY <1>1, <1>2, <1>3, AgedShares, SharesOnlyStep

-----------------------------------------------------------------------------
(* Steps of the Reserve and its tokens: new KPS go to free slots, and only *)
(* unlocked ones are spent.                                                *)

LEMMA FreeSlotUnlocked ==
    ASSUME GovInv, NEW s \in ShareSlots, FreeSlot(s)
    PROVE  ~shares[s].locked
<1>1. shares[s].amount = 0
    BY DEF FreeSlot
<1>2. QED
    BY <1>1 DEF GovInv, LockedShares

LEMMA ReplacedUnlocked ==
    ASSUME GovInv, NEW s \in ShareSlots, NEW r, ~shares[s].locked, ~r.locked,
           shares' = [shares EXCEPT ![s] = r]
    PROVE  LockedShares' /\ SameLocks
<1>1. shares'[s] = r /\ \A i \in ShareSlots : i # s => shares'[i] = shares[i]
    BY GovernanceFacts
<1>2. LockedShares'
    BY <1>1 DEF GovInv, LockedShares
<1>3. (shares'[s].locked <=> shares[s].locked)
    BY <1>1, GovernanceFacts DEF Share
<1>4. QED
    BY <1>1, <1>2, <1>3 DEF SameLocks

LEMMA TwoReplacedUnlocked ==
    ASSUME GovInv, NEW s \in ShareSlots, NEW t \in ShareSlots, NEW r, NEW q,
           ~shares[s].locked, ~shares[t].locked, ~r.locked, ~q.locked,
           shares' = [shares EXCEPT ![s] = r, ![t] = q]
    PROVE  LockedShares' /\ SameLocks
<1>1. shares'[s] \in {r, q} /\ shares'[t] = q
    BY GovernanceFacts
<1>2. \A i \in ShareSlots : i # s /\ i # t => shares'[i] = shares[i]
    BY GovernanceFacts
<1>3. LockedShares'
    BY <1>1, <1>2 DEF GovInv, LockedShares
<1>4. /\ (shares'[s].locked <=> shares[s].locked) /\ (shares'[t].locked <=> shares[t].locked)
    BY <1>1, GovernanceFacts DEF Share
<1>5. QED
    BY <1>2, <1>3, <1>4 DEF SameLocks

LEMMA EquityKeepsLocked ==
    ASSUME GovInv, ReserveStep \/ TokenStep
    PROVE  LockedShares' /\ SameLocks
<1>1. ASSUME NEW u \in Users, NEW amount \in KusdAmounts, NEW s \in ShareSlots,
             InitializeReserve(u, amount, s) \/ Deposit(u, amount, s)
      PROVE  LockedShares' /\ SameLocks
    <2>1. FreeSlot(s) /\ \E n : shares' = [shares EXCEPT ![s] = NewShare(u, n)]
        BY <1>1 DEF InitializeReserve, Deposit
    <2>2. QED
        BY <2>1, FreeSlotUnlocked, UnlockedShare, ReplacedUnlocked
<1>2. ASSUME NEW s \in ShareSlots, Redeem(s)
      PROVE  LockedShares' /\ SameLocks
    <2>1. ~shares[s].locked /\ shares' = [shares EXCEPT ![s] = NoShare]
        BY <1>2 DEF Redeem
    <2>2. QED
        BY <2>1, UnlockedShare, ReplacedUnlocked
<1>3. ASSUME shares' = shares
      PROVE  LockedShares' /\ SameLocks
    BY <1>3 DEF GovInv, LockedShares, SameLocks
<1>4. ASSUME NEW s \in ShareSlots, NEW t \in ShareSlots, NEW v \in Users,
             NEW amount \in KpsAmounts, TransferShares(s, t, v, amount)
      PROVE  LockedShares' /\ SameLocks
    <2> DEFINE r == NewShare(shares[s].owner, shares[s].amount - amount)
               q == NewShare(v, amount)
    <2>1. ~shares[s].locked /\ (t = s \/ FreeSlot(t))
        BY <1>4 DEF TransferShares
    <2>2. shares' = [shares EXCEPT ![s] = r, ![t] = q]
        BY <1>4 DEF TransferShares
    <2>3. ~r.locked /\ ~q.locked
        BY UnlockedShare
    <2> HIDE DEF r, q
    <2>4. QED
        BY <2>1, <2>2, <2>3, FreeSlotUnlocked, TwoReplacedUnlocked
<1>5. ASSUME NEW s \in ShareSlots, NEW t \in ShareSlots, MergeShares(s, t)
      PROVE  LockedShares' /\ SameLocks
    <2> DEFINE r == NewShare(shares[s].owner, shares[s].amount + shares[t].amount)
    <2>1. /\ ~shares[s].locked /\ ~shares[t].locked
          /\ shares' = [shares EXCEPT ![s] = r, ![t] = NoShare]
        BY <1>5 DEF MergeShares
    <2>2. ~r.locked /\ ~NoShare.locked
        BY UnlockedShare
    <2> HIDE DEF r
    <2>3. QED
        BY <2>1, <2>2, TwoReplacedUnlocked
<1>6. ASSUME NEW f \in FeeSlots, CollectFee(f)
      PROVE  shares' = shares
    BY <1>6 DEF CollectFee
<1>7. ASSUME NEW u \in Users, NEW v \in Users, NEW amount \in KusdAmounts,
             TransferKusd(u, v, amount)
      PROVE  shares' = shares
    BY <1>7 DEF TransferKusd
<1>8. QED
    BY <1>1, <1>2, <1>3, <1>4, <1>5, <1>6, <1>7 DEF ReserveStep, TokenStep

LEMMA EquityOnlyStep ==
    ASSUME GovInv, ReserveStep \/ TokenStep, UNCHANGED governanceVars
    PROVE  StepKeeps
<1>1. /\ root' = root /\ modules' = modules /\ governance' = governance
      /\ proposal' = proposal /\ escrow' = escrow /\ delegation' = delegation
    BY DEF governanceVars
<1>2. ReserveInv'
    BY GovernanceFacts, ReserveStepInv, TokenStepInv
<1>3. /\ SumTo(kusd', NumUsers) + SumTo(feeToken', NumFeeSlots) + reserveToken' =
             SumTo(kusd, NumUsers) + SumTo(feeToken, NumFeeSlots) + reserveToken
      /\ SumTo(kas', NumUsers) + reserve'.collateral =
             SumTo(kas, NumUsers) + reserve.collateral
    BY GovernanceFacts, EquityStepConserves DEF EquityConserves, EquityKusd, EquityKas
<1>4. ValueKept
    BY <1>1, <1>3 DEF GovInv, ValueKept, GovKusd, GovKas
<1>5. GovernanceTypeOK'
    BY <1>1, GovernanceFacts DEF GovernanceTypeOK
<1>6. ModuleInv'
    <2>1. /\ governance.active <= governance.proposalNonce
          /\ governance.proposalNonce \in Nat
        BY GovernanceFacts, GovernanceConstants DEF ModuleInv
    <2>2. QED
        BY <1>1, <2>1, NoModuleCreated
<1>7. ProposalBacked'
    BY <1>1 DEF GovInv, ProposalBacked
<1>8. QED
    BY <1>2, <1>4, <1>5, <1>6, <1>7, EquityKeepsLocked DEF StepKeeps, GovInv

LEMMA StutterKeeps ==
    ASSUME GovInv, UNCHANGED vars
    PROVE  StepKeeps
<1>1. /\ root' = root /\ modules' = modules /\ governance' = governance
      /\ proposal' = proposal /\ escrow' = escrow /\ delegation' = delegation
      /\ UNCHANGED equityVars /\ shares' = shares
    BY DEF vars, governanceVars, equityVars
<1>2. ReserveInv'
    BY <1>1, GovernanceFacts, ReserveStutter
<1>3. GovernanceTypeOK'
    BY <1>1, GovernanceFacts DEF GovernanceTypeOK
<1>4. ModuleInv'
    <2>1. /\ governance.active <= governance.proposalNonce
          /\ governance.proposalNonce \in Nat
        BY GovernanceFacts, GovernanceConstants DEF ModuleInv
    <2>2. QED
        BY <1>1, <2>1, NoModuleCreated
<1>5. ProposalBacked' /\ ValueKept /\ LockedShares'
    BY <1>1 DEF GovInv, ProposalBacked, ValueKept, GovKusd, GovKas, LockedShares, equityVars
<1>6. QED
    BY <1>2, <1>3, <1>4, <1>5 DEF StepKeeps, GovInv

-----------------------------------------------------------------------------
(* Every step, and the first state *)

LEMMA GovernanceStep ==
    ASSUME GovInv, [Next]_vars
    PROVE  StepKeeps
<1>1. CASE Tick
    BY <1>1, TickStep
<1>2. CASE RootStep
    BY <1>2, KeyStep, HandoverStep DEF RootStep
<1>3. CASE ProposalStep
    BY <1>3, ProposeStep, ActivateProposalStep, ExecuteModuleStep, CancelExpiredStep,
       VetoModuleStep DEF ProposalStep, CancelStep
<1>4. CASE DelegationStep
    BY <1>4, AllDelegationSteps
<1>5. CASE (ReserveStep \/ TokenStep) /\ UNCHANGED governanceVars
    BY <1>5, EquityOnlyStep
<1>6. CASE UNCHANGED vars
    BY <1>6, StutterKeeps
<1>7. QED
    BY <1>1, <1>2, <1>3, <1>4, <1>5, <1>6 DEF Next

(* A family with one entry that is not zero sums to that entry. *)
LEMMA SumOfOne ==
    ASSUME NEW n \in Nat, NEW f, NEW k \in 1..n, f[k] \in Int,
           \A i \in 1..n : i # k => f[i] = 0
    PROVE  SumTo(f, n) = f[k]
<1> DEFINE zeros == [i \in 1..n |-> 0]
<1>1. /\ \A i \in 1..n : zeros[i] = 0
      /\ \A i \in 1..n : zeros[i] \in Int /\ f[i] \in Int
      /\ \A i \in 1..n : i # k => f[i] = zeros[i]
    OBVIOUS
<1> HIDE DEF zeros
<1>2. SumTo(zeros, n) = 0
    BY <1>1, SumOfZeros
<1>3. SumTo(f, n) = SumTo(zeros, n) + (f[k] - zeros[k])
    BY <1>1, SumUpdate
<1>4. QED
    BY <1>1, <1>2, <1>3

LEMMA InitialReserve ==
    ASSUME Init
    PROVE  ReserveInv /\ LockedShares
<1>1. /\ NewShare(1, InitialDeposit) \in Share
      /\ NewShare(1, InitialDeposit).amount = InitialDeposit
      /\ NoShare \in Share /\ NoShare.amount = 0 /\ ~NoShare.locked
      /\ ~NewShare(1, InitialDeposit).locked
    BY GovernanceConstants, NewShareType, NoShareType, UnlockedShare
<1>2. shares = [s \in ShareSlots |-> IF s = 1 THEN NewShare(1, InitialDeposit) ELSE NoShare]
    BY DEF Init
<1> DEFINE f == AmountsOf(shares)
<1>3. NumShareSlots \in Nat /\ 1 \in 1..NumShareSlots
    BY GovernanceConstants
<1>4. f[1] = InitialDeposit /\ \A i \in 1..NumShareSlots : i # 1 => f[i] = 0
    BY <1>1, <1>2, <1>3 DEF AmountsOf, ShareSlots
<1>5. InitialDeposit \in Nat
    BY GovernanceConstants
<1> HIDE DEF f
<1>6. SumTo(f, NumShareSlots) = InitialDeposit
    BY <1>3, <1>4, <1>5, SumOfOne
<1>7. shares \in [ShareSlots -> Share] /\ LockedShares
    BY <1>1, <1>2 DEF LockedShares
<1>8. EquityTypeOK
    BY <1>5, <1>7, GovernanceConstants DEF Init, EquityTypeOK, ReserveStates
<1>9. ReserveBooked /\ SharesBacked
    BY <1>6 DEF Init, ReserveBooked, SharesBacked, f
<1>10. QED
    BY <1>7, <1>8, <1>9 DEF ReserveInv

LEMMA InitialModules ==
    ASSUME Init
    PROVE  ModuleInv
<1>1. /\ modules = [m \in ModuleSlots |->
                       IF m = 1 THEN [allocation |-> BootstrapAllocation, proposal |-> 0]
                       ELSE NoModule]
      /\ root.remaining = RootAllocation - BootstrapAllocation /\ root.moduleNonce = 1
      /\ governance.active = 0 /\ governance.proposalNonce = 0
      /\ governance.executionNonce = 0
    BY DEF Init
<1>2. /\ NumModules \in Nat /\ 1 \in 1..NumModules
      /\ RootAllocation \in Nat /\ BootstrapAllocation \in Nat
    BY GovernanceAssumption
<1>3. AllocationConserved
    <2> DEFINE f == [m \in ModuleSlots |-> modules[m].allocation]
    <2>1. f[1] = BootstrapAllocation /\ \A i \in 1..NumModules : i # 1 => f[i] = 0
        BY <1>1, <1>2 DEF ModuleSlots, NoModule
    <2>2. Handed(modules) = SumTo(f, NumModules)
        BY DEF Handed
    <2> HIDE DEF f
    <2>3. SumTo(f, NumModules) = BootstrapAllocation
        BY <1>2, <2>1, SumOfOne
    <2>4. QED
        BY <1>1, <1>2, <2>2, <2>3 DEF AllocationConserved
<1>4. BlankModules
    <2>1. \A m \in ModuleSlots : m > 1 => m # 1
        BY DEF ModuleSlots
    <2>2. QED
        BY <1>1, <2>1 DEF BlankModules
<1>5. Governed = {}
    <2>1. \A m \in 1..1 : m = 1 /\ m \in ModuleSlots
        BY <1>2 DEF ModuleSlots
    <2>2. \A m \in 1..1 : modules[m].proposal = 0
        BY <1>1, <2>1
    <2>3. QED
        BY <1>1, <2>2 DEF Governed
<1>6. ModulesFollowProposals
    BY <1>1, <1>5, FS_EmptySet DEF ModulesFollowProposals
<1>7. QED
    BY <1>1, <1>3, <1>4, <1>6 DEF ModuleInv

LEMMA InitialGovInv ==
    ASSUME Init
    PROVE  GovInv
<1>1. /\ root \in RootStates /\ modules \in [ModuleSlots -> ModuleRecords]
    <2>1. /\ RootAllocation - BootstrapAllocation \in Nat /\ BootstrapAllocation \in Nat
          /\ 1 \in 0..NumModules /\ 0 \in 0..MaxProposals
        BY GovernanceAssumption
    <2>2. [allocation |-> BootstrapAllocation, proposal |-> 0] \in ModuleRecords
        BY <2>1 DEF ModuleRecords
    <2>3. QED
        BY <2>1, <2>2, BlankTypes DEF Init, RootStates
<1>2. governance \in GovernanceStates
    BY GovernanceConstants DEF Init, GovernanceStates
<1>3. GovernanceTypeOK
    BY <1>1, <1>2, BlankTypes DEF Init, GovernanceTypeOK
<1>4. ProposalBacked
    BY DEF Init, ProposalBacked
<1>5. QED
    BY <1>3, <1>4, InitialReserve, InitialModules DEF GovInv

(* What the wallets and the Reserve start with. *)
LEMMA InitialValue ==
    ASSUME Init
    PROVE  /\ ValueConserved
           /\ GovKusd = NumUsers * InitialKusd + InitialDeposit /\ GovKas = NumUsers * InitialKas
<1>1. /\ NumUsers \in Nat /\ NumFeeSlots \in Nat
      /\ InitialKusd \in Nat /\ InitialKas \in Nat /\ InitialDeposit \in Nat
    BY GovernanceConstants, SlotCounts
<1>2. /\ \A i \in 1..NumUsers : kusd[i] = InitialKusd /\ kas[i] = InitialKas
      /\ \A i \in 1..NumFeeSlots : feeToken[i] = 0
    BY DEF Init, Users, FeeSlots
<1>3. /\ SumTo(kusd, NumUsers) = NumUsers * InitialKusd
      /\ SumTo(kas, NumUsers) = NumUsers * InitialKas
    BY <1>1, <1>2, SumOfConstants
<1>4. SumTo(feeToken, NumFeeSlots) = 0
    BY <1>1, <1>2, SumOfZeros
<1>5. /\ reserveToken = InitialDeposit /\ escrow = 0
      /\ reserve.collateral = 0 /\ proposal.deposit = 0
    BY DEF Init, NoProposal
<1>6. NumUsers * InitialKusd \in Nat /\ NumUsers * InitialKas \in Nat
    BY <1>1, ProductNat
<1>7. QED
    BY <1>1, <1>3, <1>4, <1>5, <1>6 DEF ValueConserved, GovKusd, GovKas

LEMMA GovernanceInvariant == Spec => []GovInv
<1>1. Init => GovInv
    BY InitialGovInv
<1>2. GovInv /\ [Next]_vars => GovInv'
    BY GovernanceStep DEF StepKeeps
<1>3. QED
    BY <1>1, <1>2, PTL DEF Spec

(* Root, proposals, delegations and the Reserve keep their types: no       *)
(* Module is created beyond the Root's allocation, no wallet overdrawn.    *)
THEOREM GovernanceTyped == Spec => []TypeOK
<1>1. GovInv => TypeOK
    BY DEF GovInv, ReserveInv, TypeOK
<1>2. QED
    BY <1>1, GovernanceInvariant, PTL

(* What Modules may mint and what the Root has left is RootAllocation,     *)
(* whoever creates them and however many there are.                        *)
THEOREM AllocationStays == Spec => []AllocationConserved
<1>1. GovInv => AllocationConserved
    BY DEF GovInv, ModuleInv
<1>2. QED
    BY <1>1, GovernanceInvariant, PTL

(* Governance names a proposal exactly while it exists with deposit and fee. *)
THEOREM ProposalStaysBacked == Spec => []ProposalBacked
<1>1. GovInv => ProposalBacked
    BY DEF GovInv
<1>2. QED
    BY <1>1, GovernanceInvariant, PTL

(* Each proposal creates at most one Module. *)
THEOREM OneModulePerProposal == Spec => []ModulesFollowProposals
<1>1. GovInv => ModulesFollowProposals
    BY DEF GovInv, ModuleInv
<1>2. QED
    BY <1>1, GovernanceInvariant, PTL

(* Deposits and fees of proposals are neither lost nor paid twice. *)
THEOREM ValueStaysConserved == Spec => []ValueConserved
<1>1. Init => ValueConserved
    BY InitialValue
<1>2. ValueConserved /\ GovInv /\ [Next]_vars => ValueConserved'
    BY GovernanceStep DEF StepKeeps, ValueKept, GovKusd, GovKas, ValueConserved
<1>3. QED
    BY <1>1, <1>2, GovernanceInvariant, PTL DEF Spec

-----------------------------------------------------------------------------
(* What voters are promised, with the observers of MC_Governance *)

(* The epochs a delegation has earned, and the part of the next one. *)
Score(s) == delegation[s].weight * WeightEpoch + delegation[s].age

(* While KPS stay locked only the clock adds to their score, unless the    *)
(* delegate writes another weight; the first weight is earned in any case. *)
ScoreMoves(s) ==
    /\ ~shares'[s].locked => delegation'[s] = NoDelegation
    /\ shares'[s].locked /\ ~shares[s].locked =>
           delegation'[s].weight = 0 /\ delegation'[s].age = 0
    /\ shares'[s].locked /\ shares[s].locked =>
           /\ \/ delegation'[s].age <= delegation[s].age
              \/ Tick /\ delegation'[s].age <= delegation[s].age + 1
           /\ delegation'[s].weight > 0 =>
                  delegation[s].weight > 0 \/ delegation[s].age >= WeightEpoch
           /\ Recast(s) \/ Score(s)' <= Score(s) \/ (Tick /\ Score(s)' <= Score(s) + 1)

ScoresMove == \A s \in ShareSlots : ScoreMoves(s)

WeightInv ==
    \A s \in ShareSlots :
        /\ lockedFor[s] \in Nat /\ recast[s] \in BOOLEAN
        /\ ~shares[s].locked => delegation[s] = NoDelegation
        /\ lockedFor[s] >= WeightEpoch \/ delegation[s].age <= lockedFor[s]
        /\ delegation[s].weight > 0 => lockedFor[s] >= WeightEpoch
        /\ ~recast[s] => lockedFor[s] >= FullWeightTime \/ Score(s) <= lockedFor[s]

(* The proposal's age is no older than the proposal until its activation. *)
NoticeInv ==
    /\ announced \in Nat
    /\ proposal.stage = "pending" => announced >= VotingDelay \/ proposal.age <= announced
    /\ proposal.stage = "activated" => announced >= VotingDelay

(* The inductive invariant with the observers. *)
ObservedInv == GovInv /\ WeightInv /\ NoticeInv

LEMMA ScoreNat ==
    ASSUME delegation \in [ShareSlots -> Delegations], NEW s \in ShareSlots
    PROVE  /\ Score(s) \in Nat /\ delegation[s] \in Delegations
           /\ delegation[s].weight * WeightEpoch \in Nat
           /\ delegation[s].weight \in 0..MaxVoteWeight /\ delegation[s].age \in 0..WeightEpoch
<1>1. /\ delegation[s] \in Delegations
      /\ delegation[s].weight \in 0..MaxVoteWeight /\ delegation[s].age \in 0..WeightEpoch
    BY DEF Delegations
<1>2. WeightEpoch \in Nat /\ MaxVoteWeight \in Nat
    BY GovernanceConstants
<1>3. delegation[s].weight \in Nat /\ delegation[s].age \in Nat
    BY <1>1, <1>2
<1>4. delegation[s].weight * WeightEpoch \in Nat
    BY <1>2, <1>3, ProductNat
<1>5. QED
    BY <1>1, <1>3, <1>4 DEF Score

LEMMA NoScore ==
    ASSUME NEW d, d.weight = 0, d.age = 0
    PROVE  d.weight * WeightEpoch + d.age = 0
BY GovernanceConstants

(* The types of a slot's delegation and of what becomes of it. *)
LEMMA ScoreTypes ==
    ASSUME GovInv, delegation' \in [ShareSlots -> Delegations], NEW s \in ShareSlots
    PROVE  /\ Score(s) \in Nat /\ Score(s)' \in Nat /\ WeightEpoch \in Nat \ {0}
           /\ delegation[s].weight \in Nat /\ delegation[s].age \in Nat
           /\ delegation'[s].weight \in Nat /\ delegation'[s].age \in Nat
           /\ delegation[s].weight * WeightEpoch \in Nat
           /\ delegation'[s].weight * WeightEpoch \in Nat
           /\ Score(s) = delegation[s].weight * WeightEpoch + delegation[s].age
           /\ Score(s)' = delegation'[s].weight * WeightEpoch + delegation'[s].age
<1>1. WeightEpoch \in Nat \ {0} /\ MaxVoteWeight \in Nat
    BY GovernanceConstants
<1>2. delegation[s] \in Delegations /\ delegation'[s] \in Delegations
    BY GovernanceFacts
<1>3. /\ delegation[s].weight \in Nat /\ delegation[s].age \in Nat
      /\ delegation'[s].weight \in Nat /\ delegation'[s].age \in Nat
    BY <1>1, <1>2 DEF Delegations
<1>4. /\ delegation[s].weight * WeightEpoch \in Nat
      /\ delegation'[s].weight * WeightEpoch \in Nat
    BY <1>1, <1>3, ProductNat
<1>5. /\ Score(s) = delegation[s].weight * WeightEpoch + delegation[s].age
      /\ Score(s)' = delegation'[s].weight * WeightEpoch + delegation'[s].age
    BY DEF Score
<1>6. QED
    BY <1>1, <1>3, <1>4, <1>5

LEMMA ScoreStays ==
    ASSUME GovInv, WeightInv, NEW s \in ShareSlots,
           delegation' \in [ShareSlots -> Delegations], delegation'[s] = delegation[s],
           shares'[s].locked <=> shares[s].locked
    PROVE  ScoreMoves(s)
<1>1. /\ ~shares[s].locked => delegation[s] = NoDelegation
      /\ Score(s)' <= Score(s) /\ delegation'[s].age <= delegation[s].age
    BY ScoreTypes DEF WeightInv
<1>2. QED
    BY <1>1 DEF ScoreMoves

LEMMA ScoresStay ==
    ASSUME GovInv, WeightInv, SameLocks, delegation' = delegation
    PROVE  ScoresMove
<1>1. delegation' \in [ShareSlots -> Delegations]
    BY GovernanceFacts
<1>2. ASSUME NEW s \in ShareSlots
      PROVE  ScoreMoves(s)
    BY <1>1, ScoreStays DEF SameLocks
<1>3. QED
    BY <1>2 DEF ScoresMove

(* One delegation is made, spent or created again. *)
LEMMA OneScoreMoves ==
    ASSUME GovInv, WeightInv, NEW s \in ShareSlots, NEW d \in Delegations,
           delegation' = [delegation EXCEPT ![s] = d],
           \A i \in ShareSlots : i # s => (shares'[i].locked <=> shares[i].locked),
           ScoreMoves(s)
    PROVE  ScoresMove
<1>1. /\ delegation' \in [ShareSlots -> Delegations]
      /\ \A i \in ShareSlots : i # s => delegation'[i] = delegation[i]
    BY DelegationUpdate
<1>2. ASSUME NEW i \in ShareSlots, i # s
      PROVE  ScoreMoves(i)
    BY <1>1, <1>2, ScoreStays
<1>3. QED
    BY <1>2 DEF ScoresMove

LEMMA LockingMoves ==
    ASSUME GovInv, WeightInv, NEW s \in ShareSlots, NEW v \in Users, LockDelegation(s, v)
    PROVE  ScoresMove
<1> DEFINE d == [delegate |-> v, weight |-> 0, age |-> 0]
<1>1. LockShare(s) /\ delegation' = [delegation EXCEPT ![s] = d]
    BY DEF LockDelegation
<1>2. d \in Delegations /\ d.weight = 0 /\ d.age = 0
    BY GovernanceConstants DEF Delegations
<1> HIDE DEF d
<1>3. /\ shares'[s].locked /\ ~shares[s].locked
      /\ \A i \in ShareSlots : i # s => shares'[i] = shares[i]
    BY <1>1, LockedShare
<1>4. delegation'[s] = d
    BY <1>1, <1>2, DelegationUpdate
<1>5. ScoreMoves(s)
    BY <1>2, <1>3, <1>4 DEF ScoreMoves
<1>6. QED
    BY <1>1, <1>2, <1>3, <1>5, OneScoreMoves

(* Unlocked KPS, whoever they go to, leave a delegation without weight. *)
LEMMA UnlockingMoves ==
    ASSUME GovInv, WeightInv, NEW s \in ShareSlots,
           ~shares'[s].locked, delegation' = [delegation EXCEPT ![s] = NoDelegation],
           \A i \in ShareSlots : i # s => (shares'[i].locked <=> shares[i].locked)
    PROVE  ScoresMove
<1>1. delegation'[s] = NoDelegation
    BY BlankTypes, DelegationUpdate
<1>2. ScoreMoves(s)
    BY <1>1 DEF ScoreMoves
<1>3. QED
    BY <1>2, BlankTypes, OneScoreMoves

LEMMA NextEpoch ==
    ASSUME NEW w \in Nat, NEW e \in Nat
    PROVE  (w + 1) * e = w * e + e /\ w * e \in Nat
OBVIOUS

(* A delegation that goes on starts a new age. *)
LEMMA ContinuedMoves ==
    ASSUME GovInv, WeightInv, NEW s \in ShareSlots, NEW owner \in Users,
           NEW kept \in ShareSlots, NEW d \in Delegations, Continued(s, owner, d, kept),
           d.age = 0,
           d.weight > 0 => delegation[s].weight > 0 \/ delegation[s].age >= WeightEpoch,
           Recast(s) \/ d.weight * WeightEpoch <= Score(s)
    PROVE  ScoresMove
<1>1. KeepShare(s, owner, kept) /\ delegation' = [delegation EXCEPT ![s] = d]
    BY DEF Continued
<1>2. SameLocks /\ shares[s].locked
    BY <1>1, KeptShares
<1>3. delegation' \in [ShareSlots -> Delegations] /\ delegation'[s] = d
    BY <1>1, DelegationUpdate
<1>4. Recast(s) \/ Score(s)' <= Score(s)
    BY <1>3, ScoreTypes
<1>5. delegation'[s].age <= delegation[s].age
    BY <1>3, ScoreTypes
<1>6. ScoreMoves(s)
    BY <1>2, <1>3, <1>4, <1>5 DEF ScoreMoves, SameLocks
<1>7. QED
    BY <1>1, <1>2, <1>6, OneScoreMoves DEF SameLocks

(* A step of weight costs an epoch of age. *)
LEMMA MaturingMoves ==
    ASSUME GovInv, WeightInv, NEW s \in ShareSlots, NEW kept \in ShareSlots, Mature(s, kept)
    PROVE  ScoresMove
<1>1. PICK d \in Delegations :
          /\ Continued(s, shares[s].owner, d, kept) /\ shares[s].owner \in Users
          /\ d.weight = delegation[s].weight + 1 /\ d.age = 0
          /\ delegation[s].age >= WeightEpoch
    BY Matured
<1>2. /\ delegation[s].weight \in Nat /\ delegation[s].age \in Nat /\ WeightEpoch \in Nat
      /\ Score(s) = delegation[s].weight * WeightEpoch + delegation[s].age
    <2>1. delegation[s] \in Delegations /\ MaxVoteWeight \in Nat /\ WeightEpoch \in Nat
        BY GovernanceFacts, GovernanceConstants
    <2>2. QED
        BY <2>1 DEF Delegations, Score
<1>3. /\ d.weight * WeightEpoch = delegation[s].weight * WeightEpoch + WeightEpoch
      /\ delegation[s].weight * WeightEpoch \in Nat
    BY <1>1, <1>2, NextEpoch
<1>4. d.weight * WeightEpoch <= Score(s)
    BY <1>1, <1>2, <1>3
<1>5. QED
    BY <1>1, <1>4, ContinuedMoves

LEMMA RedelegatingMoves ==
    ASSUME GovInv, WeightInv, NEW s \in ShareSlots, NEW kept \in ShareSlots, NEW v \in Users,
           Redelegate(s, v, kept)
    PROVE  ScoresMove
<1>1. PICK d \in Delegations :
          /\ Continued(s, shares[s].owner, d, kept) /\ shares[s].owner \in Users
          /\ d.weight = delegation[s].weight /\ d.age = 0
    BY Redelegated
<1>2. Score(s) >= delegation[s].weight * WeightEpoch
    <2>1. /\ delegation[s].weight * WeightEpoch \in Nat /\ delegation[s].age \in Nat
        BY GovernanceFacts, GovernanceConstants, ScoreNat
    <2>2. QED
        BY <2>1 DEF Score
<1>3. d.weight * WeightEpoch <= Score(s)
    BY <1>1, <1>2
<1>4. QED
    BY <1>1, <1>3, ContinuedMoves

(* A vote that is not counted keeps the weight, or is told apart from the  *)
(* maturing it may look like.                                              *)
LEMMA CastingMoves ==
    ASSUME GovInv, WeightInv, NEW s \in ShareSlots, NEW kept \in ShareSlots,
           NEW owner \in Users, NEW v \in Users, NEW weight \in CastWeights,
           CastUncounted(s, owner, v, weight, kept)
    PROVE  ScoresMove
<1>1. PICK d \in Delegations :
          /\ Continued(s, owner, d, kept)
          /\ d.weight = weight /\ d.age = 0 /\ delegation[s].weight > 0
    BY CastElsewhere
<1>2. CASE \E k \in ShareSlots : Mature(s, k)
    BY <1>2, MaturingMoves
<1>3. CASE ~\E k \in ShareSlots : Mature(s, k)
    <2>1. delegation'[s] = d
        BY <1>1, DelegationUpdate DEF Continued
    <2>2. CASE d.weight = delegation[s].weight
        <3>1. /\ delegation[s].weight * WeightEpoch \in Nat /\ delegation[s].age \in Nat
            BY GovernanceFacts, GovernanceConstants, ScoreNat
        <3>2. d.weight * WeightEpoch <= Score(s)
            BY <2>2, <3>1 DEF Score
        <3>3. QED
            BY <1>1, <3>2, ContinuedMoves
    <2>3. CASE d.weight # delegation[s].weight
        <3>1. Recast(s)
            BY <1>3, <2>1, <2>3 DEF Recast
        <3>2. QED
            BY <1>1, <3>1, ContinuedMoves
    <2>4. QED
        BY <2>2, <2>3
<1>4. QED
    BY <1>2, <1>3

LEMMA DelegationMoves ==
    ASSUME GovInv, WeightInv, DelegationStep
    PROVE  ScoresMove
<1>1. ASSUME NEW s \in ShareSlots, NEW v \in Users, LockDelegation(s, v)
      PROVE  ScoresMove
    BY <1>1, LockingMoves
<1>2. ASSUME NEW s \in ShareSlots, NEW v \in Users, UnlockDelegation(s, v)
      PROVE  ScoresMove
    <2>1. UnlockShare(s, v) /\ delegation' = [delegation EXCEPT ![s] = NoDelegation]
        BY <1>2 DEF UnlockDelegation
    <2>2. ~shares'[s].locked /\ \A i \in ShareSlots : i # s => shares'[i] = shares[i]
        BY <2>1, UnlockedShares
    <2>3. QED
        BY <2>1, <2>2, UnlockingMoves
<1>3. ASSUME NEW s \in ShareSlots, NEW kept \in ShareSlots, NEW to \in Users,
             NEW policy \in DelegationPolicies, ReleaseKps(s, policy, kept, to)
      PROVE  ScoresMove
    <2>1. ReleaseShare(s, kept, to) /\ delegation' = [delegation EXCEPT ![s] = NoDelegation]
        BY <1>3 DEF ReleaseKps
    <2>2. /\ ~shares'[s].locked
          /\ \A i \in ShareSlots : i # s => (shares'[i].locked <=> shares[i].locked)
        BY <2>1, ReleasedShares
    <2>3. QED
        BY <2>1, <2>2, UnlockingMoves
<1>4. QED
    BY <1>1, <1>2, <1>3, MaturingMoves, RedelegatingMoves, CastingMoves DEF DelegationStep

(* A vote costs the ages of the delegations spent for it. *)
LEMMA VotingMoves ==
    ASSUME GovInv, WeightInv, NEW voters, CastVotes(voters),
           delegation' \in [ShareSlots -> Delegations]
    PROVE  ScoresMove
<1>1. SameLocks
    BY GovernanceFacts, RenewedShares DEF GovInv, CastVotes
<1>2. ASSUME NEW s \in ShareSlots
      PROVE  ScoreMoves(s)
    <2> DEFINE older == IF s \in voters THEN 0 ELSE delegation[s].age
    <2>1. delegation[s] \in Delegations /\ delegation[s].age \in Nat
        BY GovernanceFacts, ScoreTypes
    <2>2. delegation'[s] = [delegation[s] EXCEPT !.age = older]
        BY <2>1 DEF CastVotes, Delegations
    <2>3. older \in Nat /\ older <= delegation[s].age
        BY <2>1
    <2>4. delegation[s].age = 0 => older = 0
        OBVIOUS
    <2> HIDE DEF older
    <2>5. /\ delegation'[s].weight = delegation[s].weight /\ delegation'[s].age = older
          /\ older = delegation[s].age => delegation'[s] = delegation[s]
        BY <2>1, <2>2 DEF Delegations
    <2>6. Score(s)' <= Score(s)
        BY <2>1, <2>3, <2>5, ScoreTypes
    <2>7. /\ (shares'[s].locked <=> shares[s].locked)
          /\ ~shares[s].locked => delegation[s] = NoDelegation
        BY <1>1 DEF SameLocks, WeightInv
    <2>8. NoDelegation.age = 0
        BY DEF NoDelegation
    <2>9. QED
        BY <2>3, <2>4, <2>5, <2>6, <2>7, <2>8 DEF ScoreMoves
<1>3. QED
    BY <1>2 DEF ScoresMove

LEMMA TickMoves ==
    ASSUME GovInv, WeightInv, Tick, delegation' \in [ShareSlots -> Delegations]
    PROVE  ScoresMove
<1>1. SameLocks
    BY AgedShares DEF Tick
<1>2. ASSUME NEW s \in ShareSlots
      PROVE  ScoreMoves(s)
    <2> DEFINE older == IF shares[s].locked /\ delegation[s].age < WeightEpoch
                        THEN delegation[s].age + 1 ELSE delegation[s].age
    <2>1. delegation[s] \in Delegations /\ delegation[s].age \in Nat
        BY GovernanceFacts, ScoreTypes
    <2>2. delegation'[s] = [delegation[s] EXCEPT !.age = older]
        BY DEF Tick
    <2>3. older \in Nat /\ older <= delegation[s].age + 1
        BY <2>1
    <2>4. ~shares[s].locked => older = delegation[s].age
        OBVIOUS
    <2> HIDE DEF older
    <2>5. /\ delegation'[s].weight = delegation[s].weight /\ delegation'[s].age = older
          /\ older = delegation[s].age => delegation'[s] = delegation[s]
        BY <2>1, <2>2 DEF Delegations
    <2>6. Score(s)' <= Score(s) + 1
        BY <2>1, <2>3, <2>5, ScoreTypes
    <2>7. /\ (shares'[s].locked <=> shares[s].locked)
          /\ ~shares[s].locked => delegation[s] = NoDelegation
        BY <1>1 DEF SameLocks, WeightInv
    <2>8. QED
        BY <2>3, <2>4, <2>5, <2>6, <2>7 DEF ScoreMoves
<1>3. QED
    BY <1>2 DEF ScoresMove

LEMMA NextMoves ==
    ASSUME GovInv, WeightInv, Next, delegation' \in [ShareSlots -> Delegations]
    PROVE  ScoresMove
<1>1. ASSUME shares' = shares, delegation' = delegation
      PROVE  ScoresMove
    BY <1>1, ScoresStay DEF SameLocks
<1>2. CASE Tick
    BY <1>2, TickMoves
<1>3. CASE RootStep
    BY <1>1, <1>3 DEF RootStep, CreateModuleByKey, Handover, equityVars
<1>4. CASE ProposalStep
    <2>1. ASSUME NEW u \in Users, NEW a \in Allocations, ProposeModule(u, a)
          PROVE  ScoresMove
        BY <1>1, <2>1 DEF ProposeModule
    <2>2. CASE ActivateProposal
        BY <1>1, <2>2 DEF ActivateProposal, equityVars
    <2>3. ASSUME NEW entry \in RefundEntries, ExecuteModule(entry) \/ CancelExpired(entry)
          PROVE  ScoresMove
        BY <1>1, <2>3 DEF ExecuteModule, CancelExpired
    <2>4. ASSUME NEW voters, VetoModule(voters)
          PROVE  ScoresMove
        BY <2>4, VotingMoves DEF VetoModule
    <2>5. QED
        BY <1>4, <2>1, <2>2, <2>3, <2>4 DEF ProposalStep, CancelStep
<1>5. CASE DelegationStep
    BY <1>5, DelegationMoves
<1>6. CASE (ReserveStep \/ TokenStep) /\ UNCHANGED governanceVars
    <2>1. SameLocks /\ delegation' = delegation
        BY <1>6, EquityKeepsLocked DEF governanceVars
    <2>2. QED
        BY <2>1, ScoresStay
<1>7. QED
    BY <1>2, <1>3, <1>4, <1>5, <1>6 DEF Next

LEMMA WeightStep ==
    ASSUME GovInv, WeightInv, ScoresMove, delegation' \in [ShareSlots -> Delegations], Observe
    PROVE  WeightInv'
<1> DEFINE Kept(s) == IF Tick /\ lockedFor[s] < FullWeightTime THEN lockedFor[s] + 1
                      ELSE lockedFor[s]
<1>1. FullWeightTime \in Nat /\ FullWeightTime >= WeightEpoch
    BY GovernanceConstants, ProductNat, ProductMonotone DEF FullWeightTime
<1>2. ASSUME NEW s \in ShareSlots
      PROVE  /\ lockedFor'[s] \in Nat /\ recast'[s] \in BOOLEAN
             /\ ~shares'[s].locked => delegation'[s] = NoDelegation
             /\ lockedFor'[s] >= WeightEpoch \/ delegation'[s].age <= lockedFor'[s]
             /\ delegation'[s].weight > 0 => lockedFor'[s] >= WeightEpoch
             /\ ~recast'[s] => lockedFor'[s] >= FullWeightTime \/ Score(s)' <= lockedFor'[s]
    <2>1. /\ lockedFor'[s] = IF ~shares[s].locked \/ ~shares'[s].locked THEN 0 ELSE Kept(s)
          /\ recast'[s] = (shares[s].locked /\ shares'[s].locked /\ (recast[s] \/ Recast(s)))
        BY DEF Observe
    <2>2. /\ lockedFor[s] \in Nat
          /\ lockedFor[s] >= WeightEpoch \/ delegation[s].age <= lockedFor[s]
          /\ delegation[s].weight > 0 => lockedFor[s] >= WeightEpoch
          /\ ~recast[s] => lockedFor[s] >= FullWeightTime \/ Score(s) <= lockedFor[s]
        BY DEF WeightInv
    <2>3. /\ Score(s) \in Nat /\ Score(s)' \in Nat /\ WeightEpoch \in Nat
          /\ delegation[s].weight \in Nat /\ delegation[s].age \in Nat
          /\ delegation'[s].weight \in Nat /\ delegation'[s].age \in Nat
        BY ScoreTypes
    <2>4. ScoreMoves(s)
        BY DEF ScoresMove
    <2>5. recast'[s] \in BOOLEAN
        BY Zenon, <2>1
    <2>6. CASE ~shares'[s].locked
        <3>1. delegation'[s] = NoDelegation
            BY <2>4, <2>6 DEF ScoreMoves
        <3>2. Score(s)' = 0 /\ delegation'[s].age = 0 /\ delegation'[s].weight = 0
            BY <3>1, NoScore DEF Score, NoDelegation
        <3>3. QED
            BY <2>1, <2>5, <2>6, <3>1, <3>2
    <2>7. CASE shares'[s].locked /\ ~shares[s].locked
        <3>1. delegation'[s].age = 0 /\ delegation'[s].weight = 0
            BY <2>4, <2>7 DEF ScoreMoves
        <3>2. Score(s)' = 0
            BY <3>1, NoScore DEF Score
        <3>3. QED
            BY <2>1, <2>5, <2>7, <3>1, <3>2
    <2>8. CASE shares'[s].locked /\ shares[s].locked
        <3>1. lockedFor'[s] = Kept(s) /\ (~recast'[s] => ~recast[s] /\ ~Recast(s))
            BY <2>1, <2>8
        <3>2. /\ \/ delegation'[s].age <= delegation[s].age
                 \/ Tick /\ delegation'[s].age <= delegation[s].age + 1
              /\ delegation'[s].weight > 0 =>
                     delegation[s].weight > 0 \/ delegation[s].age >= WeightEpoch
              /\ Recast(s) \/ Score(s)' <= Score(s) \/ (Tick /\ Score(s)' <= Score(s) + 1)
            BY <2>4, <2>8 DEF ScoreMoves
        <3>3. /\ Kept(s) \in Nat /\ Kept(s) >= lockedFor[s]
              /\ lockedFor[s] >= FullWeightTime \/ ~Tick \/ Kept(s) = lockedFor[s] + 1
            BY <1>1, <2>2
        <3> HIDE DEF Kept
        <3>4. lockedFor'[s] >= WeightEpoch \/ delegation'[s].age <= lockedFor'[s]
            BY <1>1, <2>2, <2>3, <3>1, <3>2, <3>3
        <3>5. delegation'[s].weight > 0 => lockedFor'[s] >= WeightEpoch
            BY <2>2, <2>3, <3>1, <3>2, <3>3
        <3>6. ASSUME ~recast'[s]
              PROVE  lockedFor'[s] >= FullWeightTime \/ Score(s)' <= lockedFor'[s]
            <4>1. lockedFor[s] >= FullWeightTime \/ Score(s) <= lockedFor[s]
                BY <2>2, <3>1, <3>6
            <4>2. Score(s)' <= Score(s) \/ (Tick /\ Score(s)' <= Score(s) + 1)
                BY <3>1, <3>2, <3>6
            <4>3. QED
                BY <1>1, <2>2, <2>3, <3>1, <3>3, <4>1, <4>2
        <3>7. QED
            BY <2>5, <2>8, <3>1, <3>3, <3>4, <3>5, <3>6
    <2>9. QED
        BY <2>6, <2>7, <2>8
<1>3. QED
    BY <1>2 DEF WeightInv

(* A proposal of unknown age is a new one, and only its activation, after  *)
(* the delay, makes it executable.                                         *)
ProposalMoves ==
    /\ \/ proposal'.stage = "none"
       \/ proposal'.stage = "pending" /\ proposal'.age = 0
       \/ /\ governance'.active = governance.active /\ proposal'.stage = proposal.stage
          /\ proposal'.age <= proposal.age \/ (Tick /\ proposal'.age <= proposal.age + 1)
       \/ /\ governance'.active = governance.active /\ proposal'.stage = "activated"
          /\ proposal.stage = "pending" /\ proposal.age >= VotingDelay
    /\ governance'.executionNonce # governance.executionNonce => proposal.stage = "activated"

(* Delegations leave proposals and Modules alone. *)
LEMMA DelegationOnly ==
    ASSUME DelegationStep
    PROVE  UNCHANGED <<root, modules, governance, proposal, escrow, reserve, reserveToken,
                       kusd, kas, feeToken>>
<1>1. ASSUME NEW s, NEW owner, NEW d, NEW kept, Continued(s, owner, d, kept)
      PROVE  UNCHANGED <<root, modules, governance, proposal, escrow, reserve, reserveToken,
                         kusd, kas, feeToken>>
    BY <1>1 DEF Continued
<1>2. ASSUME NEW s, NEW v, LockDelegation(s, v) \/ UnlockDelegation(s, v)
      PROVE  UNCHANGED <<root, modules, governance, proposal, escrow, reserve, reserveToken,
                         kusd, kas, feeToken>>
    BY <1>2 DEF LockDelegation, UnlockDelegation
<1>3. ASSUME NEW s, NEW policy, NEW kept, NEW to, ReleaseKps(s, policy, kept, to)
      PROVE  UNCHANGED <<root, modules, governance, proposal, escrow, reserve, reserveToken,
                         kusd, kas, feeToken>>
    BY <1>3 DEF ReleaseKps
<1>4. ASSUME NEW s, NEW kept,
             \/ Mature(s, kept) \/ \E v \in Users : Redelegate(s, v, kept)
             \/ \E owner, v \in Users, weight \in CastWeights :
                    CastUncounted(s, owner, v, weight, kept)
      PROVE  \E owner, d : Continued(s, owner, d, kept)
    BY <1>4, Zenon DEF Mature, Redelegate, CastUncounted
<1>5. QED
    BY <1>1, <1>2, <1>3, <1>4 DEF DelegationStep

LEMMA NextProposal ==
    ASSUME GovInv, Next
    PROVE  ProposalMoves
<1>1. proposal \in ProposalStates /\ proposal.age \in Nat /\ governance \in GovernanceStates
    BY GovernanceFacts, GovernanceConstants
<1>2. ASSUME proposal' = proposal, governance' = governance
      PROVE  ProposalMoves
    BY <1>1, <1>2 DEF ProposalMoves
<1>3. CASE Tick
    <2> DEFINE older == IF proposal.stage # "none" /\ proposal.age < MaxAge
                        THEN proposal.age + 1 ELSE proposal.age
    <2>1. proposal' = [proposal EXCEPT !.age = older] /\ governance' = governance
        BY <1>3 DEF Tick
    <2>2. older <= proposal.age + 1
        BY <1>1
    <2> HIDE DEF older
    <2>3. proposal'.stage = proposal.stage /\ proposal'.age = older
        BY <1>1, <2>1 DEF ProposalStates
    <2>4. QED
        BY <1>3, <2>1, <2>2, <2>3 DEF ProposalMoves
<1>4. CASE RootStep
    BY <1>2, <1>4 DEF RootStep, CreateModuleByKey, Handover
<1>5. CASE ProposalStep
    <2>1. ASSUME NEW u \in Users, NEW a \in Allocations, ProposeModule(u, a)
          PROVE  ProposalMoves
        <3>1. /\ proposal'.stage = "pending" /\ proposal'.age = 0
              /\ governance'.executionNonce = governance.executionNonce
            BY <1>1, <2>1 DEF ProposeModule, GovernanceStates
        <3>2. QED
            BY <3>1 DEF ProposalMoves
    <2>2. CASE ActivateProposal
        <3>1. /\ proposal.stage = "pending" /\ proposal.age >= VotingDelay
              /\ proposal' = [proposal EXCEPT !.stage = "activated", !.age = 0]
              /\ governance' = governance
            BY <2>2 DEF ActivateProposal
        <3>2. proposal'.stage = "activated"
            BY <1>1, <3>1 DEF ProposalStates
        <3>3. QED
            BY <3>1, <3>2 DEF ProposalMoves
    <2>3. ASSUME NEW entry \in RefundEntries, ExecuteModule(entry) \/ CancelExpired(entry)
          PROVE  ProposalMoves
        BY <2>3 DEF ExecuteModule, CancelExpired, RefundDeposit, Accepts, NoProposal,
                    ProposalMoves
    <2>4. ASSUME NEW voters, VetoModule(voters)
          PROVE  ProposalMoves
        <3>1. /\ proposal'.stage = "none"
              /\ governance'.executionNonce = governance.executionNonce
            BY <1>1, <2>4 DEF VetoModule, RefundDeposit, NoProposal, GovernanceStates
        <3>2. QED
            BY <3>1 DEF ProposalMoves
    <2>5. QED
        BY <1>5, <2>1, <2>2, <2>3, <2>4 DEF ProposalStep, CancelStep
<1>6. CASE DelegationStep
    BY <1>2, <1>6, DelegationOnly
<1>7. CASE (ReserveStep \/ TokenStep) /\ UNCHANGED governanceVars
    BY <1>2, <1>7 DEF governanceVars
<1>8. QED
    BY <1>3, <1>4, <1>5, <1>6, <1>7 DEF Next

LEMMA NoticeStep ==
    ASSUME GovInv, NoticeInv, ProposalMoves, Observe, proposal' \in ProposalStates
    PROVE  NoticeInv'
<1>1. announced' = IF governance'.active # governance.active \/ governance.active = 0 THEN 0
                   ELSE IF Tick /\ announced < VotingDelay THEN announced + 1 ELSE announced
    BY DEF Observe
<1>2. /\ announced \in Nat /\ VotingDelay \in Nat /\ proposal.age \in Nat
    BY GovernanceFacts, GovernanceConstants DEF NoticeInv
<1>3. announced' \in Nat
    BY <1>1, <1>2
<1>4. proposal.stage # "none" => governance.active # 0
    BY DEF GovInv, ProposalBacked, NoProposal
<1>5. CASE proposal'.stage = "none"
    BY <1>3, <1>5 DEF NoticeInv
<1>6. CASE proposal'.stage = "pending" /\ proposal'.age = 0
    BY <1>3, <1>6 DEF NoticeInv
<1>7. CASE /\ governance'.active = governance.active /\ proposal'.stage = proposal.stage
           /\ proposal'.age <= proposal.age \/ (Tick /\ proposal'.age <= proposal.age + 1)
           /\ proposal.stage # "none"
    <2>1. announced' = IF Tick /\ announced < VotingDelay THEN announced + 1 ELSE announced
        BY <1>1, <1>4, <1>7
    <2>2. announced >= VotingDelay => announced' >= VotingDelay
        BY <1>2, <2>1
    <2>3. proposal.stage = "pending" => announced' >= VotingDelay \/ proposal'.age <= announced'
        <3>1. CASE announced >= VotingDelay
            BY <2>2, <3>1
        <3>2. CASE announced < VotingDelay /\ proposal.stage = "pending"
            <4>1. proposal.age <= announced
                BY <1>2, <3>2 DEF NoticeInv
            <4>2. proposal'.age \in Int
                BY GovernanceConstants DEF ProposalStates
            <4>3. QED
                BY <1>2, <1>7, <2>1, <3>2, <4>1, <4>2
        <3>3. QED
            BY <1>2, <3>1, <3>2
    <2>4. QED
        BY <1>3, <1>7, <2>2, <2>3 DEF NoticeInv
<1>8. CASE /\ governance'.active = governance.active /\ proposal'.stage = "activated"
           /\ proposal.stage = "pending" /\ proposal.age >= VotingDelay
    <2>1. announced >= VotingDelay
        BY <1>2, <1>8 DEF NoticeInv
    <2>2. announced' >= VotingDelay
        BY <1>1, <1>2, <1>4, <1>8, <2>1
    <2>3. QED
        BY <1>3, <1>8, <2>2 DEF NoticeInv
<1>9. QED
    BY <1>5, <1>6, <1>7, <1>8 DEF ProposalMoves

LEMMA ObservedStep ==
    ASSUME ObservedInv, [MCNext]_mcVars
    PROVE  /\ ObservedInv'
           /\ governance'.executionNonce # governance.executionNonce => announced >= VotingDelay
<1>1. CASE UNCHANGED mcVars
    <2>1. /\ UNCHANGED vars /\ announced' = announced /\ lockedFor' = lockedFor
          /\ recast' = recast
          /\ proposal' = proposal /\ governance' = governance
          /\ delegation' = delegation /\ shares' = shares
        BY <1>1 DEF mcVars, vars, governanceVars, equityVars
    <2>2. GovInv'
        BY <2>1, StutterKeeps DEF ObservedInv, StepKeeps
    <2>3. WeightInv' /\ NoticeInv'
        BY <2>1 DEF ObservedInv, WeightInv, NoticeInv, Score
    <2>4. QED
        BY <2>1, <2>2, <2>3 DEF ObservedInv
<1>2. CASE MCNext
    <2>1. Next /\ Observe /\ GovInv /\ WeightInv /\ NoticeInv
        BY <1>2 DEF MCNext, ObservedInv
    <2>2. GovInv'
        BY <2>1, GovernanceStep DEF StepKeeps
    <2>3. delegation' \in [ShareSlots -> Delegations] /\ proposal' \in ProposalStates
        BY <2>2 DEF GovInv, GovernanceTypeOK
    <2>4. WeightInv'
        BY <2>1, <2>3, NextMoves, WeightStep
    <2>5. ProposalMoves
        BY <2>1, NextProposal
    <2>6. NoticeInv'
        BY <2>1, <2>3, <2>5, NoticeStep
    <2>7. QED
        BY <2>1, <2>2, <2>4, <2>5, <2>6 DEF ObservedInv, ProposalMoves, NoticeInv
<1>3. QED
    BY <1>1, <1>2

LEMMA InitialObserved ==
    ASSUME MCInit
    PROVE  ObservedInv
<1>1. /\ Init /\ announced = 0 /\ lockedFor = [s \in ShareSlots |-> 0]
      /\ recast = [s \in ShareSlots |-> FALSE]
    BY DEF MCInit
<1>2. delegation = [s \in ShareSlots |-> NoDelegation] /\ proposal.stage = "none"
    BY <1>1 DEF Init, NoProposal
<1>3. WeightInv
    <2>1. ASSUME NEW s \in ShareSlots
          PROVE  /\ lockedFor[s] = 0 /\ ~recast[s] /\ recast[s] \in BOOLEAN
                 /\ delegation[s] = NoDelegation /\ Score(s) = 0
                 /\ delegation[s].weight = 0 /\ delegation[s].age = 0
        <3>1. delegation[s] = NoDelegation /\ NoDelegation.weight = 0 /\ NoDelegation.age = 0
            BY <1>2 DEF NoDelegation
        <3>2. QED
            BY <1>1, <3>1, NoScore DEF Score
    <2>2. QED
        BY <2>1 DEF WeightInv
<1>4. NoticeInv
    BY <1>1, <1>2 DEF NoticeInv
<1>5. QED
    BY <1>1, <1>3, <1>4, InitialGovInv DEF ObservedInv

LEMMA ObservedInvariant == MCSpec => []ObservedInv
<1>1. MCInit => ObservedInv
    BY InitialObserved
<1>2. ObservedInv /\ [MCNext]_mcVars => ObservedInv'
    BY ObservedStep
<1>3. QED
    BY <1>1, <1>2, PTL DEF MCSpec

(* No KPS has a vote before its first whole epoch under lock; and unless   *)
(* its delegate has written another weight with a vote nobody counted, it  *)
(* never counts more than one unit for each whole epoch, however it is     *)
(* redelegated, used and matured.                                          *)
THEOREM WeightIsEarned == MCSpec => []WeightEarned
<1>1. ASSUME ObservedInv, NEW s \in ShareSlots, ~recast[s]
      PROVE  delegation[s].weight * WeightEpoch <= lockedFor[s]
    <2>1. /\ delegation[s].weight * WeightEpoch \in Nat
          /\ delegation[s].weight \in 0..MaxVoteWeight /\ delegation[s].age \in 0..WeightEpoch
        BY <1>1, GovernanceFacts, ScoreNat DEF ObservedInv
    <2>2. WeightEpoch \in Nat /\ MaxVoteWeight \in Nat
        BY GovernanceConstants
    <2>3. delegation[s].weight * WeightEpoch <= FullWeightTime
        BY <2>1, <2>2, ProductMonotone DEF FullWeightTime
    <2>4. delegation[s].weight * WeightEpoch <= Score(s)
        BY <2>1, <2>2 DEF Score
    <2>5. /\ lockedFor[s] \in Nat
          /\ lockedFor[s] >= FullWeightTime \/ Score(s) <= lockedFor[s]
        BY <1>1 DEF ObservedInv, WeightInv
    <2>6. Score(s) \in Nat /\ FullWeightTime \in Nat
        BY <1>1, <2>2, GovernanceFacts, ScoreNat, ProductNat DEF ObservedInv, FullWeightTime
    <2>7. QED
        BY <2>1, <2>3, <2>4, <2>5, <2>6
<1>2. ObservedInv => WeightEarned
    BY <1>1 DEF WeightEarned, ObservedInv, WeightInv
<1>3. QED
    BY <1>2, ObservedInvariant, PTL

(* No governed Module is created sooner than VotingDelay after its         *)
(* proposal was made, although the activation starts a new age.            *)
THEOREM NoticeIsGiven == MCSpec => NoticeGiven
<1>1. ObservedInv /\ [MCNext]_mcVars =>
          [governance'.executionNonce # governance.executionNonce =>
               announced >= VotingDelay]_mcVars
    BY ObservedStep
<1>2. QED
    BY <1>1, ObservedInvariant, PTL DEF MCSpec, NoticeGiven

-----------------------------------------------------------------------------
(* What the client builds: each step is looked at for the covenants it     *)
(* spends, and is quiet for the others.                                    *)

(* The active proposal is the last one made, and within the bounds. *)
Offered ==
    governance.active # 0 =>
        /\ governance.active = governance.proposalNonce
        /\ proposal.allocation \in MinModuleAllocation..MaxModuleAllocation

(* The inductive invariant. *)
OfferInv == GovInv /\ Offered

LEMMA QuietProposals ==
    ASSUME GovInv, governance' = governance, proposal'.stage = proposal.stage, root' = root
    PROVE  ProposeBuilt /\ ActivateBuilt /\ FinishBuilt /\ RootBuilt /\ VetoBuilt
<1>1. governance.proposalNonce \in Nat /\ root.moduleNonce \in Nat
    BY GovernanceFacts, GovernanceConstants
<1>2. /\ ~(governance.proposalNonce > governance.proposalNonce)
      /\ ~(root.moduleNonce > root.moduleNonce)
    BY <1>1
<1>3. ProposeBuilt
    BY <1>2 DEF ProposeBuilt
<1>4. RootBuilt
    BY <1>2 DEF RootBuilt
<1>5. ActivateBuilt /\ FinishBuilt /\ VetoBuilt
    BY DEF ActivateBuilt, FinishBuilt, VetoBuilt
<1>6. QED
    BY <1>3, <1>4, <1>5

LEMMA ContinuesLocked ==
    ASSUME NEW s, Continues(s)
    PROVE  shares[s].locked
BY Zenon DEF Continues, Mature, Redelegate, Continued, KeepShare

(* What goes on under its lock, however it does, is built where it matures *)
(* or changes delegates.                                                   *)
LEMMA ContinuedIsBuilt ==
    ASSUME GovInv, NEW s \in ShareSlots, shares'[s].locked <=> shares[s].locked
    PROVE  DelegationBuilt(s)
<1> DEFINE old == HeldBy(shares[s], delegation[s])
           new == HeldBy(shares'[s], delegation'[s])
           told == Call(TRUE, old, [delegation |-> new, kps |-> KpsOf(shares'[s], s)], <<>>)
           matured == DelegationMatureCall(old.owner, old.delegate, old.amount, old.weight, s)
           moved == RedelegateCall(old.owner, old.delegate, new.delegate, old.amount,
                                   old.weight, s)
<1>1. ASSUME Continues(s)
      PROVE  /\ KpsLockedTransferCall(s, old.amount)
                    = Call(TRUE, KpsOf(shares[s], s), {KpsOf(shares'[s], s)}, <<>>)
             /\ told = IF new.delegate = old.delegate THEN matured ELSE moved
    <2>1. PICK d \in Delegations, kept \in ShareSlots :
              /\ Continued(s, shares[s].owner, d, kept) /\ shares[s].owner \in Users
              /\ \/ /\ d.delegate = delegation[s].delegate
                    /\ d.weight = delegation[s].weight + 1
                 \/ d.delegate # delegation[s].delegate /\ d.weight = delegation[s].weight
        BY <1>1, Matured, Redelegated DEF Continues
    <2>2. KeepShare(s, shares[s].owner, kept) /\ delegation'[s] = d
        BY <2>1, DelegationUpdate DEF Continued
    <2>3. /\ shares[s].locked /\ shares'[s].locked /\ shares'[s].owner = shares[s].owner
          /\ shares'[s].amount = shares[s].amount
        BY <2>1, <2>2, KeptShares DEF SameLocks
    <2>4. /\ old.owner = shares[s].owner /\ old.amount = shares[s].amount
          /\ old.delegate = delegation[s].delegate /\ old.weight = delegation[s].weight
          /\ new.owner = shares[s].owner /\ new.amount = shares[s].amount
          /\ new.delegate = d.delegate /\ new.weight = d.weight
        BY <2>2, <2>3 DEF HeldBy
    <2>5. /\ DelegationArgs(old.owner, old.delegate, old.amount, old.weight) = old
          /\ DelegationState(new.owner, new.delegate, new.amount, new.weight) = new
        BY DEF HeldBy, DelegationArgs, DelegationState
    <2>6. /\ KpsOf(shares[s], s) = TokenState(s, 2, old.amount)
          /\ KpsOf(shares'[s], s) = TokenState(s, 2, old.amount)
        BY <2>3, <2>4 DEF KpsOf
    <2> HIDE DEF old, new
    <2>7. KpsLockedTransferCall(s, old.amount)
              = Call(TRUE, KpsOf(shares[s], s), {KpsOf(shares'[s], s)}, <<>>)
        BY <2>6 DEF KpsLockedTransferCall
    <2>8. ASSUME d.delegate = delegation[s].delegate, d.weight = delegation[s].weight + 1
          PROVE  new.delegate = old.delegate /\ told = matured
        <3>1. /\ new.owner = old.owner /\ new.amount = old.amount
              /\ new.delegate = old.delegate /\ new.weight = old.weight + 1
            BY <2>4, <2>8
        <3>2. QED
            BY <2>5, <2>6, <3>1 DEF DelegationMatureCall
    <2>9. ASSUME d.delegate # delegation[s].delegate, d.weight = delegation[s].weight
          PROVE  new.delegate # old.delegate /\ told = moved
        <3>1. /\ new.owner = old.owner /\ new.amount = old.amount
              /\ new.delegate # old.delegate /\ new.weight = old.weight
            BY <2>4, <2>9
        <3>2. QED
            BY <2>5, <2>6, <3>1 DEF RedelegateCall
    <2> HIDE DEF told, matured, moved
    <2>10. QED
        BY <2>1, <2>7, <2>8, <2>9
<1> HIDE DEF matured, moved, told
<1>2. QED
    BY <1>1 DEF DelegationBuilt, old, new, told, matured, moved

LEMMA QuietDelegations ==
    ASSUME GovInv, SameLocks
    PROVE  \A s \in ShareSlots : DelegationBuilt(s)
BY ContinuedIsBuilt DEF SameLocks

-----------------------------------------------------------------------------
(* The client's parameters, when they are read from the chain. *)

LEMMA ParamsRead ==
    ASSUME NEW proposer, NEW allocation, NEW c, c = GovernanceParams(proposer, allocation)
    PROVE  /\ c.proposer = proposer /\ c.allocation = allocation
           /\ c.rootRemaining = RootAllocation
           /\ c.proposalNonce = governance.proposalNonce
           /\ c.executionNonce = governance.executionNonce
           /\ c.reserveKusd = reserve.kusd
BY DEF GovernanceParams

LEMMA ParamsValid ==
    ASSUME NEW proposer, NEW allocation \in MinModuleAllocation..MaxModuleAllocation
    PROVE  ValidGovernance(GovernanceParams(proposer, allocation))
<1>1. /\ MinModuleAllocation \in Nat /\ MaxModuleAllocation \in Nat
      /\ RootAllocation \in Nat /\ MaxModuleAllocation <= RootAllocation
    BY GovernanceAssumption, ConfiguredBounds
<1>2. allocation <= RootAllocation
    BY <1>1
<1> DEFINE c == GovernanceParams(proposer, allocation)
<1>3. c.allocation = allocation /\ c.rootRemaining = RootAllocation
    BY ParamsRead
<1> HIDE DEF c
<1>4. ValidGovernance(c)
    BY <1>2, <1>3 DEF ValidGovernance
<1>5. QED
    BY <1>4 DEF c

(* The states of the covenants spent for the active proposal. *)
LEMMA ActiveRead ==
    ASSUME OfferInv, governance.active # 0, NEW c, c = ActiveParams
    PROVE  /\ ValidGovernance(c)
           /\ GovernanceArgs(c, governance.active) = GovernanceOf(governance)
           /\ ProposalArgs(c, proposal.stage = "activated") = ProposalOf(proposal)
           /\ c.allocation = proposal.allocation /\ c.reserveKusd = reserve.kusd
           /\ c.proposalNonce = governance.proposalNonce
           /\ c.executionNonce = governance.executionNonce
<1>1. /\ c.proposer = proposal.proposer /\ c.allocation = proposal.allocation
      /\ c.proposalNonce = governance.proposalNonce
      /\ c.executionNonce = governance.executionNonce
      /\ c.reserveKusd = reserve.kusd
    BY ParamsRead DEF ActiveParams
<1>2. /\ governance.active = governance.proposalNonce
      /\ proposal.allocation \in MinModuleAllocation..MaxModuleAllocation
      /\ proposal.nonce = governance.active
    BY DEF OfferInv, Offered, GovInv, ProposalBacked
<1>3. ValidGovernance(c)
    BY <1>2, ParamsValid DEF ActiveParams
<1>4. GovernanceArgs(c, governance.active) = GovernanceOf(governance)
    BY <1>1 DEF GovernanceArgs, GovernanceOf
<1>5. ProposalArgs(c, proposal.stage = "activated") = ProposalOf(proposal)
    BY <1>1, <1>2 DEF ProposalArgs, ProposalOf
<1>6. QED
    BY <1>1, <1>3, <1>4, <1>5

(* What the proposer offers is what Governance records. *)
LEMMA ProposeIsBuilt ==
    ASSUME OfferInv, NEW u \in Users, NEW a \in Allocations, ProposeModule(u, a)
    PROVE  ProposeBuilt
<1> DEFINE c == GovernanceParams(u, a)
           next == [c EXCEPT !.proposalNonce = governance.proposalNonce + 1]
<1>1. /\ governance.active = 0 /\ a \in Nat /\ governance \in GovernanceStates
      /\ a >= MinModuleAllocation /\ a <= MaxModuleAllocation
      /\ governance' = [governance EXCEPT !.proposalNonce = governance.proposalNonce + 1,
                                          !.active = governance.proposalNonce + 1]
      /\ proposal' = [stage |-> "pending", proposer |-> u,
                      nonce |-> governance.proposalNonce + 1, allocation |-> a,
                      deposit |-> ProposalDeposit, age |-> 0]
      /\ escrow' = ProposalFee
    BY GovernanceFacts, GovernanceConstants DEF ProposeModule, OfferInv
<1>2. /\ governance'.proposalNonce = governance.proposalNonce + 1
      /\ governance'.executionNonce = governance.executionNonce
      /\ governance'.active = governance.proposalNonce + 1
    BY <1>1 DEF GovernanceStates
<1>3. /\ proposal'.proposer = u /\ proposal'.nonce = governance.proposalNonce + 1
      /\ proposal'.allocation = a /\ proposal'.stage = "pending"
    BY <1>1
<1>4. a \in MinModuleAllocation..MaxModuleAllocation
    BY <1>1, GovernanceAssumption
<1>5. ValidGovernance(c)
    BY <1>4, ParamsValid
<1>6. /\ c.proposer = u /\ c.allocation = a
      /\ c.proposalNonce = governance.proposalNonce
      /\ c.executionNonce = governance.executionNonce
    BY ParamsRead
<1>7. /\ next.proposer = u /\ next.allocation = a
      /\ next.proposalNonce = governance.proposalNonce + 1
      /\ next.executionNonce = governance.executionNonce
      /\ next = [c EXCEPT !.proposalNonce = @ + 1]
    BY DEF GovernanceParams
<1>8. c = GovernanceParams(proposal'.proposer, proposal'.allocation)
    BY <1>3
<1> HIDE DEF c, next
<1>9. GovernanceArgs(c, 0) = GovernanceOf(governance)
    BY <1>1, <1>6 DEF GovernanceArgs, GovernanceOf
<1>10. GovernanceState(next, governance'.active) = GovernanceOf(governance')
    BY <1>2, <1>7 DEF GovernanceState, GovernanceOf
<1>11. ProposalState(next, FALSE) = ProposalOf(proposal')
    <2>1. (proposal'.stage = "activated") = FALSE
        BY <1>3
    <2>2. QED
        BY <1>3, <1>7, <2>1 DEF ProposalState, ProposalOf
<1>12. ProposeModuleCall(c, governance'.active)
           = Call(TRUE, GovernanceOf(governance),
                  [governance |-> GovernanceOf(governance'), proposal |-> ProposalOf(proposal')],
                  [proposal |-> escrow'])
    BY <1>1, <1>5, <1>7, <1>9, <1>10, <1>11 DEF ProposeModuleCall, Call
<1>13. QED
    BY <1>8, <1>12 DEF ProposeBuilt

LEMMA ActivateIsBuilt ==
    ASSUME OfferInv, ActivateProposal
    PROVE  ActivateBuilt
<1> DEFINE c == ActiveParams
<1>1. /\ proposal.stage = "pending" /\ proposal \in ProposalStates
      /\ proposal' = [proposal EXCEPT !.stage = "activated", !.age = 0]
    BY GovernanceFacts DEF ActivateProposal, OfferInv
<1>2. governance.active # 0
    BY <1>1 DEF OfferInv, GovInv, ProposalBacked, NoProposal
<1>3. /\ proposal'.proposer = proposal.proposer /\ proposal'.nonce = proposal.nonce
      /\ proposal'.allocation = proposal.allocation /\ proposal'.stage = "activated"
    BY <1>1 DEF ProposalStates
<1>4. ValidGovernance(c) /\ ProposalArgs(c, proposal.stage = "activated") = ProposalOf(proposal)
    BY <1>2, ActiveRead
<1>5. (proposal.stage = "activated") = FALSE /\ (proposal'.stage = "activated") = TRUE
    BY <1>1, <1>3
<1>6. ProposalArgs(c, FALSE) = ProposalOf(proposal)
    BY <1>4, <1>5
<1>7. ProposalState(c, TRUE) = ProposalOf(proposal')
    <2>1. /\ c.proposer = proposal.proposer /\ c.allocation = proposal.allocation
          /\ c.proposalNonce = governance.proposalNonce
        BY ParamsRead DEF ActiveParams
    <2>2. c.proposalNonce = proposal.nonce
        BY <1>2, <2>1 DEF OfferInv, Offered, GovInv, ProposalBacked
    <2> HIDE DEF c
    <2>3. QED
        BY <1>3, <1>5, <2>1, <2>2 DEF ProposalState, ProposalOf
<1> HIDE DEF c
<1>8. ProposalActivateCall(c) = Call(TRUE, ProposalOf(proposal), ProposalOf(proposal'), <<>>)
    BY <1>4, <1>6, <1>7 DEF ProposalActivateCall, Call
<1>9. QED
    BY <1>8 DEF ActivateBuilt, c

(* Governance lets the proposal go, and counts it when it is executed. *)
LEMMA FinishIsBuilt ==
    ASSUME OfferInv, governance.active # 0, NEW action \in {"execute", "veto", "cancel"},
           governance'.proposalNonce = governance.proposalNonce, governance'.active = 0,
           governance'.executionNonce = IF action = "execute" THEN governance.executionNonce + 1
                                        ELSE governance.executionNonce
    PROVE  GovernanceFinishCall(ActiveParams, governance.active, action)
               = Call(TRUE, GovernanceOf(governance), GovernanceOf(governance'), <<>>)
<1> DEFINE c == ActiveParams
           executed == [c EXCEPT !.executionNonce = c.executionNonce + 1]
           next == IF action = "execute" THEN executed ELSE c
<1>1. /\ ValidGovernance(c)
      /\ GovernanceArgs(c, governance.active) = GovernanceOf(governance)
      /\ c.proposalNonce = governance.proposalNonce
      /\ c.executionNonce = governance.executionNonce
    BY ActiveRead
<1>2. /\ executed.proposalNonce = c.proposalNonce
      /\ executed.executionNonce = c.executionNonce + 1
      /\ executed = [c EXCEPT !.executionNonce = @ + 1]
    BY DEF ActiveParams, GovernanceParams
<1> HIDE DEF c, executed
<1>3. /\ next.proposalNonce = governance'.proposalNonce
      /\ next.executionNonce = governance'.executionNonce
    BY <1>1, <1>2
<1>4. next = IF action = "execute" THEN [c EXCEPT !.executionNonce = @ + 1] ELSE c
    BY <1>2
<1> HIDE DEF next
<1>5. GovernanceState(next, 0) = GovernanceOf(governance')
    BY <1>3 DEF GovernanceState, GovernanceOf
<1>6. GovernanceFinishCall(c, governance.active, action)
          = Call(TRUE, GovernanceOf(governance), GovernanceOf(governance'), <<>>)
    BY <1>1, <1>4, <1>5 DEF GovernanceFinishCall, Call
<1>7. QED
    BY <1>6 DEF c

(* What the escrow owns is what the proposer is told to receive. *)
LEMMA RefundIsBuilt ==
    ASSUME OfferInv, governance.active # 0, proposal.stage = "activated",
           NEW action \in {"execute", "cancel"}, RefundFee
    PROVE  ProposalFinishCall(ActiveParams, action)
               = Call(TRUE, ProposalOf(proposal), <<>>, [proposer |-> Received(proposal.proposer)])
<1> DEFINE c == ActiveParams
           u == proposal.proposer
<1>1. ValidGovernance(c) /\ ProposalArgs(c, proposal.stage = "activated") = ProposalOf(proposal)
    BY ActiveRead
<1>2. (proposal.stage = "activated") = TRUE
    OBVIOUS
<1>3. ProposalArgs(c, TRUE) = ProposalOf(proposal)
    BY <1>1, <1>2
<1>4. /\ kusd \in [Users -> Nat] /\ u \in Users
      /\ escrow = ProposalFee /\ kusd' = Credit(kusd, u, escrow) /\ ProposalFee \in Nat
    BY GovernanceFacts, GovernanceConstants, ReserveFacts DEF OfferInv, RefundFee
<1> HIDE DEF c, u
<1>5. Received(u) = ProposalFee
    <2>1. kusd'[u] = kusd[u] + ProposalFee /\ kusd[u] \in Nat
        BY <1>4 DEF Credit
    <2>2. QED
        BY <1>4, <2>1 DEF Received
<1>6. ProposalFinishCall(c, action)
          = Call(TRUE, ProposalOf(proposal), <<>>, [proposer |-> Received(u)])
    BY <1>1, <1>3, <1>5 DEF ProposalFinishCall, Call
<1>7. QED
    BY <1>6 DEF c, u

(* The Root's side of an execution. *)
LEMMA ExecuteRootBuilt ==
    ASSUME OfferInv, NEW entry \in RefundEntries, ExecuteModule(entry)
    PROVE  RootBuilt
<1> DEFINE c == ActiveParams
           next == [c EXCEPT !.executionNonce = c.executionNonce + 1]
<1>1. /\ root.authority = "governance" /\ proposal.stage = "activated"
      /\ governance.active # 0 /\ governance.active = proposal.nonce
      /\ CreateModule(proposal.allocation, proposal.nonce)
      /\ governance' = [governance EXCEPT !.executionNonce = governance.executionNonce + 1,
                                          !.active = 0]
    BY DEF ExecuteModule, AuthorizedByProposal, ActiveProposalSpent
<1>2. GovInv /\ governance \in GovernanceStates /\ proposal.nonce \in 0..MaxProposals
    BY <1>1, GovernanceFacts DEF OfferInv
<1>3. /\ root'.moduleNonce = root.moduleNonce + 1
      /\ root'.remaining = root.remaining - proposal.allocation
      /\ modules'[root.moduleNonce + 1] =
             [allocation |-> proposal.allocation, proposal |-> proposal.nonce]
    BY <1>1, <1>2, CreateModuleFacts
<1>4. root'.authority = "governance"
    BY <1>1, <1>2, GovernanceFacts DEF CreateModule, RootStates
<1>5. modules'[root'.moduleNonce].allocation = proposal.allocation
    BY <1>3
<1>6. /\ ValidGovernance(c) /\ c.allocation = proposal.allocation
      /\ c.proposalNonce = governance.proposalNonce
      /\ c.executionNonce = governance.executionNonce
    BY <1>1, ActiveRead
<1>7. /\ next.proposalNonce = c.proposalNonce /\ next.executionNonce = c.executionNonce + 1
      /\ next = [c EXCEPT !.executionNonce = @ + 1]
    BY DEF ActiveParams, GovernanceParams
<1>8. /\ governance'.proposalNonce = governance.proposalNonce /\ governance'.active = 0
      /\ governance'.executionNonce = governance.executionNonce + 1
    BY <1>1, <1>2 DEF GovernanceStates
<1> HIDE DEF c, next
<1>9. GovernanceState(next, 0) = GovernanceOf(governance')
    BY <1>6, <1>7, <1>8 DEF GovernanceState, GovernanceOf
<1>10. RootArgs(root.moduleNonce, root.remaining, "governance") = RootOf(root)
    BY <1>1 DEF RootArgs, RootOf
<1>11. RootState(root.moduleNonce + 1, root.remaining - c.allocation) = RootOf(root')
    BY <1>3, <1>4, <1>6 DEF RootState, RootOf
<1>12. RootExecuteModuleCall(c, root.moduleNonce, root.remaining)
           = Call(TRUE, RootOf(root),
                  [root |-> RootOf(root'), module |-> modules'[root'.moduleNonce].allocation,
                   governance |-> GovernanceOf(governance')], <<>>)
    BY <1>5, <1>6, <1>7, <1>9, <1>10, <1>11 DEF RootExecuteModuleCall, Call
<1>13. QED
    BY <1>1, <1>4, <1>12 DEF RootBuilt, c

LEMMA EndsActivated ==
    ASSUME OfferInv, NEW action \in {"execute", "cancel"},
           ActiveProposalSpent, proposal.stage = "activated", RefundFee, RefundDeposit,
           governance'.proposalNonce = governance.proposalNonce, governance'.active = 0,
           governance'.executionNonce = IF action = "execute" THEN governance.executionNonce + 1
                                        ELSE governance.executionNonce
    PROVE  ProposeBuilt /\ ActivateBuilt /\ FinishBuilt /\ VetoBuilt
<1>1. governance.active # 0 /\ governance.proposalNonce \in Nat /\ governance.executionNonce \in Nat
    BY GovernanceFacts, GovernanceConstants DEF ActiveProposalSpent, OfferInv
<1>2. /\ ~(governance'.proposalNonce > governance.proposalNonce)
      /\ (governance'.executionNonce > governance.executionNonce) <=> action = "execute"
    BY <1>1
<1>3. ProposeBuilt
    BY <1>2 DEF ProposeBuilt
<1>4. ActivateBuilt
    BY DEF ActivateBuilt
<1>5. VetoBuilt
    BY DEF VetoBuilt
<1>6. FinishBuilt
    <2>1. action = IF governance'.executionNonce > governance.executionNonce THEN "execute"
                   ELSE IF proposal.stage = "pending" THEN "veto" ELSE "cancel"
        BY <1>2
    <2>2. GovernanceFinishCall(ActiveParams, governance.active, action)
              = Call(TRUE, GovernanceOf(governance), GovernanceOf(governance'), <<>>)
        BY <1>1, FinishIsBuilt
    <2>3. ProposalFinishCall(ActiveParams, action)
              = Call(TRUE, ProposalOf(proposal), <<>>, [proposer |-> Received(proposal.proposer)])
        BY <1>1, RefundIsBuilt
    <2>4. QED
        BY <2>1, <2>2, <2>3 DEF FinishBuilt
<1>7. QED
    BY <1>3, <1>4, <1>5, <1>6

LEMMA ExecuteIsBuilt ==
    ASSUME OfferInv, NEW entry \in RefundEntries, ExecuteModule(entry)
    PROVE  ProposeBuilt /\ ActivateBuilt /\ FinishBuilt /\ RootBuilt /\ VetoBuilt
<1>1. governance \in GovernanceStates
    BY GovernanceFacts DEF OfferInv
<1>2. /\ ActiveProposalSpent /\ proposal.stage = "activated" /\ RefundFee /\ RefundDeposit
      /\ governance' = [governance EXCEPT !.executionNonce = governance.executionNonce + 1,
                                          !.active = 0]
    BY DEF ExecuteModule, AuthorizedByProposal
<1>3. /\ governance'.proposalNonce = governance.proposalNonce /\ governance'.active = 0
      /\ governance'.executionNonce = governance.executionNonce + 1
    BY <1>1, <1>2 DEF GovernanceStates
<1> DEFINE action == "execute"
<1>4. /\ action \in {"execute", "cancel"}
      /\ governance'.executionNonce = IF action = "execute" THEN governance.executionNonce + 1
                                      ELSE governance.executionNonce
    BY <1>3
<1> HIDE DEF action
<1>5. QED
    BY <1>2, <1>3, <1>4, EndsActivated, ExecuteRootBuilt

LEMMA CancelIsBuilt ==
    ASSUME OfferInv, NEW entry \in RefundEntries, CancelExpired(entry)
    PROVE  ProposeBuilt /\ ActivateBuilt /\ FinishBuilt /\ RootBuilt /\ VetoBuilt
<1>1. governance \in GovernanceStates /\ root.moduleNonce \in Nat
    BY GovernanceFacts, GovernanceConstants DEF OfferInv
<1>2. /\ ActiveProposalSpent /\ proposal.stage = "activated" /\ RefundFee /\ RefundDeposit
      /\ governance' = [governance EXCEPT !.active = 0] /\ root' = root
    BY DEF CancelExpired, Accepts
<1>3. /\ governance'.proposalNonce = governance.proposalNonce /\ governance'.active = 0
      /\ governance'.executionNonce = governance.executionNonce
    BY <1>1, <1>2 DEF GovernanceStates
<1> DEFINE action == "cancel"
<1>4. /\ action \in {"execute", "cancel"}
      /\ governance'.executionNonce = IF action = "execute" THEN governance.executionNonce + 1
                                      ELSE governance.executionNonce
    BY <1>3
<1> HIDE DEF action
<1>5. RootBuilt
    <2>1. ~(root.moduleNonce > root.moduleNonce)
        BY <1>1
    <2>2. QED
        BY <1>2, <2>1 DEF RootBuilt
<1>6. QED
    BY <1>2, <1>3, <1>4, <1>5, EndsActivated

(* Votes *)

(* KPS and delegations spent to vote are created again as they were. *)
LEMMA CastUnchanged ==
    ASSUME GovInv, NEW voters, CastVotes(voters)
    PROVE  /\ SameLocks
           /\ \A s \in ShareSlots : /\ shares'[s].owner = shares[s].owner
                                    /\ shares'[s].amount = shares[s].amount
                                    /\ delegation'[s].delegate = delegation[s].delegate
                                    /\ delegation'[s].weight = delegation[s].weight
<1>1. /\ SameLocks
      /\ \A s \in ShareSlots : /\ shares'[s].owner = shares[s].owner
                               /\ shares'[s].amount = shares[s].amount
    BY GovernanceFacts, RenewedShares DEF GovInv, CastVotes
<1>2. ASSUME NEW s \in ShareSlots
      PROVE  /\ delegation'[s].delegate = delegation[s].delegate
             /\ delegation'[s].weight = delegation[s].weight
    <2>1. delegation[s] \in Delegations
        BY GovernanceFacts
    <2>2. delegation'[s] = [delegation[s] EXCEPT !.age = 0] \/ delegation'[s] = delegation[s]
        BY DEF CastVotes
    <2>3. QED
        BY <2>1, <2>2 DEF Delegations
<1>3. QED
    BY <1>1, <1>2

(* The client counts the votes as the Proposal does. *)
LEMMA VotesCounted ==
    ASSUME GovInv, NEW voters \in SUBSET ShareSlots, VetoCarries(voters, VetoThresholdPpm),
           NEW counted,
           counted = [s \in ShareSlots |->
                         IF s \in voters
                         THEN WeightedVotes(shares[s].amount, delegation[s].weight) ELSE 0]
    PROVE  SumTo(counted, NumShareSlots) >= RequiredWeightedVotes(reserve.kps, VetoThresholdPpm)
<1>1. ASSUME NEW s \in voters
      PROVE  WeightedVotes(shares[s].amount, delegation[s].weight)
                 = shares[s].amount * delegation[s].weight
    <2>1. shares[s].locked /\ delegation[s].weight > 0
        BY DEF VetoCarries
    <2>2. shares[s].amount > 0
        BY <2>1 DEF GovInv, LockedShares
    <2>3. delegation[s].weight \in 0..MaxVoteWeight /\ MaxVoteWeight \in Nat
        BY GovernanceFacts, GovernanceConstants, ScoreNat
    <2>4. delegation[s].weight \in 1..MaxVoteWeight
        BY <2>1, <2>3
    <2>5. QED
        BY <2>2, <2>4 DEF WeightedVotes
<1>2. counted = [s \in ShareSlots |->
                    IF s \in voters THEN shares[s].amount * delegation[s].weight ELSE 0]
    BY <1>1
<1>3. SumTo(counted, NumShareSlots) = Votes(voters)
    BY <1>2 DEF Votes
<1>4. RequiredWeightedVotes(reserve.kps, VetoThresholdPpm) = RequiredVotes(VetoThresholdPpm)
    BY DEF RequiredWeightedVotes, RequiredVotes, MulPpm
<1>5. Votes(voters) >= RequiredVotes(VetoThresholdPpm)
    BY DEF VetoCarries
<1>6. QED
    BY <1>3, <1>4, <1>5

(* A vote for each voter: at least one, at most eight. *)
LEMMA VotesFit ==
    ASSUME NEW voters \in SUBSET ShareSlots, voters # {}, Cardinality(voters) <= MaxVoters
    PROVE  Cardinality({VoteOf(s) : s \in voters}) \in 1..8
<1> DEFINE votes == {VoteOf(s) : s \in voters}
           ballot == [s \in voters |-> VoteOf(s)]
<1>1. IsFiniteSet(voters) /\ Cardinality(voters) \in Nat
    <2>1. IsFiniteSet(ShareSlots)
        BY GovernanceConstants, FS_Interval DEF ShareSlots
    <2>2. QED
        BY <2>1, FS_Subset, FS_CardinalityType
<1>2. ballot \in Surjection(voters, votes)
    BY DEF Surjection
<1>3. votes # {}
    OBVIOUS
<1> HIDE DEF ballot, votes
<1>4. IsFiniteSet(votes) /\ Cardinality(votes) <= Cardinality(voters)
    BY <1>1, <1>2, FS_Surjection
<1>5. Cardinality(votes) \in Nat /\ Cardinality(votes) # 0
    BY <1>3, <1>4, FS_CardinalityType, FS_EmptySet
<1>6. Cardinality(votes) \in 1..8
    BY <1>1, <1>4, <1>5 DEF MaxVoters
<1>7. QED
    BY <1>6 DEF votes

(* What a vote tells its delegation and its KPS to create. *)
LEMMA VoteRead ==
    ASSUME GovInv, NEW voters \in SUBSET ShareSlots, VetoCarries(voters, VetoThresholdPpm),
           CastVotes(voters), NEW s \in voters
    PROVE  /\ DelegationOf(VoteOf(s)) = HeldBy(shares[s], delegation[s])
           /\ DelegationOf(VoteOf(s)) = HeldBy(shares'[s], delegation'[s])
           /\ TokenState(VoteOf(s).id, 2, VoteOf(s).amount) = KpsOf(shares'[s], s)
           /\ VoteOf(s).id = s /\ VoteOf(s).amount = shares[s].amount
           /\ KpsOf(shares[s], s) = KpsOf(shares'[s], s)
<1>1. shares[s].locked
    BY DEF VetoCarries
<1>2. /\ shares'[s].owner = shares[s].owner /\ shares'[s].amount = shares[s].amount
      /\ shares'[s].locked
      /\ delegation'[s].delegate = delegation[s].delegate
      /\ delegation'[s].weight = delegation[s].weight
    BY <1>1, CastUnchanged DEF SameLocks
<1>3. /\ VoteOf(s).owner = shares[s].owner /\ VoteOf(s).delegate = delegation[s].delegate
      /\ VoteOf(s).id = s /\ VoteOf(s).amount = shares[s].amount
      /\ VoteOf(s).weight = delegation[s].weight
    BY DEF VoteOf
<1>4. DelegationOf(VoteOf(s)) = HeldBy(shares[s], delegation[s])
    BY <1>3 DEF DelegationOf, DelegationState, HeldBy
<1>5. /\ HeldBy(shares'[s], delegation'[s]) = HeldBy(shares[s], delegation[s])
      /\ KpsOf(shares[s], s) = KpsOf(shares'[s], s)
    BY <1>1, <1>2 DEF HeldBy, KpsOf
<1>6. TokenState(VoteOf(s).id, 2, VoteOf(s).amount) = KpsOf(shares'[s], s)
    BY <1>2, <1>3 DEF KpsOf
<1>7. QED
    BY <1>3, <1>4, <1>5, <1>6

LEMMA VetoTokens ==
    ASSUME GovInv, NEW voters \in SUBSET ShareSlots, VetoCarries(voters, VetoThresholdPpm),
           KpsRenewed(voters), CastVotes(voters)
    PROVE  /\ {DelegationOf(v) : v \in {VoteOf(s) : s \in voters}}
                  = {HeldBy(shares'[s], delegation'[s]) : s \in voters}
           /\ {TokenState(v.id, 2, v.amount) : v \in {VoteOf(s) : s \in voters}}
                  = {KpsOf(shares'[s], s) : s \in voters}
           /\ \A v \in {VoteOf(s) : s \in voters} :
                  /\ DelegationVetoCall(v)
                         = Call(TRUE, HeldBy(shares[v.id], delegation[v.id]),
                                [delegation |-> HeldBy(shares'[v.id], delegation'[v.id]),
                                 kps |-> KpsOf(shares'[v.id], v.id)], <<>>)
                  /\ KpsLockedTransferCall(v.id, v.amount)
                         = Call(TRUE, KpsOf(shares[v.id], v.id),
                                {KpsOf(shares'[s], s) : s \in voters}, <<>>)
<1>1. \A s \in voters :
          /\ DelegationOf(VoteOf(s)) = HeldBy(shares[s], delegation[s])
          /\ DelegationOf(VoteOf(s)) = HeldBy(shares'[s], delegation'[s])
          /\ TokenState(VoteOf(s).id, 2, VoteOf(s).amount) = KpsOf(shares'[s], s)
          /\ VoteOf(s).id = s /\ VoteOf(s).amount = shares[s].amount
          /\ KpsOf(shares[s], s) = KpsOf(shares'[s], s)
    BY VoteRead
<1>2. {DelegationOf(v) : v \in {VoteOf(s) : s \in voters}}
          = {DelegationOf(VoteOf(s)) : s \in voters}
    OBVIOUS
<1>3. {TokenState(v.id, 2, v.amount) : v \in {VoteOf(s) : s \in voters}}
          = {TokenState(VoteOf(s).id, 2, VoteOf(s).amount) : s \in voters}
    OBVIOUS
<1>4. ASSUME NEW s \in voters
      PROVE  DelegationVetoCall(VoteOf(s))
                 = Call(TRUE, HeldBy(shares[s], delegation[s]),
                        [delegation |-> HeldBy(shares'[s], delegation'[s]),
                         kps |-> KpsOf(shares'[s], s)], <<>>)
    BY <1>1 DEF DelegationVetoCall
<1> DEFINE renewed == {KpsOf(shares'[s], s) : s \in voters}
<1>5. ASSUME NEW v \in {VoteOf(s) : s \in voters}
      PROVE  /\ DelegationVetoCall(v)
                    = Call(TRUE, HeldBy(shares[v.id], delegation[v.id]),
                           [delegation |-> HeldBy(shares'[v.id], delegation'[v.id]),
                            kps |-> KpsOf(shares'[v.id], v.id)], <<>>)
             /\ KpsLockedTransferCall(v.id, v.amount)
                    = Call(TRUE, KpsOf(shares[v.id], v.id), renewed, <<>>)
    <2>1. PICK s \in voters : v = VoteOf(s)
        OBVIOUS
    <2>2. v.id = s
        BY <1>1, <2>1
    <2>3. voters = {s}
        BY DEF KpsRenewed
    <2>4. renewed = {KpsOf(shares'[s], s)}
        BY <2>3
    <2> HIDE DEF renewed
    <2>5. /\ TokenState(v.id, 2, v.amount) = KpsOf(shares'[s], s)
          /\ KpsOf(shares[v.id], v.id) = KpsOf(shares'[s], s)
        BY <1>1, <2>1, <2>2
    <2>6. KpsLockedTransferCall(v.id, v.amount)
              = Call(TRUE, KpsOf(shares[v.id], v.id), renewed, <<>>)
        BY <2>4, <2>5 DEF KpsLockedTransferCall
    <2>7. QED
        BY <1>4, <2>1, <2>2, <2>6
<1>6. {DelegationOf(VoteOf(s)) : s \in voters} = {HeldBy(shares'[s], delegation'[s]) : s \in voters}
    BY <1>1
<1>7. {TokenState(VoteOf(s).id, 2, VoteOf(s).amount) : s \in voters}
          = {KpsOf(shares'[s], s) : s \in voters}
    BY <1>1
<1>8. QED
    BY <1>2, <1>3, <1>5, <1>6, <1>7

LEMMA VetoIsBuilt ==
    ASSUME OfferInv, NEW voters \in SUBSET ShareSlots, VetoModule(voters)
    PROVE  VetoBuilt
<1> DEFINE c == ActiveParams
           votes == {VoteOf(s) : s \in voters}
           counted == [s \in ShareSlots |->
                          IF s \in voters
                          THEN WeightedVotes(shares[s].amount, delegation[s].weight) ELSE 0]
<1>1. /\ ActiveProposalSpent /\ proposal.stage = "pending"
      /\ VetoCarries(voters, VetoThresholdPpm) /\ KpsRenewed(voters) /\ CastVotes(voters)
      /\ escrow = ProposalFee /\ CollectProposalFee(escrow)
    BY DEF VetoModule
<1>2. GovInv /\ ReserveInv /\ governance.active # 0 /\ ProposalFee \in Nat \ {0}
    BY <1>1, GovernanceFacts, GovernanceConstants DEF OfferInv, ActiveProposalSpent
<1>3. /\ reserveToken = reserve.kusd /\ reserve \in ReserveStates /\ reserve.kusd \in Nat
    BY <1>2, ReserveFacts
<1>4. reserve'.kusd = reserve.kusd + ProposalFee /\ reserveToken' = reserve.kusd + ProposalFee
    BY <1>1, <1>3 DEF CollectProposalFee, ReserveStates
<1>5. /\ ValidGovernance(c) /\ c.reserveKusd = reserve.kusd
      /\ ProposalArgs(c, FALSE) = ProposalOf(proposal)
    <2>1. /\ ValidGovernance(c) /\ c.reserveKusd = reserve.kusd
          /\ ProposalArgs(c, proposal.stage = "activated") = ProposalOf(proposal)
        BY <1>2, ActiveRead
    <2>2. (proposal.stage = "activated") = FALSE
        BY <1>1
    <2>3. QED
        BY <2>1, <2>2
<1>6. SumTo(counted, NumShareSlots) >= RequiredWeightedVotes(reserve.kps, VetoThresholdPpm)
    <2> HIDE DEF c
    <2>1. counted = [s \in ShareSlots |->
                        IF s \in voters
                        THEN WeightedVotes(shares[s].amount, delegation[s].weight) ELSE 0]
        OBVIOUS
    <2> HIDE DEF counted
    <2>2. QED
        BY <1>1, <1>2, <2>1, VotesCounted
<1>7. Cardinality(votes) \in 1..8
    BY <1>1, VotesFit DEF VetoCarries
<1>8. /\ {DelegationOf(v) : v \in votes} = {HeldBy(shares'[s], delegation'[s]) : s \in voters}
      /\ {TokenState(v.id, 2, v.amount) : v \in votes} = {KpsOf(shares'[s], s) : s \in voters}
      /\ \A v \in votes :
             /\ DelegationVetoCall(v)
                    = Call(TRUE, HeldBy(shares[v.id], delegation[v.id]),
                           [delegation |-> HeldBy(shares'[v.id], delegation'[v.id]),
                            kps |-> KpsOf(shares'[v.id], v.id)], <<>>)
             /\ KpsLockedTransferCall(v.id, v.amount)
                    = Call(TRUE, KpsOf(shares[v.id], v.id),
                           {KpsOf(shares'[s], s) : s \in voters}, <<>>)
    BY <1>1, <1>2, VetoTokens
<1>9. ReserveCollectFeeCall(c, escrow)
          = Call(TRUE, reserve.kusd, reserve'.kusd, [reserve |-> reserveToken'])
    <2> HIDE DEF c
    <2>1. escrow > 0
        BY <1>1, <1>2
    <2>2. QED
        BY <1>1, <1>4, <1>5, <2>1 DEF ReserveCollectFeeCall, Call
<1>10. ProposalVetoCall(c, votes)
           = Call(TRUE, ProposalOf(proposal),
                  [delegations |-> {HeldBy(shares'[s], delegation'[s]) : s \in voters},
                   kps |-> {KpsOf(shares'[s], s) : s \in voters},
                   reserveKusd |-> reserve'.kusd],
                  [reserve |-> reserveToken'])
    <2> HIDE DEF c, votes
    <2>1. QED
        BY <1>4, <1>5, <1>7, <1>8 DEF ProposalVetoCall, Call
<1>11. QED
    BY <1>6, <1>8, <1>9, <1>10 DEF VetoBuilt

-----------------------------------------------------------------------------
(* The Root's key *)

LEMMA KeyIsBuilt ==
    ASSUME OfferInv, NEW a \in Allocations, CreateModuleByKey(a)
    PROVE  RootBuilt
<1> DEFINE c == GovernanceParams(1, a)
<1>1. root.authority = "key" /\ CreateModule(a, 0) /\ GovInv /\ 0 \in 0..MaxProposals
    BY GovernanceConstants DEF CreateModuleByKey, OfferInv
<1>2. /\ root'.moduleNonce = root.moduleNonce + 1 /\ root'.remaining = root.remaining - a
      /\ modules'[root.moduleNonce + 1] = [allocation |-> a, proposal |-> 0]
    BY <1>1, CreateModuleFacts
<1>3. root'.authority = root.authority
    BY <1>1, GovernanceFacts DEF CreateModule, RootStates
<1>4. modules'[root'.moduleNonce].allocation = a
    BY <1>2
<1>5. c.allocation = a
    BY ParamsRead
<1> HIDE DEF c
<1>6. RootArgs(root.moduleNonce, root.remaining, "key") = RootOf(root)
    BY <1>1 DEF RootArgs, RootOf
<1>7. RootArgs(root.moduleNonce + 1, root.remaining - c.allocation, "key") = RootOf(root')
    BY <1>1, <1>2, <1>3, <1>5 DEF RootArgs, RootOf
<1>8. ValidGovernance(c) =>
          RootBootstrapModuleCall(c, root.moduleNonce, root.remaining)
              = Call(TRUE, RootOf(root), [root |-> RootOf(root'), module |-> a], <<>>)
    BY <1>5, <1>6, <1>7 DEF RootBootstrapModuleCall, Call
<1>9. QED
    BY <1>1, <1>3, <1>4, <1>8 DEF RootBuilt, c

LEMMA HandoverIsBuilt ==
    ASSUME OfferInv, Handover
    PROVE  RootBuilt
<1> DEFINE c == GovernanceParams(1, MinModuleAllocation)
<1>1. root.authority = "key" /\ root' = [root EXCEPT !.authority = "governance"]
    BY DEF Handover
<1>2. root \in RootStates /\ root.moduleNonce \in Nat
    BY GovernanceFacts, GovernanceConstants DEF OfferInv
<1>3. /\ root'.authority = "governance" /\ root'.moduleNonce = root.moduleNonce
      /\ root'.remaining = root.remaining
    BY <1>1, <1>2 DEF RootStates
<1>4. ~(root'.moduleNonce > root.moduleNonce)
    BY <1>2, <1>3
<1>5. ValidGovernance(c)
    <2>1. MinModuleAllocation \in MinModuleAllocation..MaxModuleAllocation
        BY GovernanceAssumption, ConfiguredBounds
    <2>2. QED
        BY <2>1, ParamsValid
<1> HIDE DEF c
<1>6. RootArgs(root.moduleNonce, root.remaining, "key") = RootOf(root)
    BY <1>1 DEF RootArgs, RootOf
<1>7. RootState(root.moduleNonce, root.remaining) = RootOf(root')
    BY <1>3 DEF RootState, RootOf
<1>8. RootHandoverCall(c, root.moduleNonce, root.remaining)
          = Call(TRUE, RootOf(root), RootOf(root'), <<>>)
    BY <1>5, <1>6, <1>7 DEF RootHandoverCall, Call
<1>9. QED
    BY <1>4, <1>8 DEF RootBuilt, c

-----------------------------------------------------------------------------
(* Delegations *)

(* A lock or an unlock of one slot leaves the delegations of the others. *)
LEMMA OtherDelegations ==
    ASSUME GovInv, NEW s \in ShareSlots, DelegationBuilt(s),
           \A i \in ShareSlots : i # s => (shares'[i].locked <=> shares[i].locked)
    PROVE  \A i \in ShareSlots : DelegationBuilt(i)
BY ContinuedIsBuilt

LEMMA LockIsBuilt ==
    ASSUME GovInv, NEW s \in ShareSlots, NEW v \in Users, LockDelegation(s, v)
    PROVE  \A i \in ShareSlots : DelegationBuilt(i)
<1> DEFINE d == [delegate |-> v, weight |-> 0, age |-> 0]
<1>1. /\ shares[s].amount > 0 /\ ~shares[s].locked /\ LockShare(s)
      /\ delegation' = [delegation EXCEPT ![s] = d]
    BY DEF LockDelegation, LockShare
<1>2. d \in Delegations /\ d.delegate = v /\ d.weight = 0
    BY GovernanceConstants DEF Delegations
<1> HIDE DEF d
<1>3. delegation'[s] = d
    BY <1>1, <1>2, DelegationUpdate
<1>4. /\ shares'[s].locked /\ shares'[s].owner = shares[s].owner
      /\ shares'[s].amount = shares[s].amount
      /\ \A i \in ShareSlots : i # s => shares'[i] = shares[i]
    BY <1>1, LockedShare
<1> DEFINE old == HeldBy(shares[s], delegation[s])
           new == HeldBy(shares'[s], delegation'[s])
<1>5. /\ old.owner = shares[s].owner /\ old.amount = shares[s].amount
      /\ new.owner = shares[s].owner /\ new.amount = shares[s].amount
      /\ new.delegate = v /\ new.weight = 0
    BY <1>2, <1>3, <1>4 DEF HeldBy
<1>6. DelegationState(old.owner, new.delegate, old.amount, 0) = new
    BY <1>5 DEF DelegationState, HeldBy
<1>7. /\ KpsOf(shares[s], s) = TokenState(old.owner, 0, old.amount)
      /\ KpsOf(shares'[s], s) = TokenState(s, 2, old.amount)
    BY <1>1, <1>4, <1>5 DEF KpsOf
<1>8. old.amount > 0
    BY <1>1, <1>5
<1> HIDE DEF old, new
<1>9. KpsLockCall(old.owner, new.delegate, old.amount, s)
          = Call(TRUE, KpsOf(shares[s], s),
                 [delegation |-> new, kps |-> KpsOf(shares'[s], s)], <<>>)
    BY <1>6, <1>7, <1>8 DEF KpsLockCall
<1>10. ~Continues(s)
    BY <1>1, ContinuesLocked
<1>11. DelegationBuilt(s)
    BY <1>1, <1>9, <1>10 DEF DelegationBuilt, old, new
<1>12. QED
    BY <1>4, <1>11, OtherDelegations

(* Whatever unlocks KPS, the client's calls are those for their owner. *)
LEMMA UnlockIsBuilt ==
    ASSUME GovInv, NEW s \in ShareSlots, shares[s].locked, ~shares'[s].locked,
           shares'[s].amount = shares[s].amount,
           \A i \in ShareSlots : i # s => (shares'[i].locked <=> shares[i].locked)
    PROVE  \A i \in ShareSlots : DelegationBuilt(i)
<1> DEFINE old == HeldBy(shares[s], delegation[s])
<1>1. /\ old.owner = shares[s].owner /\ old.amount = shares[s].amount
      /\ DelegationArgs(old.owner, old.delegate, old.amount, old.weight) = old
      /\ DelegationState(old.owner, old.delegate, old.amount, old.weight) = old
    BY DEF HeldBy, DelegationArgs, DelegationState
<1>2. KpsOf(shares[s], s) = TokenState(s, 2, old.amount)
    BY <1>1 DEF KpsOf
<1>3. ASSUME shares'[s].owner = shares[s].owner
      PROVE  KpsOf(shares'[s], s) = TokenState(old.owner, 0, old.amount)
    BY <1>1, <1>3 DEF KpsOf
<1> HIDE DEF old
<1>4. ASSUME shares'[s].owner = shares[s].owner
      PROVE  /\ DelegationUnlockCall(old.owner, old.delegate, old.amount, old.weight)
                    = Call(TRUE, old, [kps |-> KpsOf(shares'[s], s)], <<>>)
             /\ KpsUnlockCall(old.owner, old.delegate, s, old.amount, old.weight)
                    = Call(TRUE, KpsOf(shares[s], s),
                           [delegation |-> old, kps |-> KpsOf(shares'[s], s)], <<>>)
    BY <1>1, <1>2, <1>3, <1>4 DEF DelegationUnlockCall, KpsUnlockCall
<1>5. ~Continues(s)
    <2>1. SUFFICES ASSUME Continues(s)
                   PROVE  shares'[s].locked
        OBVIOUS
    <2>2. \E d \in Delegations, kept \in ShareSlots :
              Continued(s, shares[s].owner, d, kept) /\ shares[s].owner \in Users
        BY <2>1, Matured, Redelegated DEF Continues
    <2>3. QED
        BY <2>2, KeptShares DEF Continued, SameLocks
<1>6. DelegationBuilt(s)
    BY <1>4, <1>5 DEF DelegationBuilt, old
<1>7. QED
    BY <1>6, OtherDelegations

LEMMA DelegationStepBuilt ==
    ASSUME GovInv, DelegationStep
    PROVE  \A i \in ShareSlots : DelegationBuilt(i)
<1>1. ASSUME NEW s \in ShareSlots, NEW to \in Users, UnlockDelegation(s, to)
      PROVE  \A i \in ShareSlots : DelegationBuilt(i)
    <2>1. UnlockShare(s, to)
        BY <1>1 DEF UnlockDelegation
    <2>2. /\ shares[s].locked /\ ~shares'[s].locked /\ shares'[s].amount = shares[s].amount
          /\ \A i \in ShareSlots : i # s => shares'[i] = shares[i]
        BY <2>1, UnlockedShares
    <2>3. QED
        BY <2>2, UnlockIsBuilt
<1>2. ASSUME NEW s \in ShareSlots, NEW kept \in ShareSlots, NEW to \in Users,
             NEW policy \in DelegationPolicies, ReleaseKps(s, policy, kept, to)
      PROVE  \A i \in ShareSlots : DelegationBuilt(i)
    <2>1. ReleaseShare(s, kept, to)
        BY <1>2 DEF ReleaseKps
    <2>2. /\ shares[s].locked /\ ~shares'[s].locked /\ shares'[s].amount = shares[s].amount
          /\ \A i \in ShareSlots : i # s => (shares'[i].locked <=> shares[i].locked)
        BY <2>1, ReleasedShares
    <2>3. QED
        BY <2>2, UnlockIsBuilt
<1>3. ASSUME NEW s \in ShareSlots, NEW kept \in ShareSlots,
             \/ Mature(s, kept) \/ \E v \in Users : Redelegate(s, v, kept)
             \/ \E owner, v \in Users, weight \in CastWeights :
                    CastUncounted(s, owner, v, weight, kept)
      PROVE  \A i \in ShareSlots : DelegationBuilt(i)
    <2>1. \E owner \in Users, d \in Delegations : Continued(s, owner, d, kept)
        BY <1>3, Matured, Redelegated, CastElsewhere
    <2>2. SameLocks
        BY <2>1, KeptShares DEF Continued
    <2>3. QED
        BY <2>2, QuietDelegations
<1>4. QED
    BY <1>1, <1>2, <1>3, LockIsBuilt DEF DelegationStep

(* Ages are no part of what is built. *)
LEMMA TickIsBuilt ==
    ASSUME GovInv, Tick
    PROVE  /\ governance' = governance /\ root' = root
           /\ proposal'.stage = proposal.stage
           /\ proposal'.allocation = proposal.allocation
           /\ \A s \in ShareSlots : DelegationBuilt(s)
<1>1. proposal \in ProposalStates
    BY GovernanceFacts
<1>2. /\ governance' = governance /\ root' = root
      /\ proposal'.stage = proposal.stage /\ proposal'.allocation = proposal.allocation
    BY <1>1 DEF Tick, ProposalStates
<1>3. SameLocks
    BY AgedShares DEF Tick
<1>4. QED
    BY <1>2, <1>3, QuietDelegations

LEMMA SharesStay ==
    ASSUME shares' = shares
    PROVE  SameLocks
BY DEF SameLocks

(* What every step is told by the client, and what every step keeps. *)
AllBuilt ==
    /\ ProposeBuilt /\ ActivateBuilt /\ FinishBuilt /\ RootBuilt /\ VetoBuilt
    /\ \A s \in ShareSlots : DelegationBuilt(s)

LEMMA RootStepBuilt ==
    ASSUME OfferInv, RootStep
    PROVE  AllBuilt /\ Offered'
<1>1. /\ governance' = governance /\ proposal' = proposal /\ shares' = shares
      /\ delegation' = delegation
    BY DEF RootStep, CreateModuleByKey, Handover, equityVars
<1>2. RootBuilt
    BY KeyIsBuilt, HandoverIsBuilt DEF RootStep
<1>3. \A s \in ShareSlots : DelegationBuilt(s)
    BY <1>1, SharesStay, QuietDelegations DEF OfferInv
<1>4. ~(governance.proposalNonce > governance.proposalNonce)
    BY GovernanceFacts, GovernanceConstants DEF OfferInv
<1>5. ProposeBuilt
    BY <1>1, <1>4 DEF ProposeBuilt
<1>6. ActivateBuilt /\ FinishBuilt /\ VetoBuilt
    BY <1>1 DEF ActivateBuilt, FinishBuilt, VetoBuilt
<1>7. Offered'
    BY <1>1 DEF OfferInv, Offered
<1>8. QED
    BY <1>2, <1>3, <1>5, <1>6, <1>7 DEF AllBuilt

LEMMA ProposalStepBuilt ==
    ASSUME OfferInv, ProposalStep
    PROVE  AllBuilt /\ Offered'
<1>1. /\ governance \in GovernanceStates /\ proposal \in ProposalStates /\ GovInv
      /\ governance.proposalNonce \in Nat /\ root.moduleNonce \in Nat
    BY GovernanceFacts, GovernanceConstants DEF OfferInv
<1>2. ASSUME root' = root
      PROVE  RootBuilt
    <2>1. ~(root.moduleNonce > root.moduleNonce)
        BY <1>1
    <2>2. QED
        BY <1>2, <2>1 DEF RootBuilt
<1>3. ASSUME shares' = shares
      PROVE  \A s \in ShareSlots : DelegationBuilt(s)
    BY <1>1, <1>3, SharesStay, QuietDelegations
<1>4. ASSUME NEW u \in Users, NEW a \in Allocations, ProposeModule(u, a)
      PROVE  AllBuilt /\ Offered'
    <2>1. /\ governance.active = 0 /\ a \in Nat
          /\ a >= MinModuleAllocation /\ a <= MaxModuleAllocation
          /\ governance' = [governance EXCEPT !.proposalNonce = governance.proposalNonce + 1,
                                              !.active = governance.proposalNonce + 1]
          /\ proposal'.allocation = a /\ proposal'.stage = "pending"
          /\ shares' = shares /\ delegation' = delegation /\ root' = root
        BY <1>4, GovernanceConstants DEF ProposeModule
    <2>2. governance'.active = governance'.proposalNonce
        BY <1>1, <2>1 DEF GovernanceStates
    <2>3. a \in MinModuleAllocation..MaxModuleAllocation
        BY <2>1, GovernanceAssumption
    <2>4. Offered'
        BY <2>1, <2>2, <2>3 DEF Offered
    <2>5. ActivateBuilt /\ FinishBuilt /\ VetoBuilt
        BY <2>1 DEF ActivateBuilt, FinishBuilt, VetoBuilt
    <2>6. QED
        BY <1>2, <1>3, <1>4, <2>1, <2>4, <2>5, ProposeIsBuilt DEF AllBuilt
<1>5. CASE ActivateProposal
    <2>1. /\ governance' = governance /\ root' = root /\ shares' = shares
          /\ delegation' = delegation
          /\ proposal' = [proposal EXCEPT !.stage = "activated", !.age = 0]
        BY <1>5 DEF ActivateProposal, equityVars
    <2>2. proposal'.allocation = proposal.allocation
        BY <1>1, <2>1 DEF ProposalStates
    <2>3. Offered'
        BY <2>1, <2>2 DEF OfferInv, Offered
    <2>4. ~(governance.proposalNonce > governance.proposalNonce)
        BY <1>1
    <2>5. ProposeBuilt
        BY <2>1, <2>4 DEF ProposeBuilt
    <2>6. FinishBuilt /\ VetoBuilt
        BY <2>1 DEF FinishBuilt, VetoBuilt
    <2>7. QED
        BY <1>2, <1>3, <1>5, <2>1, <2>3, <2>5, <2>6, ActivateIsBuilt DEF AllBuilt
<1>6. ASSUME NEW entry \in RefundEntries, ExecuteModule(entry) \/ CancelExpired(entry)
      PROVE  AllBuilt /\ Offered'
    <2>1. shares' = shares /\ delegation' = delegation
        BY <1>6 DEF ExecuteModule, CancelExpired
    <2>2. governance'.active = 0
        BY <1>1, <1>6 DEF ExecuteModule, CancelExpired, GovernanceStates
    <2>3. Offered'
        BY <2>2 DEF Offered
    <2>4. QED
        BY <1>3, <1>6, <2>1, <2>3, ExecuteIsBuilt, CancelIsBuilt DEF AllBuilt
<1>7. ASSUME NEW voters \in SUBSET ShareSlots, VetoModule(voters)
      PROVE  AllBuilt /\ Offered'
    <2>1. /\ proposal.stage = "pending" /\ governance.active # 0 /\ CastVotes(voters)
          /\ governance' = [governance EXCEPT !.active = 0] /\ root' = root
          /\ RefundDeposit
        BY <1>7 DEF VetoModule, ActiveProposalSpent
    <2>2. /\ governance'.active = 0 /\ governance'.proposalNonce = governance.proposalNonce
          /\ governance'.executionNonce = governance.executionNonce
          /\ ~(governance'.proposalNonce > governance.proposalNonce)
          /\ ~(governance'.executionNonce > governance.executionNonce)
        BY <1>1, <2>1 DEF GovernanceStates
    <2>3. Offered'
        BY <2>2 DEF Offered
    <2>4. ProposeBuilt
        BY <2>2 DEF ProposeBuilt
    <2>5. ActivateBuilt
        BY <2>1 DEF ActivateBuilt, RefundDeposit, NoProposal
    <2> DEFINE action == "veto"
    <2>6. /\ action \in {"execute", "veto", "cancel"}
          /\ governance'.executionNonce = IF action = "execute" THEN governance.executionNonce + 1
                                          ELSE governance.executionNonce
          /\ action = IF governance'.executionNonce > governance.executionNonce THEN "execute"
                      ELSE IF proposal.stage = "pending" THEN "veto" ELSE "cancel"
        BY <2>1, <2>2
    <2>7. ~(action # "veto")
        OBVIOUS
    <2> HIDE DEF action
    <2>8. GovernanceFinishCall(ActiveParams, governance.active, action)
              = Call(TRUE, GovernanceOf(governance), GovernanceOf(governance'), <<>>)
        BY <2>1, <2>2, <2>6, FinishIsBuilt
    <2>9. FinishBuilt
        BY <2>6, <2>7, <2>8 DEF FinishBuilt
    <2>10. \A s \in ShareSlots : DelegationBuilt(s)
        BY <1>1, <2>1, CastUnchanged, QuietDelegations
    <2>11. QED
        BY <1>2, <1>7, <2>1, <2>3, <2>4, <2>5, <2>9, <2>10, VetoIsBuilt DEF AllBuilt
<1>8. QED
    BY <1>4, <1>5, <1>6, <1>7 DEF ProposalStep, CancelStep

LEMMA OfferStep ==
    ASSUME OfferInv, [Next]_vars
    PROVE  AllBuilt /\ OfferInv'
<1>1. GovInv /\ GovInv'
    BY GovernanceStep DEF OfferInv, StepKeeps
<1>2. ASSUME governance' = governance, root' = root, proposal'.stage = proposal.stage,
             proposal'.allocation = proposal.allocation,
             \A s \in ShareSlots : DelegationBuilt(s)
      PROVE  AllBuilt /\ Offered'
    BY <1>1, <1>2, QuietProposals DEF AllBuilt, OfferInv, Offered
<1>3. CASE Tick
    BY <1>1, <1>2, <1>3, TickIsBuilt DEF OfferInv
<1>4. CASE RootStep
    BY <1>1, <1>4, RootStepBuilt DEF OfferInv
<1>5. CASE ProposalStep
    BY <1>1, <1>5, ProposalStepBuilt DEF OfferInv
<1>6. CASE DelegationStep
    <2>1. \A s \in ShareSlots : DelegationBuilt(s)
        BY <1>1, <1>6, DelegationStepBuilt
    <2>2. governance' = governance /\ root' = root /\ proposal' = proposal
        BY <1>6, DelegationOnly
    <2>3. QED
        BY <1>1, <1>2, <2>1, <2>2 DEF OfferInv
<1>7. CASE (ReserveStep \/ TokenStep) /\ UNCHANGED governanceVars
    <2>1. governance' = governance /\ root' = root /\ proposal' = proposal
          /\ delegation' = delegation
        BY <1>7 DEF governanceVars
    <2>2. \A s \in ShareSlots : DelegationBuilt(s)
        BY <1>1, <1>7, <2>1, EquityKeepsLocked, QuietDelegations
    <2>3. QED
        BY <1>1, <1>2, <2>1, <2>2 DEF OfferInv
<1>8. CASE UNCHANGED vars
    <2>1. governance' = governance /\ root' = root /\ proposal' = proposal
          /\ delegation' = delegation /\ shares' = shares
        BY <1>8 DEF vars, governanceVars, equityVars
    <2>2. \A s \in ShareSlots : DelegationBuilt(s)
        BY <1>1, <2>1, SharesStay, QuietDelegations
    <2>3. QED
        BY <1>1, <1>2, <2>1, <2>2 DEF OfferInv
<1>9. QED
    BY <1>3, <1>4, <1>5, <1>6, <1>7, <1>8 DEF Next

LEMMA OfferInvariant == Spec => []OfferInv
<1>1. Init => OfferInv
    BY InitialGovInv DEF OfferInv, Offered, Init
<1>2. OfferInv /\ [Next]_vars => OfferInv'
    BY OfferStep
<1>3. QED
    BY <1>1, <1>2, PTL DEF Spec

(* What the client's builders make of the states on the chain for          *)
(* proposals, the Root's Modules, delegations that are locked, matured,    *)
(* redelegated or unlocked for their owner, and vetoes, of one delegation  *)
(* as KPS accepts them, has the counters, votes, tokens and successors the *)
(* covenants create.  KPS released to another wallet and votes that no     *)
(* Proposal counts, which the covenants accept too, are not built.         *)
THEOREM GovernanceClientAgrees == Spec => GovernanceBuilt
<1>1. OfferInv /\ [Next]_vars =>
          [/\ ProposeBuilt /\ ActivateBuilt /\ FinishBuilt /\ RootBuilt /\ VetoBuilt
           /\ \A s \in ShareSlots : DelegationBuilt(s)]_vars
    BY OfferStep DEF AllBuilt
<1>2. QED
    BY <1>1, OfferInvariant, PTL DEF Spec, GovernanceBuilt
=============================================================================
