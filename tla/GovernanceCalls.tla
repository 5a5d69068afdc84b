--------------------------- MODULE GovernanceCalls ---------------------------
(***************************************************************************)
(* The client's side of Governance: the builders that take ProtocolParams  *)
(* and GovernanceParams, and those of delegated KPS.                       *)
(*                                                                         *)
(* A covenant's id is given by its caller: a proposal's is its nonce, a    *)
(* delegation's the slot of the KPS it owns.                               *)
(***************************************************************************)
EXTENDS Governance, Calls

(* What validate_governance asks of the configuration itself; and          *)
(* deployment_core.py gives max_module_allocation and the Root ROOT_CAP.   *)
ASSUME ConfiguredBounds ==
    /\ 1 <= MinModuleAllocation
    /\ MinModuleAllocation <= MaxModuleAllocation
    /\ MaxModuleAllocation <= RootAllocation

(* GovernanceParams and the fields of ProtocolParams used with them:       *)
(* allocation is module_remaining_mint, rootRemaining the Root's as the    *)
(* configuration has it.                                                   *)
GovernanceParams(proposer, allocation) ==
    [proposer |-> proposer, allocation |-> allocation, rootRemaining |-> RootAllocation,
     proposalNonce |-> governance.proposalNonce, executionNonce |-> governance.executionNonce,
     reserveKusd |-> reserve.kusd]

(* validate_governance: the proposed Module is within its bounds, and the  *)
(* Root could still create it.                                             *)
ValidGovernance(c) ==
    /\ c.allocation \in MinModuleAllocation..MaxModuleAllocation
    /\ c.allocation <= c.rootRemaining

(* Constructor arguments: the states of the covenants spent. *)
GovernanceArgs(c, active) ==
    [proposalNonce |-> c.proposalNonce, executionNonce |-> c.executionNonce, active |-> active]
ProposalArgs(c, activated) ==
    [proposer |-> c.proposer, nonce |-> c.proposalNonce, activated |-> activated,
     allocation |-> c.allocation]
RootArgs(moduleNonce, remaining, authority) ==
    [moduleNonce |-> moduleNonce, remaining |-> remaining, authority |-> authority]
DelegationArgs(owner, delegate, amount, weight) ==
    [owner |-> owner, delegate |-> delegate, amount |-> amount, weight |-> weight]

(* State expressions: the successors announced.  A token's owner is a key  *)
(* (type 0) or a covenant (type 2).                                        *)
GovernanceState(c, active) ==
    [proposalNonce |-> c.proposalNonce, executionNonce |-> c.executionNonce, active |-> active]
ProposalState(c, activated) ==
    [proposer |-> c.proposer, nonce |-> c.proposalNonce, activated |-> activated,
     allocation |-> c.allocation]
RootState(moduleNonce, remaining) ==
    [moduleNonce |-> moduleNonce, remaining |-> remaining, authority |-> "governance"]
DelegationState(owner, delegate, amount, weight) ==
    [owner |-> owner, delegate |-> delegate, amount |-> amount, weight |-> weight]
TokenState(owner, type, amount) == [owner |-> owner, type |-> type, amount |-> amount]

-----------------------------------------------------------------------------
(* Governance, ModuleProposal and RootIssuance *)

ProposeModuleCall(c, id) ==
    LET next == [c EXCEPT !.proposalNonce = @ + 1]
    IN  Call(ValidGovernance(c), GovernanceArgs(c, 0),
             [governance |-> GovernanceState(next, id), proposal |-> ProposalState(next, FALSE)],
             [proposal |-> ProposalFee])

ProposalActivateCall(c) ==
    Call(ValidGovernance(c), ProposalArgs(c, FALSE), ProposalState(c, TRUE), <<>>)

(* Mutant: the counter of executions counts every end of a proposal. *)
GovernanceFinishCallCounting(c, id, action) ==
    LET next == [c EXCEPT !.executionNonce = @ + 1]
    IN  Call(ValidGovernance(c) /\ action \in {"execute", "veto", "cancel"},
             GovernanceArgs(c, id), GovernanceState(next, 0), <<>>)

GovernanceFinishCall(c, id, action) ==
    LET next == IF action = "execute" THEN [c EXCEPT !.executionNonce = @ + 1] ELSE c
    IN  Call(ValidGovernance(c) /\ action \in {"execute", "veto", "cancel"},
             GovernanceArgs(c, id), GovernanceState(next, 0), <<>>)

ProposalFinishCall(c, action) ==
    Call(ValidGovernance(c) /\ action \in {"execute", "cancel"}, ProposalArgs(c, TRUE), <<>>,
         [proposer |-> ProposalFee])

RootExecuteModuleCall(c, moduleNonce, remaining) ==
    Call(ValidGovernance(c), RootArgs(moduleNonce, remaining, "governance"),
         [root |-> RootState(moduleNonce + 1, remaining - c.allocation),
          module |-> c.allocation,
          governance |-> GovernanceState([c EXCEPT !.executionNonce = @ + 1], 0)], <<>>)

RootBootstrapModuleCall(c, moduleNonce, remaining) ==
    Call(ValidGovernance(c), RootArgs(moduleNonce, remaining, "key"),
         [root |-> RootArgs(moduleNonce + 1, remaining - c.allocation, "key"),
          module |-> c.allocation], <<>>)

RootHandoverCall(c, moduleNonce, remaining) ==
    Call(ValidGovernance(c), RootArgs(moduleNonce, remaining, "key"),
         RootState(moduleNonce, remaining), <<>>)

-----------------------------------------------------------------------------
(* KpsDelegation and the KPS it owns *)

KpsLockCall(owner, delegate, amount, id) ==
    Call(amount > 0, TokenState(owner, 0, amount),
         [delegation |-> DelegationState(owner, delegate, amount, 0),
          kps |-> TokenState(id, 2, amount)], <<>>)

DelegationMatureCall(owner, delegate, amount, weight, id) ==
    Call(TRUE, DelegationArgs(owner, delegate, amount, weight),
         [delegation |-> DelegationState(owner, delegate, amount, weight + 1),
          kps |-> TokenState(id, 2, amount)], <<>>)

RedelegateCall(owner, oldDelegate, newDelegate, amount, weight, id) ==
    Call(TRUE, DelegationArgs(owner, oldDelegate, amount, weight),
         [delegation |-> DelegationState(owner, newDelegate, amount, weight),
          kps |-> TokenState(id, 2, amount)], <<>>)

DelegationUnlockCall(owner, delegate, amount, weight) ==
    Call(TRUE, DelegationArgs(owner, delegate, amount, weight),
         [kps |-> TokenState(owner, 0, amount)], <<>>)

(* The locked KPS spent beside its delegation: handed back, or kept, when  *)
(* it is the only KPS of the transaction.                                  *)
KpsLockedTransferCall(id, amount) ==
    Call(TRUE, TokenState(id, 2, amount), {TokenState(id, 2, amount)}, <<>>)
KpsUnlockCall(owner, delegate, id, amount, weight) ==
    Call(TRUE, TokenState(id, 2, amount),
         [delegation |-> DelegationState(owner, delegate, amount, weight),
          kps |-> TokenState(owner, 0, amount)], <<>>)

-----------------------------------------------------------------------------
(* Veto *)

(* Votes the client counts before it sends a veto, and the votes it needs: *)
(* 0 where the Rust function returns an error.                             *)
WeightedVotes(amount, weight) ==
    IF amount > 0 /\ weight \in 1..MaxVoteWeight THEN amount * weight ELSE 0
RequiredWeightedVotes(totalKps, thresholdPpm) ==
    LET weighted == totalKps * MaxVoteWeight
        rest == (weighted % PPM) * thresholdPpm
    IN  (weighted \div PPM) * thresholdPpm + rest \div PPM + (IF rest % PPM # 0 THEN 1 ELSE 0)

(* A GovernanceVote for each voter. *)
VoteOf(s) == [owner |-> shares[s].owner, delegate |-> delegation[s].delegate, id |-> s,
              amount |-> shares[s].amount, weight |-> delegation[s].weight]

DelegationOf(vote) == DelegationState(vote.owner, vote.delegate, vote.amount, vote.weight)

ProposalVetoCall(c, votes) ==
    Call(Cardinality(votes) \in 1..8 /\ ValidGovernance(c), ProposalArgs(c, FALSE),
         [delegations |-> {DelegationOf(v) : v \in votes},
          kps |-> {TokenState(v.id, 2, v.amount) : v \in votes},
          reserveKusd |-> c.reserveKusd + ProposalFee],
         [reserve |-> c.reserveKusd + ProposalFee])

DelegationVetoCall(vote) ==
    Call(TRUE, DelegationOf(vote),
         [delegation |-> DelegationOf(vote), kps |-> TokenState(vote.id, 2, vote.amount)], <<>>)

ReserveCollectFeeCall(c, fee) ==
    Call(fee > 0, c.reserveKusd, c.reserveKusd + fee, [reserve |-> c.reserveKusd + fee])

-----------------------------------------------------------------------------
(* What the covenants hold, in the form the builders write it. *)

GovernanceOf(g) == [proposalNonce |-> g.proposalNonce, executionNonce |-> g.executionNonce,
                    active |-> g.active]
ProposalOf(x) == [proposer |-> x.proposer, nonce |-> x.nonce,
                  activated |-> x.stage = "activated", allocation |-> x.allocation]
RootOf(r) == [moduleNonce |-> r.moduleNonce, remaining |-> r.remaining, authority |-> r.authority]
HeldBy(share, d) == [owner |-> share.owner, delegate |-> d.delegate, amount |-> share.amount,
                     weight |-> d.weight]
KpsOf(share, s) == IF share.locked THEN TokenState(s, 2, share.amount)
                   ELSE TokenState(share.owner, 0, share.amount)

ActiveParams == GovernanceParams(proposal.proposer, proposal.allocation)
Received(u) == kusd'[u] - kusd[u]

ProposeBuilt ==
    governance'.proposalNonce > governance.proposalNonce =>
        ProposeModuleCall(GovernanceParams(proposal'.proposer, proposal'.allocation),
                          governance'.active)
            = Call(TRUE, GovernanceOf(governance),
                   [governance |-> GovernanceOf(governance'), proposal |-> ProposalOf(proposal')],
                   [proposal |-> escrow'])

ActivateBuilt ==
    proposal.stage = "pending" /\ proposal'.stage = "activated" =>
        ProposalActivateCall(ActiveParams)
            = Call(TRUE, ProposalOf(proposal), ProposalOf(proposal'), <<>>)

(* How the active proposal ends: Governance's call, and the Proposal's. *)
FinishBuilt ==
    LET action == IF governance'.executionNonce > governance.executionNonce THEN "execute"
                  ELSE IF proposal.stage = "pending" THEN "veto" ELSE "cancel"
    IN  governance.active # 0 /\ governance'.active = 0 =>
            /\ GovernanceFinishCall(ActiveParams, governance.active, action)
                   = Call(TRUE, GovernanceOf(governance), GovernanceOf(governance'), <<>>)
            /\ action # "veto" =>
                   ProposalFinishCall(ActiveParams, action)
                       = Call(TRUE, ProposalOf(proposal), <<>>,
                              [proposer |-> Received(proposal.proposer)])

(* The deployer's key is not held to Governance's bounds; the client is. *)
RootBuilt ==
    LET created == modules'[root'.moduleNonce].allocation
        byKey == GovernanceParams(1, created)
    IN  /\ root'.moduleNonce > root.moduleNonce /\ root.authority = "governance" =>
               RootExecuteModuleCall(ActiveParams, root.moduleNonce, root.remaining)
                   = Call(TRUE, RootOf(root),
                          [root |-> RootOf(root'), module |-> created,
                           governance |-> GovernanceOf(governance')], <<>>)
        /\ root'.moduleNonce > root.moduleNonce /\ root.authority = "key"
           /\ ValidGovernance(byKey) =>
               RootBootstrapModuleCall(byKey, root.moduleNonce, root.remaining)
                   = Call(TRUE, RootOf(root), [root |-> RootOf(root'), module |-> created], <<>>)
        /\ root'.authority # root.authority =>
               RootHandoverCall(GovernanceParams(1, MinModuleAllocation), root.moduleNonce,
                                root.remaining)
                   = Call(TRUE, RootOf(root), RootOf(root'), <<>>)

(* The KPS of slot s is locked, unlocked, or its delegation matures or     *)
(* changes delegates: but the client never unlocks KPS for anybody but its *)
(* owner, and casts no vote that is not counted.                           *)
Continues(s) ==
    \E kept \in ShareSlots : Mature(s, kept) \/ \E v \in Users : Redelegate(s, v, kept)

DelegationBuilt(s) ==
    LET old == HeldBy(shares[s], delegation[s])
        new == HeldBy(shares'[s], delegation'[s])
        both == [delegation |-> new, kps |-> KpsOf(shares'[s], s)]
    IN  /\ ~shares[s].locked /\ shares'[s].locked =>
               KpsLockCall(old.owner, new.delegate, old.amount, s)
                   = Call(TRUE, KpsOf(shares[s], s), both, <<>>)
        /\ shares[s].locked /\ ~shares'[s].locked /\ shares'[s].owner = shares[s].owner =>
               /\ DelegationUnlockCall(old.owner, old.delegate, old.amount, old.weight)
                      = Call(TRUE, old, [kps |-> KpsOf(shares'[s], s)], <<>>)
               /\ KpsUnlockCall(old.owner, old.delegate, s, old.amount, old.weight)
                      = Call(TRUE, KpsOf(shares[s], s),
                             [delegation |-> old, kps |-> KpsOf(shares'[s], s)], <<>>)
        /\ new # old /\ Continues(s) =>
               /\ KpsLockedTransferCall(s, old.amount)
                      = Call(TRUE, KpsOf(shares[s], s), {KpsOf(shares'[s], s)}, <<>>)
               /\ Call(TRUE, old, both, <<>>)
                      = IF new.delegate = old.delegate
                        THEN DelegationMatureCall(old.owner, old.delegate, old.amount, old.weight, s)
                        ELSE RedelegateCall(old.owner, old.delegate, new.delegate, old.amount,
                                            old.weight, s)

(* A veto that carries: the client counts the votes as the Proposal does,  *)
(* and the five covenants are told what is created.                        *)
VetoBuilt ==
    proposal.stage = "pending" /\ governance.active # 0 /\ governance'.active = 0 =>
        \E voters \in SUBSET ShareSlots :
            LET votes == {VoteOf(s) : s \in voters}
                counted == [s \in ShareSlots |->
                               IF s \in voters
                               THEN WeightedVotes(shares[s].amount, delegation[s].weight) ELSE 0]
                renewed == {KpsOf(shares'[s], s) : s \in voters}
            IN  /\ SumTo(counted, NumShareSlots)
                       >= RequiredWeightedVotes(reserve.kps, VetoThresholdPpm)
                /\ ProposalVetoCall(ActiveParams, votes)
                       = Call(TRUE, ProposalOf(proposal),
                              [delegations |-> {HeldBy(shares'[s], delegation'[s]) : s \in voters},
                               kps |-> renewed, reserveKusd |-> reserve'.kusd],
                              [reserve |-> reserveToken'])
                /\ ReserveCollectFeeCall(ActiveParams, escrow)
                       = Call(TRUE, reserve.kusd, reserve'.kusd, [reserve |-> reserveToken'])
                /\ \A v \in votes :
                       /\ DelegationVetoCall(v)
                              = Call(TRUE, HeldBy(shares[v.id], delegation[v.id]),
                                     [delegation |-> HeldBy(shares'[v.id], delegation'[v.id]),
                                      kps |-> KpsOf(shares'[v.id], v.id)], <<>>)
                       /\ KpsLockedTransferCall(v.id, v.amount)
                              = Call(TRUE, KpsOf(shares[v.id], v.id), renewed, <<>>)

(* Every step that Governance, the Root, the Proposal and the delegations  *)
(* accept, but for KPS unlocked for another than its owner and votes no    *)
(* Proposal counts, can be built from what is on the chain and the         *)
(* configuration, and the client's counters, votes, tokens and states are  *)
(* the covenants'.                                                         *)
GovernanceBuilt ==
    [][/\ ProposeBuilt /\ ActivateBuilt /\ FinishBuilt /\ RootBuilt /\ VetoBuilt
       /\ \A s \in ShareSlots : DelegationBuilt(s)]_vars
=============================================================================
