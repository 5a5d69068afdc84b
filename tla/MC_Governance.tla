---------------------------- MODULE MC_Governance ----------------------------
(***************************************************************************)
(* Governance for TLC, with observers of two time lines: `announced`, how  *)
(* long ago the active proposal was made, and lockedFor[s], how long the   *)
(* KPS of slot s has been locked.  Both saturate.  recast[s]: its delegate *)
(* has since written another weight, with a vote that no Proposal counts.  *)
(***************************************************************************)
EXTENDS GovernanceCalls

VARIABLES announced, lockedFor, recast

mcVars == <<vars, announced, lockedFor, recast>>

FullWeightTime == MaxVoteWeight * WeightEpoch

MCInit ==
    /\ Init
    /\ announced = 0
    /\ lockedFor = [s \in ShareSlots |-> 0]
    /\ recast = [s \in ShareSlots |-> FALSE]

Recast(s) ==
    /\ delegation'[s].weight # delegation[s].weight
    /\ ~\E kept \in ShareSlots : Mature(s, kept)
    /\ \E owner, v \in Users, weight \in CastWeights, kept \in ShareSlots :
           CastUncounted(s, owner, v, weight, kept)

(* Time passes for what was there before the step and is there after it. *)
Observe ==
    /\ announced' = IF governance'.active # governance.active \/ governance.active = 0 THEN 0
                    ELSE IF Tick /\ announced < VotingDelay THEN announced + 1 ELSE announced
    /\ lockedFor' = [s \in ShareSlots |->
                        IF ~shares[s].locked \/ ~shares'[s].locked THEN 0
                        ELSE IF Tick /\ lockedFor[s] < FullWeightTime THEN lockedFor[s] + 1
                        ELSE lockedFor[s]]
    /\ recast' = [s \in ShareSlots |->
                     shares[s].locked /\ shares'[s].locked /\ (recast[s] \/ Recast(s))]

MCNext == Next /\ Observe
MCSpec == MCInit /\ [][MCNext]_mcVars
MCFairSpec == MCSpec /\ GovernanceFairness

(* KPS holders have votingDelayDaa to veto before a governed Module is     *)
(* created, although the ModuleProposal's age starts again at activation.  *)
NoticeGiven ==
    [][governance'.executionNonce # governance.executionNonce => announced >= VotingDelay]_mcVars

(* A vote has as much weight as the KPS behind it has been locked epochs:  *)
(* neither redelegating, voting nor locking again makes it grow faster.    *)
(* A delegate who votes where no Proposal counts it may set the weight,    *)
(* but not before the first epoch: KPS just locked never has a vote.       *)
WeightEarned ==
    \A s \in ShareSlots :
        /\ delegation[s].weight > 0 => lockedFor[s] >= WeightEpoch
        /\ ~recast[s] => delegation[s].weight * WeightEpoch <= lockedFor[s]
=============================================================================
