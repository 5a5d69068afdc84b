SPECIFICATION MCFairSpec
CONSTANTS
    NumUsers = 2
    NumFeeSlots = 0
    NumShareSlots = 2
    MinimumHoldingDaa = 1
    RewardPpm = 1
    KusdAmounts = {}
    KpsAmounts = {1}
    NumModules = 3
    MaxProposals = 2
    RootAllocation = 2
    BootstrapAllocation = 1
    Allocations = {1, 2}
    MinModuleAllocation = 1
    MaxModuleAllocation = 1
    VotingDelay = 1
    ExecutionWindow = 1
    VetoThresholdPpm = 500000
    ProposalDeposit = 1
    ProposalFee = 1
    WeightEpoch = 1
    MaxVoteWeight = 2
    CastWeights = {2}
    InitialKusd = 1
    InitialKas = 1
    InitialDeposit = 2
INVARIANTS
    TypeOK
    AllocationConserved
    
    ModulesFollowProposals
    
    WeightEarned
PROPERTIES
    NoticeGiven
    ProposalConcludes
    GovernanceBuilt
