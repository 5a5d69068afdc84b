SPECIFICATION Spec
CONSTANTS
    NumUsers = 2
    NumFeeSlots = 0
    NumShareSlots = 2
    MinimumHoldingDaa = 1
    RewardPpm = 1
    KusdAmounts = {}
    KpsAmounts = {1}
    NumModules = 1
    MaxProposals = 0
    RootAllocation = 2
    BootstrapAllocation = 1
    Allocations = {1, 2}
    MinModuleAllocation = 1
    MaxModuleAllocation = 2
    VotingDelay = 1
    ExecutionWindow = 2
    VetoThresholdPpm = 500000
    ProposalDeposit = 1
    ProposalFee = 1
    WeightEpoch = 1
    MaxVoteWeight = 2
    CastWeights = {2}
    InitialKusd = 1
    InitialKas = 1
    InitialDeposit = 2
PROPERTIES
    LockedKpsReturns
