SPECIFICATION ObservedSpec
CONSTANTS
    NumUsers = 1
    NumFeeSlots = 0
    NumShareSlots = 1
    MinimumHoldingDaa = 1
    RewardPpm = 1
    KusdAmounts = {}
    KpsAmounts = {}
    NumModules = 1
    MaxProposals = 0
    RootAllocation = 1
    BootstrapAllocation = 1
    Allocations = {}
    MinModuleAllocation = 1
    MaxModuleAllocation = 1
    VotingDelay = 1
    ExecutionWindow = 1
    VetoThresholdPpm = 500000
    ProposalDeposit = 1
    ProposalFee = 1
    WeightEpoch = 1
    MaxVoteWeight = 1
    CastWeights = {1}
    InitialKusd = 12
    InitialKas = 3
    InitialDeposit = 8
    NumAccounts = 2
    NumOtherAccounts = 0
    OtherTerms <- MCOtherTerms
    MaxSeries = 2
    SeriesTerms <- MCSeriesTerms
    SavedAmounts = {6}
    ReferralPpms = {0, 250000}
    MaxAccountAge = 3
    DaaPerYear = 1
    AccountValue = 1
    SeriesVotingDelay = 1
    SeriesExecutionWindow = 1
    SeriesVetoThresholdPpm = 500000
    SeriesDeposit = 1
INVARIANTS
    AlwaysWithdrawable
