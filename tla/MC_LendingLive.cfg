SPECIFICATION FairSpec
CONSTANTS
    NumUsers = 2
    NumFeeSlots = 3
    NumShareSlots = 1
    NumPositions = 2
    MinimumHoldingDaa = 1
    RewardPpm = 100000
    KusdAmounts = {6}
    KpsAmounts = {}
    MintAllocation = 20
    MaxDebtPerPosition = 10
    MinimumCollateral = 1
    LiquidationPrice = 1000000000
    ReserveContributionPpm = 500000
    RiskPremiumPpm = 100000
    DaaPerYear = 1
    ExpirationDaa = 1
    ChallengePeriod = 1
    AuctionDuration = 2
    InitialKas <- MCKas
    DebtAmounts = {3, 10}
    CollateralAmounts = {1}
PROPERTIES
    ChallengeProceeds
    AuctionResolves
    LendingBuilt
