SPECIFICATION Spec
CONSTANTS
    NumUsers = 2
    NumFeeSlots = 2
    NumShareSlots = 1
    NumPositions = 2
    MinimumHoldingDaa = 1
    RewardPpm = 1
    KusdAmounts = {1, 2}
    KpsAmounts = {1}
    MintAllocation = 8
    MaxDebtPerPosition = 4
    MinimumCollateral = 1
    LiquidationPrice = 400000000
    ReserveContributionPpm = 500000
    RiskPremiumPpm = 0
    DaaPerYear = 1
    ExpirationDaa = 1
    ChallengePeriod = 1
    AuctionDuration = 2
    InitialKas <- MCKas
    DebtAmounts = {1, 4}
    CollateralAmounts = {1}
INVARIANTS
    AssignedWithinDebt
