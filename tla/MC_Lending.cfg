SPECIFICATION MCSpec
CONSTANTS
    NumUsers = 2
    NumFeeSlots = 2
    NumShareSlots = 1
    NumPositions = 2
    MinimumHoldingDaa = 1
    RewardPpm = 100000
    KusdAmounts = {7}
    KpsAmounts = {}
    MintAllocation = 20
    MaxDebtPerPosition = 10
    MinimumCollateral = 1
    LiquidationPrice = 1200000000
    ReserveContributionPpm = 200000
    RiskPremiumPpm = 100000
    DaaPerYear = 1
    ExpirationDaa = 1
    ChallengePeriod = 1
    AuctionDuration = 1
    InitialKas <- MCKas
    DebtAmounts = {10}
    CollateralAmounts = {1}
INVARIANTS
    TypeOK
    SupplyEqualsDebt
    KasConserved
    SnapshotFresh
    AssignedBooked
PROPERTIES
    CollateralLocked
    ImplementsLedger
    OwnerWarned
