SPECIFICATION MCSpec
CONSTANTS
    NumUsers = 2
    NumFeeSlots = 1
    NumShareSlots = 2
    MinimumHoldingDaa = 2
    RewardPpm = 100000
    KusdAmounts = {1, 2, 3}
    KpsAmounts = {1, 2}
    InitialKusd = 3
    MaxAuctionDebt = 2
    MaxCollateral = 2
INVARIANTS
    EquityTypeOK
    SharesBacked
    ReserveBooked
    HoldingPeriodRespected
PROPERTIES
    HoldersKeepTheirValue
