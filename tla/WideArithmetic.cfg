SPECIFICATION WideSpec
CONSTANTS
    Digits = 4
    MaxInt = 35
    MaxDivisor = 5
INVARIANTS
    MulDivExact
CHECK_DEADLOCK FALSE
