SPECIFICATION Spec
CONSTANTS
    MaxInputs = 3
    UIntMax = 3
    ULongMax = 7
    AllFlags = 3
    TaprootFlags = {2, 3}
    RefusedFlags = {1, 2}
    MaxArgument = 9
INVARIANTS
    TypeOK
    KernelNeverAborts
    VerdictsAreOfAllInputs
    VerdictsAreExact
CHECK_DEADLOCK FALSE
