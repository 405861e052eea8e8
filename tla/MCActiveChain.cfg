SPECIFICATION Spec
CONSTANTS
    Branches = {1, 4}
    Work <- TotalWork
    MaxHeight = 3
    MaxMoves = 2
    IndexError = IndexError
    KernelError = KernelError
    Yes = Yes
    No = No
    None = None
CONSTRAINT FewMoves
INVARIANTS
    TypeOK
    TipsAreCurrent
    LoopsFollowTheChain
PROPERTY
    AtomicSpec
CHECK_DEADLOCK FALSE
