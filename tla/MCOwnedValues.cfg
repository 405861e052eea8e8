SPECIFICATION Spec
CONSTANTS
    Threads = {t1, t2}
    Objects = {o1, o2, o3, o4, o5}
    MaxParts = 2
    InitialCap = 1
    MaxBytes = 5
    Free = Free
    None = None
    Var = Var
SYMMETRY Symmetry
INVARIANTS
    TypeOK
    NothingLeaks
    NothingDangles
    AnswersAreWhole
