SPECIFICATION FairSpec
CONSTANTS
    Threads = {t1, t2}
    Callbacks = {k1}
    Managers = {m1}
    Views = {v1, v2}
    Free = Free
    Null = Null
    Var = Var
INVARIANTS
    TypeOK
    GuardedAccessesStayValid
    NoOrphan
    FreedWrappersAreUnused
    NoCircle
PROPERTIES
    ContractSpec
    CallsReturn
