SPECIFICATION Spec
CONSTANTS
    Threads = {t1, t2}
    Callbacks = {k1}
    Managers = {m1, m2}
    Views = {v1, v2}
    Free = Free
    Null = Null
    Var = Var
INVARIANT EntriesStayValid
