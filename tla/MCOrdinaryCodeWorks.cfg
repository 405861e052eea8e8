SPECIFICATION Spec
CONSTANTS
    Threads = {t1, t2}
    Connections = {c1, c2}
    Open = {c1}
    Ops = {"create"}
    Nobody = Nobody
INVARIANT
    OrdinaryCodeWorks
CHECK_DEADLOCK FALSE
