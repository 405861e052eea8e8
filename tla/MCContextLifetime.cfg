SPECIFICATION Spec
CONSTANTS
    Threads = {t1, t2}
    CtxOptions = {o1}
    Contexts = {c1, c2}
    MgrOptions = {m1}
    Managers = {g1}
    Handlers = {h1}
    Regs = {r1, r2, r3}
    Slots = {notifications, validation_interface}
    Free = Free
    None = None
    Var = Var
SYMMETRY Symmetry
INVARIANTS
    TypeOK
    ContextOutlivesItsUsers
    HandlersStayAlive
    ReferencesAreReleased
    WrappersMatchTheKernel
