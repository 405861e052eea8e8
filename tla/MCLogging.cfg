SPECIFICATION FairSpec
CONSTANTS
    Threads = {t1, t2}
    Connections = {c1, c2}
    Open = {c1}
    Ops = {"create", "configure"}
    Nobody = Nobody
INVARIANTS
    TypeOK
    CirclesKeepTheGil
    ConnectionsHaveOneOwner
    CallbacksAreReleased
PROPERTY
    ContractSpec
    ClosesReturn
CHECK_DEADLOCK FALSE
