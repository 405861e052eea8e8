SPECIFICATION Spec
CONSTANTS
    Threads = {t1, t2}
    Tracers = {c1, c2}
    Scripts = {s1, s2}
    FramesPerScript = 3
    Calls = {"verify", "block"}
    Free = Free
    None = None
SYMMETRY Symmetry
INVARIANTS
    TypeOK
    LeftCallbacksAreGone
    StreamsHaveNoGaps
    FramesWereDue
    DebugScriptIsComplete
    ExecutionsAreScripts
