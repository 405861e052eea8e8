SPECIFICATION Spec
CONSTANTS
    Threads = {t1}
    Tracers = {c1, c2}
    Scripts = {s1, s2}
    FramesPerScript = 3
    Calls = {"verify"}
    Free = Free
    None = None
INVARIANT InnermostFires
