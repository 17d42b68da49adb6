SPECIFICATION Spec
CONSTANTS
    v1 = v1
    v2 = v2
    t1 = t1
    t2 = t2
    d1 = d1
    VblTasks = {v1, v2}
    Timers = {t1, t2}
    DeferredTasks = {d1}
    Extended = {t1}
    Sessions <- Everyday
    Counts = {1}
    Delays = {0, 1, 2}
    InstructionsPerTick = 2
    MaxTick = 3
    MaxNested = 1
    None = None
INVARIANTS
    ContextRestored
    TimersOnTime
    ForegroundNotStarved
PROPERTIES
    BatchBeforeForeground
    OncePerRetrace
CHECK_DEADLOCK FALSE
