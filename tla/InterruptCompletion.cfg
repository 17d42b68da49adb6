SPECIFICATION Spec
CONSTANTS
    v1 = v1
    v2 = v2
    t1 = t1
    t2 = t2
    d1 = d1
    VblTasks = {v1, v2}
    Timers = {t1, t2}
    DeferredTasks = {d1}
    Extended = {t1}
    Sessions <- ReadsFromRetrace
    Counts = {1}
    Delays = {1}
    InstructionsPerTick = 2
    MaxTick = 2
    MaxNested = 1
    None = None
PROPERTY
    CompletionBeforeForeground
CHECK_DEADLOCK FALSE
