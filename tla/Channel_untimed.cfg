SPECIFICATION FairSpec
CONSTANTS
    Crtn = {c1, c2, c3, c4}
    Val = {v1}
    Posted = {v1}
    MaxCap = 2
    Caps = {0, 2}
    Timed <- NoCrtn
    ResizeBuffered = FALSE
    SizeMod = 16
    None = None
INVARIANTS NoLostWakeup
PROPERTIES WaitersDrain
\* without timers every coroutine may be stopped in the same call
CHECK_DEADLOCK FALSE
