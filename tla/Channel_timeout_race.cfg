SPECIFICATION Spec
CONSTANTS
    Crtn = {c1, c2, c3}
    Val = {v1}
    Posted = {}
    MaxCap = 1
    Caps = {1}
    Timed <- AllCrtn
    ResizeBuffered = FALSE
    SizeMod = 16
    None = None
INVARIANTS NoLostWakeup
