SPECIFICATION Spec
CONSTANTS
    Crtn = {c1, c2}
    Val = {v1, v2}
    Posted = {v1, v2}
    MaxCap = 2
    Caps = {0, 1, 2}
    Timed <- AllCrtn
    ResizeBuffered = FALSE
    SizeMod = 16
    None = None
INVARIANTS TypeOK RingCoherent WaitListsSound NoDanglingChannel
PROPERTIES ImplementsFifo MiscountExplained
