SPECIFICATION Spec
CONSTANTS
    Key = {k1, k2}
    Datum = {d1}
    MaxMsgs = 3
    MaxDrift = 2
SYMMETRY KeySymmetry
INVARIANTS FlagsCover CountCovers ReducedOnce
PROPERTIES Priority
