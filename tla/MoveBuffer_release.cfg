SPECIFICATION Spec
CONSTANTS
    Inst = {1, 2}
    Msg = {m1, m2}
    MoveHeap = MoveHeap
    None = None
    MaxMsgs = 1
SYMMETRY MsgSymmetry
PROPERTIES ReleaseAfterMoveIsNoop
