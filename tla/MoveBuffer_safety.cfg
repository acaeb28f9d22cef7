SPECIFICATION Spec
CONSTANTS
    Inst = {1, 2, 3}
    Msg = {m1, m2, m3, m4}
    MoveHeap = MoveHeap
    None = None
    MaxMsgs = 1
SYMMETRY MsgSymmetry
INVARIANTS RefcntSound HeapFollowsMessage CountExact OverflowBounded
