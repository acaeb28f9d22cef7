SPECIFICATION Spec
CONSTANTS
    c1 = c1
    c2 = c2
    Conn = {1, 2, 3, 4}
    Crtn = {c1, c2}
    Parent <- Family
    Null = Null
    Wild = Wild
    End = End
INVARIANTS Owned PointersSound EntriesSound Attached
PROPERTIES NextStays
CHECK_DEADLOCK FALSE
