CONSTANTS
    Conn = {c1, c2}
    Name = {n1, n2}
    Fd = {1, 2}
    NumRooms = 1
    RoomNo = {0, 1}
    Script <- AllScript
    Abrupt = TRUE
    Wild <- HeapWord
    None = None
    NoName = NoName
SPECIFICATION Spec
CHECK_DEADLOCK FALSE
SYMMETRY NameSymmetry
INVARIANT TypeOK
