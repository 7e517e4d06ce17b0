CONSTANTS
    Conn = {c1, c2, c3}
    Name = {n1, n2}
    Fd = {1, 2}
    NumRooms = 1
    RoomNo = {1}
    Script <- WebScript
    Abrupt = TRUE
    Wild <- HeapWord
    None = None
    NoName = NoName
SPECIFICATION Spec
CHECK_DEADLOCK FALSE
SYMMETRY NameSymmetry
INVARIANT  NameHeldOnce
