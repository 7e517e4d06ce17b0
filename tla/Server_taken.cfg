CONSTANTS
    Conn = {c1, c2}
    Name = {n1}
    Fd = {1, 2}
    NumRooms = 1
    RoomNo = {1}
    Script <- WebScript
    Abrupt = FALSE
    Wild <- HeapWord
    None = None
    NoName = NoName
SPECIFICATION Spec
CHECK_DEADLOCK FALSE
SYMMETRY NameSymmetry
INVARIANT TakenNamesAreHeld
