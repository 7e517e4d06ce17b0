CONSTANTS
    Conn = {c1, c2, c3}
    Name = {n1}
    Fd = {1, 2, 3}
    NumRooms = 1
    RoomNo = {1}
    Script <- JoinScript
    Abrupt = FALSE
    Wild <- HeapWord
    None = None
    NoName = NoName
SPECIFICATION Spec
CHECK_DEADLOCK FALSE
SYMMETRY NameSymmetry
INVARIANT RoomCapacity
