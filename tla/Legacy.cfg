CONSTANTS
    Conn = {c1, c2, c3}
    Name = {n1, n2}
    Fd = {1, 2}
    Room = {1}
    Length = 2
    None = None
    Absent = Absent
SPECIFICATION Spec
SYMMETRY Symmetry
CHECK_DEADLOCK FALSE
INVARIANT TypeOK ListedIsNamed
