CONSTANTS
    p1 = p1
    p2 = p2
    Page <- Pages
    n1 = n1
    n2 = n2
    Name <- Names
    NoName = NoName
    Nobody = Nobody
    NumRooms = 2
    Tries <- FirstChoice
    MaxClicks = 3
    MaxLines = 1
    Patient = TRUE
SPECIFICATION FairSpec
CHECK_DEADLOCK FALSE
INVARIANT TypeOK  MarkedIsFull  
 
