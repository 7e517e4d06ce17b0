CONSTANTS
    Conn = {c1, c2, c3, c4, c5}
    Worker = {w1, w2, w3}
    None = None
SPECIFICATION FairSpec
CHECK_DEADLOCK FALSE
INVARIANT TypeOK NoneStranded OneHandler
PROPERTY FirstComeFirstServed
