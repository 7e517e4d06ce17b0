CONSTANTS
    Handler = {own, peer}
    MaxUp = 2
    MaxDown = 2
SPECIFICATION FairSpec
CHECK_DEADLOCK FALSE
PROPERTY LeaveFreesConnection
