SPECIFICATION FairSpec
CONSTANTS
    t1 = t1
    key = key
    NoThread = NoThread
    MaxLogins = 2
    Pool <- OneThread
    Inputs <- OneInput
INVARIANTS TypeOK LoginConsistent ViewInUse DownIsKnown
PROPERTIES ApprovedLoginEnds SessionEnds
\* The server may have no more logins to give.
CHECK_DEADLOCK FALSE
