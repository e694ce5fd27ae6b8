SPECIFICATION Spec
CONSTANTS
    Offered <- MCOffered
    Valid <- MCValid
    Answers <- MCAnswers
    Listings <- MCListings
    MaxRetries = 2
    FirstSN = 3
    Wrap = 4
    Sizes = {1, 5}
    MaxTasks = 1
    MaxAsync = 1
INVARIANTS TypeOK StagesAgree TargetProved AcknowledgesReceived SegmentsFit
INVARIANTS UnsolicitedAllowed BurstsAssembled RecordsAttributed
PROPERTY LoginEnds
\* A login ends, and tasks are bounded.
CHECK_DEADLOCK FALSE
