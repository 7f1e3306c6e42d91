SPECIFICATION FairSpec
CONSTANTS
    r1 = r1
    r2 = r2
    Runs = {r1, r2}
    Programs <- MCPrograms
    Requests <- MCRequests
    AtOnce = 1
    AnswersInside = FALSE
    MaxVerbs = 2
    MaxLaps = 1
INVARIANTS StopsHold
PROPERTIES EveryRunEnds
CHECK_DEADLOCK FALSE
