SPECIFICATION FairSpec
CONSTANTS
    NoCall = NoCall
    Calls = {c1, c2}
    Inline = {c2}
    Modes = {TRUE, FALSE}
    MayFail = TRUE
INVARIANTS LoopHolds EarlyCancelNeverRuns
PROPERTY EverythingAnswered
CHECK_DEADLOCK FALSE
