SPECIFICATION FairSpec
CONSTANTS
    NoWorker = NoWorker
    Workers = {w1, w2}
    Yielding = {w1}
    Mortal = {w1}
    Retirable = {w1, w2}
    Interruptible = {w1, w2}
    MaxTickets = 2
INVARIANTS RequestsHold 
PROPERTIES AnswersAreFinal 
CHECK_DEADLOCK FALSE
