SPECIFICATION FairSpec
CONSTANTS
    NoTask = NoTask
    Tasks = {k1, k2}
    MaxPolls = 3
INVARIANTS SlotHolds
PROPERTIES OneShotSpec EveryConsumerServed
CHECK_DEADLOCK FALSE
