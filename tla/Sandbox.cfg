SPECIFICATION FairSpec
CONSTANTS
    None = None
    Mods = {m1, m2}
    Calls = {c1, c2}
    Timeout = 1
    MaxTime = 1
    MaxDepth = 4
    MaxOps = 4
    MaxRetained = 1
    Doing = {"execute", "invoke", "strict", "fire", "executeAsync", "invokeAsync", "module", "drain",
             "emit", "callback", "late", "between", "loose", "cancel", "fault", "dispose", "retain"}
INVARIANTS BookkeepingHolds CreditedToItsMod
PROPERTIES StopNotSwallowed EndIsFinal ParkedCallsAnswered
CHECK_DEADLOCK FALSE
