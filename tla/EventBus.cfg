SPECIFICATION Spec
CONSTANTS
    w1 = w1
    w2 = w2
    m1 = m1
    m2 = m2
    e1 = e1
    e2 = e2
    p1 = p1
    Host = Host
    None = None
    Workers <- TwoWorkers
    Mods <- TwoMods
    Privileged <- OneMod
    Events <- TwoEvents
    Manifest <- OneEvent
    Prefixes <- OnePrefix
    MaxSubs = 2
    MaxEmits = 2
    Interruptible <- TwoWorkers
    Programs <- MCPrograms
INVARIANTS SubscriptionsHold OnceHolds NamesHold
PROPERTIES RegistrySpec
SYMMETRY Symmetry
CHECK_DEADLOCK FALSE
