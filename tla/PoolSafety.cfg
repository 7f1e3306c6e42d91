SPECIFICATION Spec
CONSTANTS
    ui = ui
    bulk = bulk
    mod = mod
    job = job
    None = None
    Calls = {mod, job}
    Workers = {ui, bulk}
    Long = {bulk}
    Home <- MCHome
    Configs <- MCConfigs
    Blocking = {mod}
    RetireFrom = {"Unhealthy"}
INVARIANTS BooksHold
PROPERTIES AnsweredNeverStarts
CHECK_DEADLOCK FALSE
