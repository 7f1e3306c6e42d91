SPECIFICATION Spec
CONSTANTS
    ui = ui
    bulk = bulk
    mod = mod
    job = job
    None = None
    Calls = {mod, job}
    Workers = {ui, bulk}
    Long = {bulk}
    Home <- MCHome
    Configs <- MCConfigs
    Blocking = {mod}
    RetireFrom = {"Unhealthy"}
PROPERTIES RetiredForever
CHECK_DEADLOCK FALSE
