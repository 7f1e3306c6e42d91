SPECIFICATION FairSpec
CONSTANTS
    ui = ui
    bulk = bulk
    mod = mod
    job = job
    None = None
    Calls = {mod, job}
    Workers = {ui, bulk}
    Long = {bulk}
    Home <- MCHome
    Configs <- MCConfigs
    Blocking = {mod}
    RetireFrom = {}
PROPERTIES QuarantineAnswersQueue CallsAnswered
CHECK_DEADLOCK FALSE
