SPECIFICATION Spec
CONSTANTS
    web = web
    log = log
    AppNames = {web, log}
    Requests <- OneApp
    Networks <- OneNetwork
    Deleters = {d1}
    MaxCalls = 1
    Strays = {}
    SelfExits = FALSE
    Pause = pause
    None = None
    Kilo = 1000
    Kibi = 1024
INVARIANT
    LimitsApply
CHECK_DEADLOCK FALSE
