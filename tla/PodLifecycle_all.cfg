SPECIFICATION FairSpec
CONSTANTS
    web = web
    log = log
    AppNames = {web, log}
    Requests <- SomeRequests
    Networks <- SomeNetworks
    Deleters = {d1, d2}
    MaxCalls = 2
    Strays = {d1}
    SelfExits = TRUE
    Pause = pause
    None = None
    Kilo = 1000
    Kibi = 1024
INVARIANTS
    TypeOK
    HandleMeansComplete
    SpecMeansWhatWasAsked
    RunningIsManaged
    DeleteLeavesNoRecord
    SignalledPauseHoldsNoAddress
PROPERTIES
    ProcessesEnd
    CallsEnd
CHECK_DEADLOCK FALSE
