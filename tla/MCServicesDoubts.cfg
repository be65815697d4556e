SPECIFICATION Spec
CONSTANTS
    Hub = "hub"
    Other = "other"
    Running = {"report", "tuning", "telemetry"}
    Spent <- MCSpent
    MaxSubscribers = 1
    Totals = {1, 2}
    Ids = {0, 2}
    PageSize = 1
    MaxItems = 2
    MaxCalls = 5
    MaxFaults = 4
    MaxFrames = 3
    Configs <- MCConfigs
    MinPeriod = 1
    MaxPeriod = 2
    MaxEnabled = 1
    Levels = {"info", "debug"}
    DefaultLevel = "info"
    WireLevels = {"debug", "unknown"}
    MaxLines = 2
    MaxDropped = 4
    Values = {1, 2}
    Default = 1
    WireValues = {2, 9}
    Locked = {0}
    StatusPeriod = 2
    MaxReports = 2
INVARIANTS ReportIsOne HoldsWhatFlies
PROPERTY FirstSampleIsPrompt
CHECK_DEADLOCK FALSE
