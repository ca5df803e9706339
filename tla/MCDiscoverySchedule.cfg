SPECIFICATION ScheduleSpec
CONSTANTS
    s1 = s1  s2 = s2  k1 = k1
    None = None
    Streams <- MCStreams
    Lists <- MCLists
    Pages <- MCPages
    KeywordStreams <- MCKeywordStreams
    SearchLimit = 4
    SourceLimit = 3
    IoCost = 1
    MaxPages = 2
    WorkerCounts = {1, 2}
    MaxStops = 2
    MaxCrashes = 1
    MaxChanges = 1
INVARIANT AlertsAlternate
PROPERTIES LapIsWhole LapsGoOn PauseIsKept
CHECK_DEADLOCK FALSE
