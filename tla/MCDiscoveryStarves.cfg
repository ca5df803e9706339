SPECIFICATION ScheduleSpec
CONSTANTS
    s1 = s1  s2 = s2  k1 = k1
    None = None
    Streams <- MCStreams
    Lists <- MCLists
    Pages <- MCPages
    KeywordStreams <- MCKeywordStreams
    SearchLimit = 2
    SourceLimit = 3
    IoCost = 1
    MaxPages = 2
    WorkerCounts = {2}
    MaxStops = 0
    MaxCrashes = 0
    MaxChanges = 0
CHECK_DEADLOCK FALSE
PROPERTY SweepsAdvance
