\* Two runs writing one JSON, two loads; three windows on two profiles;
\* six lanes; two evaluations of two worlds.
CONSTANTS
    Events <- MCEvents
    WithDisasm = {2}
    Runs = {1, 2}
    MaxLoads = 2
    InMemory = 4
    Profiles = {"a", "b"}
    Bad = {"dir"}
    Views = {"zoomed", "default"}
    MaxWins = 3
    MaxProfiles = 1
    MaxChanges = 3
    Traces <- MCTraces
    Attr <- MCAttr
    Matched = {"a", "d"}
    OnPath = {"b", "c", "d"}
    Filters <- MCFilters
    MaxOps = 2
    Worlds = 2
    MaxJobs = 2
    MaxViews = 2
    HistoryLimit = 2
SPECIFICATION Spec
INVARIANTS
    ImportsHonest
    SessionsKept
    RowsKept
    WorldsHonest
PROPERTY
    ViewerSettles
CHECK_DEADLOCK FALSE
