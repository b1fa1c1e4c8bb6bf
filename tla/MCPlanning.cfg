CONSTANTS
    Boards = 2
    Ranks = 2
    Imported <- ImportedTasks
    Manual = {m1}
    AutoPlanner = auto
    Key = {k1, k2}
    Root = root
    PerPass = 2
    PerBoard = 1
    PageSize = 1
    ScanLimit = 2
    MaxFailures = 1
    MaxEdits = 1
    MaxStops = 1
SPECIFICATION MCSpec
INVARIANT PlanTypeOK
INVARIANT RootAwaitsSubtasks
PROPERTY PlanFitsText
PROPERTY TriageIsReached
CHECK_DEADLOCK FALSE
