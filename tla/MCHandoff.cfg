CONSTANTS
    Task = {t1, t2, t3}
    Run = {r1, r2}
    None = None
    Reason = {}
    AuthReason = {}
    MaxRetries = 1
    TaskLimits = {1}
    FailureLimits = {0}
    Kinds = {}
    Outcomes = {}
    Schedules = {"none"}
    Workspaces = {}
    EditStatuses = {"todo", "done"}
SPECIFICATION HandoffSpec
SYMMETRY Symmetry
CHECK_DEADLOCK FALSE
INVARIANT PrerequisitesSound
PROPERTY HandoffsKept
