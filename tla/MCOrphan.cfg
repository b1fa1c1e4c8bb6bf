CONSTANTS
    Task = {t1}
    Run = {r1, r2}
    None = None
    Reason = {}
    AuthReason = {}
    MaxRetries = 1
    TaskLimits = {1}
    FailureLimits = {0}
    Kinds = {}
    Outcomes = {}
    Schedules = {"none"}
    Workspaces = {}
    EditStatuses = {}
SPECIFICATION OrphanSpec
INVARIANT NoOrphanRun
CHECK_DEADLOCK FALSE
