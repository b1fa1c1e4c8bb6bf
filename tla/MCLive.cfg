CONSTANTS
    Task = {t1}
    Run = {r1}
    None = None
    Reason = {other}
    AuthReason = {}
    MaxRetries = 2
    TaskLimits = {2}
    FailureLimits = {0}
    Kinds = {"needs_input"}
    Outcomes = {"failed", "reclaimed", "crashed", "timed_out", "rate_limited", "spawn_failed", "protocol_violation"}
    Schedules = {"none"}
    Workspaces = {"worktree"}
    EditStatuses = {"ready"}
    Goal = {t1}
    Limited = {t1}
    PromptLaunch = FALSE
    Ambiguous = FALSE
    HealthWriteFails = FALSE
    FailureLimit = 0
    MaxStops = 1
    b1 = b1
    r1 = r1
    a1 = a1
    p1 = p1
SPECIFICATION LiveSpec
CHECK_DEADLOCK FALSE
PROPERTY GoalNeedsJudge
PROPERTY RunsEnd
PROPERTY RemovalsRecovered
