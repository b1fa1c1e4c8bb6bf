CONSTANTS
    Task = {t1}
    Run = {r1}
    None = None
    Reason = {other}
    AuthReason = {}
    MaxRetries = 2
    TaskLimits = {2}
    FailureLimits = {0}
    Kinds = {"needs_input"}
    Outcomes = {"failed", "reclaimed", "crashed", "timed_out", "rate_limited", "spawn_failed", "protocol_violation"}
    Schedules = {"none"}
    Workspaces = {"dir", "worktree"}
    EditStatuses = {"ready"}
    Goal = {}
    Limited = {t1}
    PromptLaunch = TRUE
    Ambiguous = TRUE
    HealthWriteFails = FALSE
    FailureLimit = 0
    MaxStops = 2
SPECIFICATION DispatchSpec
CHECK_DEADLOCK FALSE
INVARIANT FinalizationUndisturbed
