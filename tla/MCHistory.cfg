CONSTANTS
    Task = {t1, t2}
    Run = {r1, r2}
    None = None
    Reason = {auth, other}
    AuthReason = {auth}
    MaxRetries = 2
    TaskLimits = {1, 2}
    FailureLimits = {0, 1, 2}
    Kinds = {"none", "dependency", "needs_input"}
    Outcomes = {"timed_out"}
    Schedules = {"none", "past", "future"}
    Workspaces = {"worktree"}
    EditStatuses = {"ready", "done"}
SPECIFICATION HistorySpec
SYMMETRY Symmetry
CHECK_DEADLOCK FALSE
INVARIANT RunOwnership
INVARIANT OutcomeMatchesRequest
INVARIANT ExhaustedNotRetried
INVARIANT ReopenedTaskClaimable
PROPERTY RunsAreFenced
PROPERTY LastPrerequisiteWakes
PROPERTY OnlyCompletionOrphans
PROPERTY EndedRunsFrozen
