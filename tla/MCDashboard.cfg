CONSTANTS
    Controller = {c1}
    Cli = Cli
    Dispatcher = {d1, d2}
    Request = {q1, q2}
    Config = {on, off}
    AutoStart = {on}
    None = None
    TTL = 3
    MaxAge = 2
    Task = {t1, t2}
    File = {f1, f2}
    Issue = {n1, n2}
    Importer = {i1, i2}
    Null = Null
SPECIFICATION DashboardSpec
CHECK_DEADLOCK FALSE
INVARIANT OneSupervisor
INVARIANT OneGeneration
INVARIANT RunsSavedConfig
INVARIANT FilesMatchRows
INVARIANT ImportsAreComplete
PROPERTY Failover
