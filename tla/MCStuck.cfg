CONSTANTS
    Board = {b1}
    Removable = {}
    Run = {r1, r2}
    Third = r2
    Attempt = {}
    Path = {p1}
    Wanted = {p1}
    Registration = {TRUE}
    Limit = 1
    None = None
SPECIFICATION DeletionSpec
CHECK_DEADLOCK FALSE
INVARIANT LeasesCanPass
