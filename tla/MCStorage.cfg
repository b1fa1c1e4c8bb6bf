CONSTANTS
    Board = {b1, b2}
    Removable = {b1}
    Run = {r1, r2, r3}
    Third = r3
    Attempt = {a1}
    Path = {p1}
    Wanted = {p1, None}
    Registration = {TRUE, FALSE}
    Limit = 1
    None = None
    Task <- TreeTasks
    Before <- TreeLinks
    Configured <- TreeKinds
    Direct = {ta}
    Writes <- TreeWrites
    Integrated = {r1}
    Card <- Cards
    Order <- CardOrder
    Search = {"all", "one"}
    NoSearch = "all"
    Matches <- Found
    MaxVersion = 2
    MaxKeys = 3
    MaxLoads = 2
    MaxFailures = 1
    Columns <- CardColumns
    Actions = {"create", "edit", "comment", "archive", "delete", "terminate"}
    ta = ta
    tb = tb
    tc = tc
    td = td
    te = te
    r1 = r1
    r2 = r2
    r3 = r3
SPECIFICATION StorageSpec
CHECK_DEADLOCK FALSE
INVARIANT CapacityHeld
INVARIANT OneWriter
INVARIANT GoneBoardsOwnNothing
INVARIANT HandoffComplete
INVARIANT InputHitsItsTarget
INVARIANT ListMatchesView
PROPERTY FanInIsSound
PROPERTY SelectionStays
PROPERTY WorkIsHandedOver
