CONSTANTS
    Target = {s1}
    Pass = {p1, p2}
    Interests <- TwoInterests
    Nothing = Nothing
    MaxEvents = 2
    Limit = 1
    LeaseTicks = 1
    SendTicks = 0
    None = None
    Boards = 2
    Profile = {x, y, z, w}
    Task = {t1, t2}
    BoardOf <- FirstAndSecond
    Desired <- ForFirstAndSecond
    Cap <- One
    Registered = {x, y}
    Candidates <- FirstThenSecond
    MaxWorkers = 1
    MaxMishaps = 1
    x = x
    y = y
    z = z
    w = w
    t1 = t1
    t2 = t2
SPECIFICATION ServiceSpec
CHECK_DEADLOCK FALSE
INVARIANT SelectsNearest
PROPERTY NothingOwedIsLost
PROPERTY SentOnce
PROPERTY OwedIsDelivered
PROPERTY BoardsShare
