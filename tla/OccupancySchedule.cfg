\* Two changes of the settings, restarts, and a room whose count comes and goes.
SPECIFICATION Spec
CONSTANTS
    p1 = p1  p2 = p2  r1 = r1
    None = None
    Puts = {p1, p2}
    Requests <- MCRequests
    Keys = {"interval", "other"}
    IntervalKey = "interval"
    Values <- MCValues
    Default = 1
    MinutesPerHour = 6
    Rooms = {r1}
    Counts = {0, 20}
    DefaultMin <- MCDefaultMin
    DefaultMax = 20
    BelowMin <- MCBelowMin
    AboveMax = 8
    MaxChecks = 1
    MaxFailures = 1
    MaxStarts = 2
INVARIANTS
    AcceptedPutHolds
    StartUsesAcceptedInterval
    TicksWithinInterval
PROPERTY
    OutOfRangeTold
