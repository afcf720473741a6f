\* Every listing, walked, jumped into or asked for a room's page, while rows are
\* stored, a room is renamed, tokens expire and queries fail.
SPECIFICATION Spec
CONSTANTS
    r1 = r1  r2 = r2  r3 = r3
    None = None
    Kinds = {"logs", "plates", "inbox", "rooms"}
    Modes = {"walk", "jump", "find"}
    Rows <- MCRows
    InitialLogs <- MCInitialLogs
    InitialNumbers <- MCInitialNumbers
    Rooms = {r1, r2, r3}
    Numbers = {0, 1, 2, 3, 4}
    Hits = {2, 3}
    Filters <- MCFilters
    NoFilter <- MCNoFilter
    PageSizes = {0, 1, 2}
    Pages = {0, 7}
    MaxRows = 4
INVARIANTS
    WalkShowsEachRowOnce
    ScreenComplete
    FoundPageShowsRoom
    NoEmptyPage
