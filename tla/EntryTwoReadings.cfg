\* One unlock and two readings, every interleaving, any handler may die, while an admin
\* recounts a room.
SPECIFICATION Spec
SYMMETRY Symmetry
CONSTANTS
    u1 = u1  u2 = u2  s1 = s1  s2 = s2
    ann = ann  bob = bob  r1 = r1  r2 = r2  n1 = n1  n2 = n2  n3 = n3
    None = None
    UnlockReqs = {u1}
    SensorReqs = {s1, s2}
    Users = {ann, bob}
    NumberOf <- MCNumberOf
    Rooms = {r1, r2}
    Numbers = {n1, n2}
    Capacities = {1}
    Recounts = {2}
    Editable = {r1}
    UnlockPayloads <- MCOneUnlock
    SensorPayloads <- MCSensorPayloads
    Debounce = 1
    TwPending = 3
    TwUnconfirmed = 24
    TwSensor = 10
INVARIANTS
    ConfirmedEventCounted
    EventClaimedTwiceOnlyByOverlap
    UnmatchedOnlyByOverlap
    OverCapacityReported
    ShownIsCurrent
    ReadingStored
PROPERTIES
    KeepsLedger
