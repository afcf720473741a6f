\* Deliveries of one unlock within the debounce window.
SPECIFICATION Spec
SYMMETRY Symmetry
CONSTANTS
    u1 = u1  u2 = u2  s1 = s1  s2 = s2
    ann = ann  bob = bob  r1 = r1  r2 = r2  n1 = n1  n2 = n2  n3 = n3
    None = None
    UnlockReqs = {u1, u2}
    SensorReqs = {s1}
    Users = {ann, bob}
    NumberOf <- MCNumberOf
    Rooms = {r1, r2}
    Numbers = {n1, n2}
    Capacities = {1}
    Recounts = {}
    Editable = {}
    UnlockPayloads <- MCUnlockPayloads
    SensorPayloads <- MCSensorPayloads
    Debounce = 1
    TwPending = 3
    TwUnconfirmed = 24
    TwSensor = 10
INVARIANT
    DuplicateLeavesNoEvent
