\* A passage of the camera next to an unlock and a reading, while an admin renames a room.
SPECIFICATION PlatesSpec
CONSTANTS
    u1 = u1  u2 = u2  s1 = s1  p1 = p1
    ann = ann  bob = bob  r1 = r1  r2 = r2  r3 = r3  n1 = n1  n2 = n2  n3 = n3
    plain = plain  stolen = stolen  stranger = stranger
    None = None
    UnlockReqs = {u1}
    SensorReqs = {s1}
    Passages = {p1}
    Users = {ann, bob}
    NumberOf <- MCNumberOf
    Rooms = {r1, r2}
    RoomOne = r2
    Numbers = {n1, n2, n3}
    Capacities = {1}
    Recounts = {}
    Editable = {r1}
    UnlockPayloads <- MCUnlockPayloads
    SensorPayloads <- MCSensorPayloads
    PassagePayloads <- MCPassagePayloads
    Plates = {plain, stolen, stranger}
    Vehicles <- MCVehicles
    Debounce = 1
    TwPending = 3
    TwUnconfirmed = 24
    TwSensor = 10
    TwVehicle = 36
INVARIANTS
    PlatesTypeOK
    PassageOfUnlockLogged
    OpenerIsStored
    AlertsMatchLog
