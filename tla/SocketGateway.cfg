\* Sockets of two users open, authenticate, join and close in every order.
SPECIFICATION Spec
SYMMETRY Symmetry
CONSTANTS
    ann = ann  bob = bob  c1 = c1  c2 = c2  c3 = c3
    None = None
    Users = {ann, bob}
    Sockets = {c1, c2, c3}
INVARIANTS
    TypeOK
    OpenSocketsReachable
    DeadSocketsOnlyByRace
    OnlineHasSocket
    OnlyOwnPayloads
