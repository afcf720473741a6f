\* Two alerts and two subscriptions of one browser, accounts created meanwhile.
SPECIFICATION Spec
SYMMETRY PushSymmetry
CONSTANTS
    ann = ann  bob = bob  eve = eve  d1 = d1  d2 = d2
    r1 = r1  r2 = r2  s1 = s1  s2 = s2  e1 = e1
    None = None
    Deliveries = {d1, d2}
    Readers = {}
    Subscribers = {s1, s2}
    Accounts = {ann, eve}
    Admins = {ann}
    Endpoints = {e1}
    Published = {"ROOM_CAPACITY_EXCEEDED", "SEND_ADMINS"}
INVARIANTS
    TypeOK
    ActiveEndpointsTried
    DeactivatedOnlyWhenGone
PROPERTY
    FirstOwnerKeepsEndpoint
