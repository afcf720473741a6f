\* One alert and two readers, accounts created meanwhile: storing, emitting,
\* reading, with every failure.
SPECIFICATION FairSpec
CONSTANTS
    ann = ann  bob = bob  eve = eve  d1 = d1  d2 = d2
    r1 = r1  r2 = r2  s1 = s1  s2 = s2  e1 = e1
    None = None
    Deliveries = {d1}
    Readers = {r1, r2}
    Subscribers = {}
    Accounts = {ann, bob}
    Admins = {ann, bob}
    Endpoints = {}
    Published = {"ROOM_CAPACITY_EXCEEDED", "FREQUENT_GATE_ACCESS_FOR_OTHERS", "GATE_LEFT_OPEN"}
INVARIANTS
    EmittedHasRow
    AdminsInformed
PROPERTIES
    ReadByItsOwner
    AlertsReachInboxes
    KeepsInboxes
