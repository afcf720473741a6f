\* The same instance as NotifyAdmins: no listener takes GATE_LEFT_OPEN.
SPECIFICATION Spec
CONSTANTS
    ann = ann  bob = bob  eve = eve  d1 = d1  d2 = d2
    r1 = r1  r2 = r2  s1 = s1  s2 = s2  e1 = e1
    None = None
    Deliveries = {d1}
    Readers = {r1}
    Subscribers = {}
    Accounts = {ann, bob}
    Admins = {ann, bob}
    Endpoints = {}
    Published = {"ROOM_CAPACITY_EXCEEDED", "FREQUENT_GATE_ACCESS_FOR_OTHERS", "GATE_LEFT_OPEN"}
INVARIANT
    EveryAlertInformsAdmins
