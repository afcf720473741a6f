---------------------------- MODULE LicensePlates ----------------------------
(***************************************************************************)
(* The plate camera beside the lock and the sensor:                        *)
(* LicensePlateService.handleLicensePlate reads log_events while the       *)
(* handlers of EntryMatching store and confirm its rows, and writes        *)
(* vehicle_entry_logs.  A passage is one POST of the camera; `at` is its   *)
(* program counter, and an action is one query with the code up to the     *)
(* next await.  The whole handler is one try block: an error ends it and   *)
(* is only logged.                                                         *)
(***************************************************************************)
EXTENDS EntryMatching

CONSTANTS
    Passages,         \* POST /license-plate deliveries
    PassagePayloads,  \* records [plate, ts, elec] the camera may send
    Plates,           \* licence plates
    Vehicles,         \* rows of vehicle_license_plates with their vehicle and room link
    TwVehicle,        \* twCheckEventLockVehicleEntry, 180 s
    RoomOne           \* the id 1 a passage without any event is connected to

PassagePayload == [plate : Plates, ts : Int, elec : BOOLEAN]

\* The enums VehicleStatus, VehicleLicensePlateStatus and VehicleRoomStatus.
Vehicle ==
    [plate : Plates,
     status : {"ACTIVE", "INACTIVE", "STOLEN"},
     link : {"PENDING", "ACTIVE", "INACTIVE", "REVOKED", "TRANSFERRED", "LOST"},
     roomLink : {"PENDING", "ACTIVE", "INACTIVE", "EXPIRED", "BLACKLISTED"}]

ASSUME PassageAssumption ==
    /\ PassagePayloads \subseteq PassagePayload
    /\ Vehicles \subseteq Vehicle
    /\ None \notin PassagePayload \cup Vehicle
    /\ TwVehicle \in Nat

PassageSteps ==
    {"findVehicle", "findPending", "askStatus", "findLast", "lookUpRoom", "createEntry",
     "sendEntry"}

VARIABLES
    entryLog,   \* vehicle_entry_logs.roomId of the row of a passage
    entrySent,  \* passages whose row was emitted to the admins
    told,       \* the vehicle alert a passage published
    at,         \* where a passage's handler is
    passage,    \* its payload
    vehicle,    \* licensePlateVehicle
    opener,     \* logEventLockRecent or unlockEventRecent
    gate,       \* how the gate came to be open: hasEventTTLock, or left open
    entryRoom,  \* historyInfo.room
    errored,    \* passages that ended in the catch block or with a restart
    settled     \* history: entry requests at rest when a passage arrived

plateVars == <<entryLog, entrySent, told, at, passage, vehicle, opener, gate, entryRoom,
               errored, settled>>

Alert == [about : {"listed", "stolen", "unregistered", "known"},
          gate : {"opened", "leftOpen", "unknown"},
          room : Numbers \cup {None}]

ASSUME AlertAssumption == None \notin Alert

PlatesTypeOK ==
    /\ entryLog \in [Passages -> Rooms \cup {None}]
    /\ entrySent \subseteq Passages
    /\ told \in [Passages -> Alert \cup {None}]
    /\ at \in [Passages -> {"idle", "done"} \cup PassageSteps]
    /\ passage \in [Passages -> PassagePayload \cup {None}]
    /\ vehicle \in [Passages -> Vehicles \cup {None}]
    /\ opener \in [Passages -> UnlockReqs \cup {None}]
    /\ gate \in [Passages -> {"opened", "leftOpen", "unknown"}]
    /\ entryRoom \in [Passages -> Rooms \cup {RoomOne, None}]
    /\ errored \subseteq Passages
    /\ settled \in [Passages -> SUBSET Reqs]

PlatesInit ==
    /\ Init
    /\ entryLog = [p \in Passages |-> None]
    /\ entrySent = {}
    /\ told = [p \in Passages |-> None]
    /\ at = [p \in Passages |-> "idle"]
    /\ passage = [p \in Passages |-> None]
    /\ vehicle = [p \in Passages |-> None]
    /\ opener = [p \in Passages |-> None]
    /\ gate = [p \in Passages |-> "unknown"]
    /\ entryRoom = [p \in Passages |-> None]
    /\ errored = {}
    /\ settled = [p \in Passages |-> {}]

-----------------------------------------------------------------------------

Step(p, from, to) == at[p] = from /\ at' = [at EXCEPT ![p] = to]

ReceivePassage(p) ==
    /\ Step(p, "idle", "findVehicle")
    /\ \E payload \in PassagePayloads : passage' = [passage EXCEPT ![p] = payload]
    /\ settled' = [settled EXCEPT ![p] = {h \in Reqs : AtRest(h)}]
    /\ UNCHANGED <<entryLog, entrySent, told, vehicle, opener, gate, entryRoom, errored>>

\* vehicleLicensePlate.findFirst: any row of the plate.
FindVehicle(p) ==
    LET rows == {v \in Vehicles : v.plate = passage[p].plate}
    IN  /\ Step(p, "findVehicle", "findPending")
        /\ \E v \in IF rows = {} THEN {None} ELSE rows :
              vehicle' = [vehicle EXCEPT ![p] = v]
        /\ UNCHANGED <<entryLog, entrySent, told, passage, opener, gate, entryRoom,
                       errored, settled>>

\* logEventUnlock.findFirst: any PENDING event within the window, on either side.
WindowEvents(p) == PendingEvents(passage[p].ts - TwVehicle, passage[p].ts + TwVehicle)

\* Mutation: the window reaches into the past only.
FindPendingBefore(p) ==
    LET events == PendingEvents(passage[p].ts - TwVehicle, passage[p].ts)
    IN  /\ \/ /\ Step(p, "findPending", "lookUpRoom")
              /\ \E u \in events : opener' = [opener EXCEPT ![p] = u]
              /\ gate' = [gate EXCEPT ![p] = "opened"]
           \/ /\ Step(p, "findPending", "askStatus")
              /\ events = {}
              /\ UNCHANGED <<opener, gate>>
        /\ UNCHANGED <<entryLog, entrySent, told, passage, vehicle, entryRoom, errored,
                       settled>>

\* Mutation: an event of any time counts as the opening of the gate.
FindAnyPending(p) ==
    LET events == {u \in UnlockReqs : event[u] = "pending"}
    IN  /\ \/ /\ Step(p, "findPending", "lookUpRoom")
              /\ \E u \in events : opener' = [opener EXCEPT ![p] = u]
              /\ gate' = [gate EXCEPT ![p] = "opened"]
           \/ /\ Step(p, "findPending", "askStatus")
              /\ events = {}
              /\ UNCHANGED <<opener, gate>>
        /\ UNCHANGED <<entryLog, entrySent, told, passage, vehicle, entryRoom, errored,
                       settled>>

FindPending(p) ==
    /\ \/ /\ Step(p, "findPending", "lookUpRoom")
          /\ \E u \in WindowEvents(p) : opener' = [opener EXCEPT ![p] = u]
          /\ gate' = [gate EXCEPT ![p] = "opened"]
       \/ /\ Step(p, "findPending", "askStatus")
          /\ WindowEvents(p) = {}
          /\ UNCHANGED <<opener, gate>>
    /\ UNCHANGED <<entryLog, entrySent, told, passage, vehicle, entryRoom, errored, settled>>

\* getStatusLock of ttlock.util.ts: the gate was open a minute ago, or it was
\* locked, or the cloud gave no answer.
AskGateStatus(p) ==
    /\ Step(p, "askStatus", "findLast") \/ Step(p, "askStatus", "createEntry")
    /\ UNCHANGED <<entryLog, entrySent, told, passage, vehicle, opener, gate, entryRoom,
                   errored, settled>>

\* Mutation: only a PENDING event counts, as in the query before.
FindLastPending(p) ==
    LET earlier == {u \in UnlockReqs : event[u] = "pending" /\ req[u].date < passage[p].ts}
        last    == {u \in earlier : \A v \in earlier : req[v].date <= req[u].date}
    IN  /\ \/ /\ Step(p, "findLast", "lookUpRoom")
              /\ \E u \in last : opener' = [opener EXCEPT ![p] = u]
              /\ gate' = [gate EXCEPT ![p] = "leftOpen"]
              /\ UNCHANGED entryRoom
           \/ /\ Step(p, "findLast", "createEntry")
              /\ last = {}
              /\ entryRoom' = [entryRoom EXCEPT ![p] = RoomOne]
              /\ UNCHANGED <<opener, gate>>
        /\ UNCHANGED <<entryLog, entrySent, told, passage, vehicle, errored, settled>>

\* The last event before the passage, whatever its status; without one, room 1.
FindLast(p) ==
    LET last == LatestEvents(passage[p].ts)
    IN  /\ \/ /\ Step(p, "findLast", "lookUpRoom")
              /\ \E u \in last : opener' = [opener EXCEPT ![p] = u]
              /\ gate' = [gate EXCEPT ![p] = "leftOpen"]
              /\ UNCHANGED entryRoom
           \/ /\ Step(p, "findLast", "createEntry")
              /\ last = {}
              /\ entryRoom' = [entryRoom EXCEPT ![p] = RoomOne]
              /\ UNCHANGED <<opener, gate>>
        /\ UNCHANGED <<entryLog, entrySent, told, passage, vehicle, errored, settled>>

\* Mutation: the row is connected by the room's number in place of its id.
ConnectByNumber(p) ==
    /\ Step(p, "lookUpRoom", "createEntry")
    /\ entryRoom' = [entryRoom EXCEPT ![p] = NumberOf[req[opener[p]].user]]
    /\ UNCHANGED <<entryLog, entrySent, told, passage, vehicle, opener, gate, errored,
                   settled>>

\* parseRoomNumberByKey and getRoomByCodeNumber; without a room the handler returns.
LookUpOpenersRoom(p) ==
    LET owned == RoomsOf(req[opener[p]].user)
    IN  /\ \/ /\ Step(p, "lookUpRoom", "createEntry")
              /\ \E r \in owned : entryRoom' = [entryRoom EXCEPT ![p] = r]
           \/ /\ Step(p, "lookUpRoom", "done")
              /\ owned = {}
              /\ UNCHANGED entryRoom
        /\ UNCHANGED <<entryLog, entrySent, told, passage, vehicle, opener, gate, errored,
                       settled>>

\* vehicleEntryLog.create needs a room: it rejects without one, and when there is
\* no room with the id 1.
CreateEntry(p) ==
    /\ \/ /\ Step(p, "createEntry", "sendEntry")
          /\ entryRoom[p] \in Rooms
          /\ entryLog' = [entryLog EXCEPT ![p] = entryRoom[p]]
          /\ UNCHANGED errored
       \/ /\ Step(p, "createEntry", "done")
          /\ entryRoom[p] \notin Rooms
          /\ errored' = errored \cup {p}
          /\ UNCHANGED entryLog
    /\ UNCHANGED <<entrySent, told, passage, vehicle, opener, gate, entryRoom, settled>>

\* The status of the link to the plate is compared with BLACKLISTED, a member of
\* the enum of the link to the room.
Blacklisted(v) == v.link = "BLACKLISTED"

About(v) ==
    CASE v = None -> "unregistered"
      [] v # None /\ Blacklisted(v) -> "listed"
      [] v # None /\ ~Blacklisted(v) /\ v.status = "STOLEN" -> "stolen"
      [] OTHER -> "known"

\* isSendNotification
Alarming(p) ==
    \/ gate[p] = "leftOpen"
    \/ About(vehicle[p]) # "known"
    \/ passage[p].elec

\* Mutation: roomNumberOpened is not set when the gate was left open.
NumberOfWindowOpener(p) ==
    IF gate[p] = "opened" THEN NumberOf[req[opener[p]].user] ELSE None

\* The number of the room that was looked up; it stays '' where none is, in the branch
\* that connects the row to room 1.
RoomNumberOpened(p) ==
    IF gate[p] = "unknown" THEN None ELSE NumberOf[req[opener[p]].user]

\* sendNewLog (getAdmins and the emission), then the alert is published.
SendEntry(p) ==
    /\ Step(p, "sendEntry", "done")
    /\ entrySent' = entrySent \cup {p}
    /\ told' = [told EXCEPT ![p] =
          IF Alarming(p)
          THEN [about |-> About(vehicle[p]), gate |-> gate[p], room |-> RoomNumberOpened(p)]
          ELSE None]
    /\ UNCHANGED <<entryLog, passage, vehicle, opener, gate, entryRoom, errored, settled>>

\* A query rejects, or the process restarts: the handler is over.
FailPassage(p) ==
    /\ at[p] \in PassageSteps
    /\ at' = [at EXCEPT ![p] = "done"]
    /\ errored' = errored \cup {p}
    /\ UNCHANGED <<entryLog, entrySent, told, passage, vehicle, opener, gate, entryRoom,
                   settled>>

PassageNext ==
    \E p \in Passages :
        \/ ReceivePassage(p) \/ FindVehicle(p) \/ FindPending(p) \/ AskGateStatus(p)
        \/ FindLast(p) \/ LookUpOpenersRoom(p) \/ CreateEntry(p) \/ SendEntry(p)
        \/ FailPassage(p)

PlatesNext ==
    \/ PassageNext /\ UNCHANGED vars
    \/ Next /\ UNCHANGED plateVars

PlatesSpec == PlatesInit /\ [][PlatesNext]_<<vars, plateVars>>

-----------------------------------------------------------------------------

Handled(p) == at[p] = "done" /\ p \notin errored

InWindow(u, p) == req[u].date \in (passage[p].ts - TwVehicle)..(passage[p].ts + TwVehicle)

\* When an unlock next to a passage was handled before it, and no reading has
\* claimed its event, the passage is logged on the room of an unlock in the window
\* and never put down to a gate left open.  (No room is renamed, every user has one.)
PassageOfUnlockLogged ==
    \A p \in Passages, u \in UnlockReqs :
        (/\ Handled(p)
         /\ u \in settled[p] /\ event[u] = "pending" /\ InWindow(u, p)
         /\ edited = {}
         /\ \A v \in UnlockReqs : event[v] # "none" => RoomsOf(req[v].user) # {})
        => /\ gate[p] = "opened"
           /\ \E v \in UnlockReqs :
                 event[v] # "none" /\ InWindow(v, p) /\ entryLog[p] \in RoomsOf(req[v].user)

\* A passage is put down to an unlock only if that unlock is a stored event: of the
\* window when it opened the gate, earlier than the passage when the gate was left open.
OpenerIsStored ==
    \A p \in Passages :
        opener[p] # None
            => /\ event[opener[p]] # "none"
               /\ (gate[p] = "opened" => InWindow(opener[p], p))
               /\ (gate[p] = "leftOpen" => req[opener[p]].date < passage[p].ts)

\* Alerts and log agree: an alert follows the row of its passage and, while no room is
\* renamed, names the room of that row; but when no unlock explains the passage the row
\* is put on room 1 and the alert names no room.  A logged passage of an unregistered or
\* stolen vehicle is alerted, unless its handler died between the row and the alert.
AlertsMatchLog ==
    \A p \in Passages :
        /\ told[p] # None =>
              /\ p \in entrySent
              /\ told[p].gate = "unknown" => told[p].room = None /\ entryLog[p] = RoomOne
              /\ told[p].gate # "unknown" /\ edited = {} =>
                    told[p].room = roomNumber[entryLog[p]]
        /\ (/\ Handled(p) /\ entryLog[p] # None
            /\ vehicle[p] = None \/ vehicle[p].status = "STOLEN")
           => told[p] # None

\* No room is blamed for a gate that a later one left open: an alert that the gate was
\* still open since last time never passes over an unlock that was handled before the
\* passage, whatever became of its event since.
LastOpenerBlamed ==
    \A p \in Passages, u \in UnlockReqs :
        (/\ told[p] # None /\ told[p].gate = "leftOpen"
         /\ u \in settled[p] /\ event[u] # "none" /\ req[u].date < passage[p].ts)
        => \E v \in UnlockReqs :
              /\ event[v] # "none" /\ req[v].date \in req[u].date..(passage[p].ts - 1)
              /\ told[p].room = NumberOf[req[v].user]

\* The log line "is blacklisted. Access denied." and the schema's BLACKLISTED: a
\* logged passage of a vehicle that is blacklisted is alerted as one.
BlacklistedReported ==
    \A p \in Passages :
        (/\ Handled(p) /\ entryLog[p] # None
         /\ vehicle[p] # None /\ vehicle[p].roomLink = "BLACKLISTED")
        => told[p] # None /\ told[p].about = "listed"
=============================================================================
