---------------------------- MODULE EntryMatching ----------------------------
(***************************************************************************)
(* The matching of unlock events with gate-sensor readings.                *)
(*                                                                         *)
(* AccessCardService.handleUnlockEvent and SensorService.handleSensorEvent *)
(* run as many concurrent requests over the same MySQL tables, with no     *)
(* transaction: every `await` is a point where another handler may run or  *)
(* this one may fail for good.  A handler therefore is a program counter,  *)
(* and each action below is the code from one await to the next.           *)
(*                                                                         *)
(* A request writes at most one row of each table, so log_events,          *)
(* log_sensors and access_logs are functions of the request that writes.   *)
(***************************************************************************)
EXTENDS Integers, FiniteSets, Functions

CONSTANTS
    UnlockReqs,      \* POST /access-cards/unlock deliveries
    SensorReqs,      \* POST /sensors/unlock deliveries
    UnlockPayloads,  \* records [user, date, kind] a delivery may carry
    SensorPayloads,  \* records [in, out, ts] a reading may carry
    Users,           \* (keyboardPwd, userName) pairs
    NumberOf,        \* the room number in front of the '.' of a user name
    Rooms,           \* ids of the rows of table rooms
    Numbers,         \* room numbers
    Capacities,      \* values PATCH /rooms may give to capacity
    Recounts,        \* values PATCH /rooms may give to currentPeople
    Editable,        \* bound: the rooms an admin edits, each of them once
    Debounce,        \* DEBOUNCE_EVENT_UNLOCK_TTL, 5 s
    TwPending,       \* twPending, 15 s
    TwUnconfirmed,   \* twUnconfirmed, 2 min
    TwSensor,        \* the literal 50 s of handleSensorEvent
    None             \* undefined / null

Reqs == UnlockReqs \cup SensorReqs

\* The record types handleUnlockEvent goes on with.
AcceptedKinds == {"card", "fingerprint", "password"}
\* Failed attempts, other record types, other notifications.
IgnoredKinds  == {"failed", "otherRecord", "otherNotification"}

UnlockPayload == [user : Users, date : Int, kind : AcceptedKinds \cup IgnoredKinds]
SensorPayload == [in : Int, out : Int, ts : Int]
AccessLog     == [room : Rooms, in : Int, out : Int]
UpdatedRoom   == [people : Int, capacity : Int]

ASSUME ReqsAssumption ==
    /\ IsFiniteSet(SensorReqs)
    /\ UnlockReqs \cap SensorReqs = {}
    /\ None \notin UnlockPayload \cup SensorPayload \cup Rooms \cup UpdatedRoom

ASSUME LogAssumption == None \notin AccessLog

ASSUME PayloadAssumption ==
    /\ UnlockPayloads \subseteq UnlockPayload
    /\ SensorPayloads \subseteq SensorPayload
    /\ NumberOf \in [Users -> Numbers]

ASSUME RoomAssumption ==
    /\ Editable \subseteq Rooms
    /\ Capacities \subseteq Int
    /\ Recounts \subseteq Int

ASSUME WindowAssumption ==
    /\ {Debounce, TwPending, TwUnconfirmed, TwSensor} \subseteq Nat
    /\ TwPending <= TwSensor

VARIABLES
    event,         \* log_events.status of the row of an unlock request
    sensor,        \* log_sensors.status of the row of a sensor request
    accessLog,     \* access_logs row written by a request
    roomNumber,    \* rooms.roomNumber
    capacity,      \* rooms.capacity
    currentPeople, \* rooms.currentPeople
    shown,         \* the last count emitted to the admins' sockets, by room
    pc,            \* where a request's handler is
    req,           \* its payload
    found,         \* rows it read: sensor rows, or the one event row
    room,          \* roomByRoomNumber
    status,        \* the status it is going to write
    updated,       \* roomUpdated: the row returned by room.update
    published,     \* notifications it published
    failed,        \* requests whose handler threw (their pc stays)
    before,        \* history: requests at rest when a request arrived
    edited,        \* history and bound: rooms PATCHed by an admin
    corrected      \* history: what those edits added to currentPeople

tables  == <<event, sensor, accessLog>>
rooms   == <<roomNumber, capacity, currentPeople>>
locals  == <<req, found, room, status, updated>>
effects == <<shown, published>>
history == <<before, edited, corrected>>
vars    == <<tables, rooms, effects, locals, history, pc, failed>>

UnlockSteps == {"debounce", "lookUpRoom", "readUnconfirmed", "readPending",
                "confirmSensors", "addPeople", "sendTenant", "createLog",
                "sendLog", "createEvent"}
SensorSteps == {"findEvent", "askStatus", "findRecent", "askHistory",
                "lookUpRoom", "addPeople", "sendTenant", "confirmEvent",
                "createLog", "sendLog", "createSensor"}

NotificationTypes ==
    {"ROOM_CAPACITY_EXCEEDED", "FREQUENT_GATE_ACCESS_FOR_OTHERS", "GATE_LEFT_OPEN"}

TypeOK ==
    /\ event \in [UnlockReqs -> {"none", "pending", "confirmed"}]
    /\ sensor \in [SensorReqs -> {"none", "unconfirmed", "pending", "confirmed"}]
    /\ accessLog \in [Reqs -> AccessLog \cup {None}]
    /\ roomNumber \in [Rooms -> Numbers]
    /\ capacity \in [Rooms -> Int]
    /\ currentPeople \in [Rooms -> Int]
    /\ shown \in [Rooms -> Int]
    /\ pc \in [Reqs -> {"idle", "done"} \cup UnlockSteps \cup SensorSteps]
    /\ req \in [Reqs -> UnlockPayload \cup SensorPayload \cup {None}]
    /\ found \in [Reqs -> SUBSET Reqs]
    /\ room \in [Reqs -> Rooms \cup {None}]
    /\ status \in [Reqs -> {"unconfirmed", "pending", "confirmed"}]
    /\ updated \in [Reqs -> UpdatedRoom \cup {None}]
    /\ published \in [Reqs -> SUBSET NotificationTypes]
    /\ failed \subseteq Reqs
    /\ before \in [Reqs -> SUBSET Reqs]
    /\ edited \subseteq Rooms
    /\ corrected \in [Rooms -> Int]

\* The migrations' initial data: distinct room numbers, nothing logged yet.
Init ==
    /\ event = [u \in UnlockReqs |-> "none"]
    /\ sensor = [s \in SensorReqs |-> "none"]
    /\ accessLog = [h \in Reqs |-> None]
    /\ roomNumber \in {f \in [Rooms -> Numbers] :
                          \A r, q \in Rooms : f[r] = f[q] => r = q}
    /\ capacity \in [Rooms -> Capacities \cap Nat]
    /\ currentPeople = [r \in Rooms |-> 0]
    /\ shown = currentPeople
    /\ pc = [h \in Reqs |-> "idle"]
    /\ req = [h \in Reqs |-> None]
    /\ found = [h \in Reqs |-> {}]
    /\ room = [h \in Reqs |-> None]
    /\ status = [h \in Reqs |-> "pending"]
    /\ updated = [h \in Reqs |-> None]
    /\ published = [h \in Reqs |-> {}]
    /\ failed = {}
    /\ before = [h \in Reqs |-> {}]
    /\ edited = {}
    /\ corrected = [r \in Rooms |-> 0]

-----------------------------------------------------------------------------
(* Helpers.                                                                *)

At(h, step)   == pc[h] = step /\ h \notin failed
Goto(h, step) == pc' = [pc EXCEPT ![h] = step]
AtRest(h)     == pc[h] = "done" \/ h \in failed

\* peopleIn, peopleOut: the sums of the counts of a set of readings.
Total(f)     == FoldFunction(+, 0, f)
PeopleIn(S)  == Total([s \in S |-> req[s].in])
PeopleOut(S) == Total([s \in S |-> req[s].out])
Net(S)       == PeopleIn(S) - PeopleOut(S)

\* The readings a handler counts: the rows it matched, or its own payload.
Counts(h) == IF h \in SensorReqs THEN {h} ELSE found[h]

\* Rows are visible to a query when they exist with the wanted status.
PendingEvents(from, to) ==
    {u \in UnlockReqs : event[u] = "pending" /\ req[u].date \in from..to}
SensorRows(st, from, to) ==
    {s \in SensorReqs : sensor[s] = st /\ req[s].ts \in from..to}
LatestEvents(ts) ==
    LET earlier == {u \in UnlockReqs : event[u] # "none" /\ req[u].date < ts}
    IN  {u \in earlier : \A v \in earlier : req[v].date <= req[u].date}

\* getRoomByCodeNumber(parseRoomNumberByKey(userName))
RoomsOf(user) == {r \in Rooms : roomNumber[r] = NumberOf[user]}

\* Mutation: only the step over the capacity is reported, not being above it.
AlertOnCrossing(row) ==
    IF row.people = row.capacity + 1 THEN {"ROOM_CAPACITY_EXCEEDED"}
    ELSE IF row.people < 0 THEN {"FREQUENT_GATE_ACCESS_FOR_OTHERS"} ELSE {}

\* What a handler publishes about the row room.update returned to it.
OccupancyAlert(row) ==
    IF row.people > row.capacity THEN {"ROOM_CAPACITY_EXCEEDED"}
    ELSE IF row.people < 0 THEN {"FREQUENT_GATE_ACCESS_FOR_OTHERS"} ELSE {}

\* A request arrives with a payload; its handler starts at step.
Arrive(h, payload, step) ==
    /\ At(h, "idle")
    /\ req' = [req EXCEPT ![h] = payload]
    /\ before' = [before EXCEPT ![h] = {g \in Reqs : AtRest(g)}]
    /\ Goto(h, step)
    /\ UNCHANGED <<tables, rooms, effects, found, room, status, updated,
                   edited, corrected, failed>>

\* room.findUnique on the user's number; without a room the handler returns.
LookUpRoom(h, user, step) ==
    /\ At(h, "lookUpRoom")
    /\ \/ \E r \in RoomsOf(user) :
              /\ room' = [room EXCEPT ![h] = r]
              /\ Goto(h, step)
       \/ /\ RoomsOf(user) = {}
          /\ Goto(h, "done")
          /\ UNCHANGED room
    /\ UNCHANGED <<tables, rooms, effects, req, found, status, updated, history, failed>>

\* Mutation: the new count is computed from the count last shown.
AddPeopleToStale(h) ==
    LET r == room[h]
        n == shown[r] + Net(Counts(h))
    IN  /\ At(h, "addPeople")
        /\ currentPeople' = [currentPeople EXCEPT ![r] = n]
        /\ updated' = [updated EXCEPT ![h] = [people |-> n, capacity |-> capacity[r]]]
        /\ Goto(h, "sendTenant")
        /\ UNCHANGED <<tables, roomNumber, capacity, effects, req, found, room,
                       status, history, failed>>

\* room.update({currentPeople: {increment}}): atomic in the database.
AddPeople(h) ==
    LET r == room[h]
        n == currentPeople[r] + Net(Counts(h))
    IN  /\ At(h, "addPeople")
        /\ currentPeople' = [currentPeople EXCEPT ![r] = n]
        /\ updated' = [updated EXCEPT ![h] = [people |-> n, capacity |-> capacity[r]]]
        /\ Goto(h, "sendTenant")
        /\ UNCHANGED <<tables, roomNumber, capacity, effects, req, found, room,
                       status, history, failed>>

\* Mutation: the increment is emitted as the count.
EmitIncrement(h) == shown' = [shown EXCEPT ![room[h]] = Net(Counts(h))]

\* sendUpdateCurrentTenant: the admins are read, then the row in hand is emitted.
EmitTenant(h) == shown' = [shown EXCEPT ![room[h]] = updated[h].people]
Publish(h, types) == published' = [published EXCEPT ![h] = @ \cup types]

\* accessLog.create with the counts of the readings and the handler's room.
CreateLog(h) ==
    /\ At(h, "createLog")
    /\ accessLog' = [accessLog EXCEPT ![h] =
          [room |-> room[h], in |-> PeopleIn(Counts(h)), out |-> PeopleOut(Counts(h))]]
    /\ Goto(h, "sendLog")
    /\ UNCHANGED <<event, sensor, rooms, effects, locals, history, failed>>

-----------------------------------------------------------------------------
(* AccessCardService.handleUnlockEvent                                     *)

ReceiveUnlock(u) ==
    \E p \in UnlockPayloads :
        Arrive(u, p, IF p.kind \in AcceptedKinds THEN "debounce" ELSE "done")

\* Mutation: gt for gte.
DebouncedAfter(u) ==
    \E v \in PendingEvents(req[u].date - Debounce + 1, req[u].date - 1) :
        req[v].user = req[u].user

\* A PENDING event of the same user in [date - 5 s, date) swallows this one.
Debounced(u) ==
    \E v \in PendingEvents(req[u].date - Debounce, req[u].date - 1) :
        req[v].user = req[u].user

DebounceUnlock(u) ==
    /\ At(u, "debounce")
    /\ Goto(u, IF Debounced(u) THEN "done" ELSE "lookUpRoom")
    /\ UNCHANGED <<tables, rooms, effects, locals, history, failed>>

LookUpUnlockRoom(u) == LookUpRoom(u, req[u].user, "readUnconfirmed")

\* Mutation: the window of the pending rows for the unconfirmed ones.
ReadUnconfirmedNearby(u) ==
    /\ At(u, "readUnconfirmed")
    /\ found' = [found EXCEPT ![u] =
          SensorRows("unconfirmed", req[u].date - TwPending, req[u].date)]
    /\ Goto(u, "readPending")
    /\ UNCHANGED <<tables, rooms, effects, req, room, status, updated, history, failed>>

ReadUnconfirmed(u) ==
    /\ At(u, "readUnconfirmed")
    /\ found' = [found EXCEPT ![u] =
          SensorRows("unconfirmed", req[u].date - TwUnconfirmed, req[u].date)]
    /\ Goto(u, "readPending")
    /\ UNCHANGED <<tables, rooms, effects, req, room, status, updated, history, failed>>

\* The second query adds its rows; a nonzero net confirms them all.
ReadPending(u) ==
    LET rows == found[u] \cup
                SensorRows("pending", req[u].date - TwPending, req[u].date + TwPending)
    IN  /\ At(u, "readPending")
        /\ found' = [found EXCEPT ![u] = rows]
        /\ IF Net(rows) # 0
             THEN /\ status' = [status EXCEPT ![u] = "confirmed"]
                  /\ Goto(u, "confirmSensors")
             ELSE /\ Goto(u, "createEvent")
                  /\ UNCHANGED status
        /\ UNCHANGED <<tables, rooms, effects, req, room, updated, history, failed>>

\* Mutation: only the rows of the second query are confirmed.
ConfirmPendingSensors(u) ==
    /\ At(u, "confirmSensors")
    /\ sensor' = [s \in SensorReqs |->
          IF s \in found[u] /\ sensor[s] = "pending" THEN "confirmed" ELSE sensor[s]]
    /\ Goto(u, "addPeople")
    /\ UNCHANGED <<event, accessLog, rooms, effects, locals, history, failed>>

\* logSensor.updateMany({id in logSensorIds}): no condition on the status.
ConfirmSensors(u) ==
    /\ At(u, "confirmSensors")
    /\ sensor' = [s \in SensorReqs |-> IF s \in found[u] THEN "confirmed" ELSE sensor[s]]
    /\ Goto(u, "addPeople")
    /\ UNCHANGED <<event, accessLog, rooms, effects, locals, history, failed>>

SendUnlockTenant(u) ==
    /\ At(u, "sendTenant")
    /\ EmitTenant(u)
    /\ Goto(u, "createLog")
    /\ UNCHANGED <<tables, rooms, published, locals, history, failed>>

\* sendNewLog, and only then the alert about the row updated earlier.
SendUnlockLog(u) ==
    /\ At(u, "sendLog")
    /\ Publish(u, OccupancyAlert(updated[u]))
    /\ Goto(u, "createEvent")
    /\ UNCHANGED <<tables, rooms, shown, locals, history, failed>>

CreateEvent(u) ==
    /\ At(u, "createEvent")
    /\ event' = [event EXCEPT ![u] = status[u]]
    /\ Goto(u, "done")
    /\ UNCHANGED <<sensor, accessLog, rooms, effects, locals, history, failed>>

UnlockStep(u) ==
    \/ DebounceUnlock(u)
    \/ LookUpUnlockRoom(u)
    \/ ReadUnconfirmed(u)
    \/ ReadPending(u)
    \/ ConfirmSensors(u)
    \/ AddPeople(u)
    \/ SendUnlockTenant(u)
    \/ CreateLog(u)
    \/ SendUnlockLog(u)
    \/ CreateEvent(u)

-----------------------------------------------------------------------------
(* SensorService.handleSensorEvent                                         *)

ReceiveSensor(s) == \E p \in SensorPayloads : Arrive(s, p, "findEvent")

\* The event row a sensor handler works with.
EventOf(s) == CHOOSE u \in found[s] : TRUE

\* Mutation: only the events before the reading are looked at.
FindEarlierEvent(s) ==
    LET rows == PendingEvents(req[s].ts - TwSensor, req[s].ts)
    IN  /\ At(s, "findEvent")
        /\ \/ \E u \in rows :
                  /\ found' = [found EXCEPT ![s] = {u}]
                  /\ status' = [status EXCEPT ![s] = "confirmed"]
                  /\ Goto(s, "lookUpRoom")
           \/ /\ rows = {}
              /\ Goto(s, "askStatus")
              /\ UNCHANGED <<found, status>>
        /\ UNCHANGED <<tables, rooms, effects, req, room, updated, history, failed>>

\* Mutation: the event is confirmed as soon as it is found.
FindAndConfirmEvent(s) ==
    LET rows == PendingEvents(req[s].ts - TwSensor, req[s].ts + TwSensor)
    IN  /\ At(s, "findEvent")
        /\ \/ \E u \in rows :
                  /\ found' = [found EXCEPT ![s] = {u}]
                  /\ event' = [event EXCEPT ![u] = "confirmed"]
                  /\ status' = [status EXCEPT ![s] = "confirmed"]
                  /\ Goto(s, "lookUpRoom")
           \/ /\ rows = {}
              /\ Goto(s, "askStatus")
              /\ UNCHANGED <<event, found, status>>
        /\ UNCHANGED <<sensor, accessLog, rooms, effects, req, room, updated, history, failed>>

\* findFirst with no order: any PENDING event of the window may come back.
FindEvent(s) ==
    LET rows == PendingEvents(req[s].ts - TwSensor, req[s].ts + TwSensor)
    IN  /\ At(s, "findEvent")
        /\ \/ \E u \in rows :
                  /\ found' = [found EXCEPT ![s] = {u}]
                  /\ status' = [status EXCEPT ![s] = "confirmed"]
                  /\ Goto(s, "lookUpRoom")
           \/ /\ rows = {}
              /\ Goto(s, "askStatus")
              /\ UNCHANGED <<found, status>>
        /\ UNCHANGED <<tables, rooms, effects, req, room, updated, history, failed>>

\* getStatusLock asks the TTLock cloud; any failure is answered null.
AskStatus(s) ==
    /\ At(s, "askStatus")
    /\ \E answer \in {"unlock", "lock", None} :
          Goto(s, CASE answer = "unlock" -> "findRecent"
                    [] answer = "lock"   -> "askHistory"
                    [] answer = None     -> "createSensor")
    /\ UNCHANGED <<tables, rooms, effects, locals, history, failed>>

\* Mutation: without a latest event the handler returns.
FindRecentOrReturn(s) ==
    /\ At(s, "findRecent")
    /\ \/ \E u \in LatestEvents(req[s].ts) :
              /\ found' = [found EXCEPT ![s] = {u}]
              /\ Goto(s, "lookUpRoom")
       \/ /\ LatestEvents(req[s].ts) = {}
          /\ Goto(s, "done")
          /\ UNCHANGED found
    /\ UNCHANGED <<tables, rooms, effects, req, room, status, updated, history, failed>>

\* The door was already open: the reading is put down to the latest event.
FindRecent(s) ==
    /\ At(s, "findRecent")
    /\ \/ \E u \in LatestEvents(req[s].ts) :
              /\ found' = [found EXCEPT ![s] = {u}]
              /\ Goto(s, "lookUpRoom")
       \/ /\ LatestEvents(req[s].ts) = {}
          /\ Goto(s, "createSensor")
          /\ UNCHANGED found
    /\ UNCHANGED <<tables, rooms, effects, req, room, status, updated, history, failed>>

\* Mutations: the status is left undefined when the cloud fails; an unlock after
\* the reading confirms it.
AskHistoryUndefined(s) ==
    /\ At(s, "askHistory")
    /\ \E total \in {"zero", "some", None} :
          status' = [status EXCEPT ![s] = CASE total = "zero" -> "unconfirmed"
                                            [] total = "some" -> "pending"
                                            [] total = None   -> None]
    /\ Goto(s, "createSensor")
    /\ UNCHANGED <<tables, rooms, effects, req, found, room, updated, history, failed>>
AskHistoryConfirming(s) ==
    /\ At(s, "askHistory")
    /\ \E total \in {"zero", "some", None} :
          status' = [status EXCEPT ![s] = CASE total = "zero" -> "unconfirmed"
                                            [] total = "some" -> "confirmed"
                                            [] total = None   -> @]
    /\ Goto(s, "createSensor")
    /\ UNCHANGED <<tables, rooms, effects, req, found, room, updated, history, failed>>

\* getHistoryUnlock asks for the unlocks after ts + 10 s: none, some or null.
AskHistory(s) ==
    /\ At(s, "askHistory")
    /\ \E total \in {"zero", "some", None} :
          status' = [status EXCEPT ![s] = IF total = "zero" THEN "unconfirmed" ELSE @]
    /\ Goto(s, "createSensor")
    /\ UNCHANGED <<tables, rooms, effects, req, found, room, updated, history, failed>>

LookUpSensorRoom(s) == LookUpRoom(s, req[EventOf(s)].user, "addPeople")

\* A handler that matched a PENDING event confirms it; one that fell back on
\* the latest event becomes CONFIRMED here and reports the open gate.
SendSensorTenant(s) ==
    /\ At(s, "sendTenant")
    /\ EmitTenant(s)
    /\ \/ /\ status[s] = "confirmed"
          /\ Publish(s, OccupancyAlert(updated[s]))
          /\ Goto(s, "confirmEvent")
          /\ UNCHANGED status
       \/ /\ status[s] = "pending"
          /\ Publish(s, OccupancyAlert(updated[s]) \cup {"GATE_LEFT_OPEN"})
          /\ status' = [status EXCEPT ![s] = "confirmed"]
          /\ Goto(s, "createLog")
    /\ UNCHANGED <<tables, rooms, req, found, room, updated, history, failed>>

\* Mutation: the update of the event is missing.
SkipConfirmEvent(s) ==
    /\ At(s, "confirmEvent")
    /\ Goto(s, "createLog")
    /\ UNCHANGED <<tables, rooms, effects, locals, history, failed>>

\* logEventUnlock.update by id: no condition on the status.
ConfirmEvent(s) ==
    /\ At(s, "confirmEvent")
    /\ event' = [event EXCEPT ![EventOf(s)] = "confirmed"]
    /\ Goto(s, "createLog")
    /\ UNCHANGED <<sensor, accessLog, rooms, effects, locals, history, failed>>

SendSensorLog(s) ==
    /\ At(s, "sendLog")
    /\ Goto(s, "createSensor")
    /\ UNCHANGED <<tables, rooms, effects, locals, history, failed>>

CreateSensor(s) ==
    /\ At(s, "createSensor")
    /\ sensor' = [sensor EXCEPT ![s] = status[s]]
    /\ Goto(s, "done")
    /\ UNCHANGED <<event, accessLog, rooms, effects, locals, history, failed>>

\* The steps that wait for the database, and those that wait for the cloud.
SensorStep(s) ==
    \/ FindEvent(s)
    \/ FindRecent(s)
    \/ LookUpSensorRoom(s)
    \/ AddPeople(s)
    \/ SendSensorTenant(s)
    \/ ConfirmEvent(s)
    \/ CreateLog(s)
    \/ SendSensorLog(s)
    \/ CreateSensor(s)
CloudStep(s) == AskStatus(s) \/ AskHistory(s)

-----------------------------------------------------------------------------
\* An await rejects (lost connection, deadlock victim, process restart): the
\* handler goes no further and what it wrote stays written.
Fail(h) ==
    /\ ~AtRest(h) /\ pc[h] # "idle"
    /\ failed' = failed \cup {h}
    /\ UNCHANGED <<tables, rooms, effects, locals, history, pc>>

\* RoomService.updateRoom: an absolute write; roomNumber is @unique.
UpdateRoom(r) ==
    /\ r \in Editable \ edited
    /\ \E n \in Numbers, c \in Capacities \cup {capacity[r]},
          p \in Recounts \cup {currentPeople[r]} :
          /\ \A q \in Rooms \ {r} : roomNumber[q] # n
          /\ roomNumber' = [roomNumber EXCEPT ![r] = n]
          /\ capacity' = [capacity EXCEPT ![r] = c]
          /\ currentPeople' = [currentPeople EXCEPT ![r] = p]
          /\ corrected' = [corrected EXCEPT ![r] = @ + p - currentPeople[r]]
    /\ edited' = edited \cup {r}
    /\ UNCHANGED <<tables, effects, locals, before, pc, failed>>

\* Every delivery has been handled: the server waits.
AllAtRest == \A h \in Reqs : AtRest(h)
Quiet == AllAtRest /\ UNCHANGED vars

Next ==
    \/ \E u \in UnlockReqs : ReceiveUnlock(u) \/ UnlockStep(u)
    \/ \E s \in SensorReqs : ReceiveSensor(s) \/ SensorStep(s) \/ CloudStep(s)
    \/ \E h \in Reqs : Fail(h)
    \/ \E r \in Rooms : UpdateRoom(r)
    \/ Quiet

\* No fairness: what is promised of the handlers holds wherever they stop.
Spec == Init /\ [][Next]_vars

-----------------------------------------------------------------------------
(* Properties.                                                             *)

\* h has been answered by room.update: its counts are in a room.
Added(h) == updated[h] # None

\* Neither of the two requests was at rest when the other one arrived.
Concurrent(h, g) == h \notin before[g] /\ g \notin before[h]

\* s works with u as the PENDING event of its window (the else branch of
\* handleSensorEvent), and has added its counts.
Matched(s, u) ==
    u \in found[s] /\ status[s] = "confirmed" /\ "GATE_LEFT_OPEN" \notin published[s]
Claims(s, u) == Matched(s, u) /\ Added(s)

\* The occupancy of a room is the sum of its access logs and of the admins'
\* corrections, but for the handlers that died, or still are, between room.update
\* and accessLog.create: an increment and its log never disagree, and neither an
\* increment nor a correction is lost to another one.
LedgerBalances ==
    \A r \in Rooms :
        LET logged   == {h \in Reqs : accessLog[h] # None /\ accessLog[h].room = r}
            unlogged == {h \in Reqs : Added(h) /\ accessLog[h] = None /\ room[h] = r}
        IN  currentPeople[r] = corrected[r]
              + Total([h \in logged |-> accessLog[h].in - accessLog[h].out])
              + Total([h \in unlogged |-> Net(Counts(h))])

\* A CONFIRMED unlock event has brought its people into a room, through its
\* own handler or through the sensor handler that claimed it, whatever failed.
ConfirmedEventCounted ==
    \A u \in UnlockReqs : event[u] = "confirmed" =>
        Added(u) \/ \E s \in SensorReqs : Added(s) /\ u \in found[s]

\* A CONFIRMED reading has been added to a room; the one exception is a handler
\* that is, or died, between logSensor.updateMany and room.update.
ConfirmedSensorCounted ==
    \A s \in SensorReqs : sensor[s] = "confirmed" =>
        \/ Added(s)
        \/ \E u \in UnlockReqs : s \in found[u] /\ (Added(u) \/ pc[u] = "addPeople")

\* One reading is added by two handlers only when the two overlapped: the
\* statuses protect handlers that run one after the other, even after a failure.
ReadingCountedTwiceOnlyByOverlap ==
    \A s \in SensorReqs : \A h, g \in Reqs :
        h # g /\ Added(h) /\ Added(g) /\ s \in Counts(h) \cap Counts(g)
            => Concurrent(h, g)

\* One pending event is claimed by two readings only when their handlers
\* overlapped, or one died after adding its people and before confirming the
\* event; and an event that counted readings itself is claimed by none.
EventClaimedTwiceOnlyByOverlap ==
    \A u \in UnlockReqs, s, t \in SensorReqs :
        /\ Claims(s, u) => ~Added(u)
        /\ s # t /\ Claims(s, u) /\ Claims(t, u) =>
              \/ Concurrent(s, t)
              \/ \E x \in {s, t} \cap failed : pc[x] \in {"sendTenant", "confirmEvent"}

\* An event and a reading within 15 s of each other both stay PENDING, both
\* handled, only when the handlers overlapped or the event read the row and the
\* rows it read cancelled out: matching misses no pair by order of arrival.
UnmatchedOnlyByOverlap ==
    \A u \in UnlockReqs, s \in SensorReqs :
        /\ event[u] = "pending" /\ sensor[s] = "pending"
        /\ req[s].ts \in req[u].date - TwPending .. req[u].date + TwPending
        => Concurrent(u, s) \/ (s \in found[u] /\ Net(found[u]) = 0)

\* A loitering reading (UNCONFIRMED) that was stored before an unlock of the
\* next two minutes arrived is taken by that unlock, unless the rows cancel out.
LoiteringPickedUp ==
    \A u \in UnlockReqs, s \in SensorReqs :
        /\ event[u] # "none" /\ sensor[s] = "unconfirmed"
        /\ req[s].ts \in req[u].date - TwUnconfirmed .. req[u].date
        => s \notin before[u] \/ (s \in found[u] /\ Net(found[u]) = 0)

\* Of two unlocks of one user less than 5 s apart, handled in order, the second
\* leaves an event only when the first was CONFIRMED in the meantime.
SecondUnlockOnlyAfterConfirm ==
    \A u, v \in UnlockReqs :
        /\ u \in before[v] /\ event[u] # "none" /\ event[v] # "none"
        /\ req[u].user = req[v].user
        /\ req[u].date < req[v].date /\ req[v].date <= req[u].date + Debounce
        => event[u] = "confirmed"

\* A room above its capacity has been reported, unless an admin edited it or a
\* handler is, or died, between the increment and the report.
OverCapacityReported ==
    \A r \in Rooms \ edited :
        \/ currentPeople[r] <= capacity[r]
        \/ \E h \in Reqs : room[h] = r /\ "ROOM_CAPACITY_EXCEEDED" \in published[h]
        \/ \E h \in Reqs : room[h] = r /\ Added(h) /\
                 pc[h] \in {"sendTenant", "createLog", "sendLog"}

\* Once every handler has finished, the admins' screens show the occupancy in
\* the database, unless two handlers of the room overlapped (the emissions may
\* leave in the other order), one died before emitting, or an admin edited it.
ShownIsCurrent ==
    \A r \in Rooms \ edited :
        LET adders == {h \in Reqs : room[h] = r /\ Added(h)}
        IN  (/\ \A h \in adders : pc[h] # "sendTenant"
             /\ \A h, g \in adders : h # g => ~Concurrent(h, g))
            => shown[r] = currentPeople[r]

\* A reading whose handler finished is stored, unless a room was renamed after
\* an event of it had been stored: the unknown-room returns drop no other one.
ReadingStored ==
    \A s \in SensorReqs :
        pc[s] = "done" /\ s \notin failed /\ edited = {} => sensor[s] # "none"

\* The passage a handler has booked on a room.
Booked(h) ==
    IF Added(h)
    THEN [room |-> room[h], in |-> PeopleIn(Counts(h)), out |-> PeopleOut(Counts(h))]
    ELSE None

\* The handlers implement the ledger: whatever they interleave with and wherever they
\* die, each adds its people once, logs what it added and nothing else, and no step
\* but an admin's edit changes the count of another room or by another amount.
Ledger == INSTANCE OccupancyLedger WITH
    Handlers <- Reqs,
    people   <- currentPeople,
    passage  <- [h \in Reqs |-> Booked(h)],
    entry    <- accessLog
KeepsLedger == Ledger!Spec

\* What the comment on the debounce query says (access-card.service.ts:115): a
\* second event of a user within the last 5 s is a duplicate and leaves no row.
DuplicateLeavesNoEvent ==
    \A u, v \in UnlockReqs :
        /\ u \in before[v] /\ event[u] # "none" /\ req[u].user = req[v].user
        /\ req[v].date \in req[u].date .. req[u].date + Debounce
        => event[v] = "none"
=============================================================================
