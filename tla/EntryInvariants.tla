--------------------------- MODULE EntryInvariants ---------------------------
(***************************************************************************)
(* The inductive invariant behind the properties of EntryMatching: what    *)
(* the program counter of a handler says about its locals and its rows,    *)
(* and what the statuses in the tables say about what has been counted.    *)
(***************************************************************************)
EXTENDS EntryMatching

\* The steps of a handler that knows its room, and those after room.update.
RoomSteps  == {"readUnconfirmed", "readPending", "confirmSensors", "addPeople",
               "sendTenant", "createLog", "sendLog", "confirmEvent"}
AddedSteps == {"sendTenant", "createLog", "sendLog", "confirmEvent"}

UnlockShape ==
    \A u \in UnlockReqs :
        /\ pc[u] \in {"idle", "done"} \cup UnlockSteps
        /\ req[u] \in UnlockPayload \cup {None}
        /\ pc[u] # "idle" => req[u] # None
        /\ status[u] \in {"pending", "confirmed"}
        /\ event[u] # "none" => pc[u] = "done"
        /\ \A s \in found[u] : s \in SensorReqs /\ sensor[s] # "none"

SensorShape ==
    \A s \in SensorReqs :
        /\ pc[s] \in {"idle", "done"} \cup SensorSteps
        /\ req[s] \in SensorPayload \cup {None}
        /\ pc[s] # "idle" => req[s] # None
        /\ sensor[s] # "none" => pc[s] = "done"
        /\ \A u \in found[s] : u \in UnlockReqs /\ event[u] # "none"
        /\ pc[s] \in {"lookUpRoom"} \cup RoomSteps => \E u \in UnlockReqs : found[s] = {u}

LocalsShape ==
    \A h \in Reqs :
        /\ pc[h] = "idle" => found[h] = {} /\ before[h] = {} /\ h \notin failed
        /\ pc[h] \in RoomSteps => room[h] # None
        /\ pc[h] \in AddedSteps => updated[h] # None

Shape == UnlockShape /\ SensorShape /\ LocalsShape

\* The status a handler is going to write tells whether it counts people.
UnlockStatus ==
    \A u \in UnlockReqs :
        /\ Added(u) => /\ status[u] = "confirmed"
                       /\ pc[u] \in AddedSteps \cup {"createEvent", "done"}
        /\ status[u] = "confirmed" => pc[u] \in {"confirmSensors", "addPeople"} \/ Added(u)
        /\ pc[u] \in {"confirmSensors", "addPeople"} => status[u] = "confirmed"
        /\ event[u] = "pending" => status[u] = "pending"

SensorStatus ==
    \A s \in SensorReqs :
        /\ Added(s) => /\ pc[s] \in AddedSteps \cup {"createSensor", "done"}
                       /\ pc[s] = "sendTenant" \/ status[s] = "confirmed"
        /\ pc[s] \in {"idle", "findEvent", "askStatus", "findRecent", "askHistory"}
              => status[s] = "pending"
        /\ status[s] = "confirmed" /\ pc[s] = "createSensor" => Added(s)
        /\ pc[s] \in {"createLog", "sendLog", "confirmEvent"} => status[s] = "confirmed"
        /\ sensor[s] \in {"none", "confirmed", status[s]}

\* What a handler has counted is CONFIRMED, so no later handler reads it.
Protected ==
    /\ \A u \in UnlockReqs : Added(u) \/ pc[u] = "addPeople" =>
          \A s \in found[u] : sensor[s] = "confirmed"
    /\ \A s \in SensorReqs : Added(s) => sensor[s] \in {"none", "confirmed"}
    /\ \A u \in UnlockReqs : \A s \in found[u] : ~Added(s)

\* A request finds at rest what was at rest when it arrived.
RestBefore == \A h, g \in Reqs : g \in before[h] => AtRest(g)

\* A later unlock does not hold a row counted by one that was at rest before it.
NotReadAgain ==
    \A u, v \in UnlockReqs : u \in before[v] /\ Added(u) => found[u] \cap found[v] = {}

\* CONFIRMED rows have been counted.
Counted == ConfirmedEventCounted /\ ConfirmedSensorCounted

Match ==
    /\ UnlockStatus
    /\ SensorStatus
    /\ Protected
    /\ RestBefore
    /\ NotReadAgain
    /\ Counted

\* Once claimed, and confirmed, an event is found by no later reading.
ClaimedOnce ==
    /\ \A s \in SensorReqs, u \in UnlockReqs :
          /\ Matched(s, u) => ~Added(u)
          /\ Claims(s, u) /\ pc[s] \notin {"sendTenant", "confirmEvent"}
                => event[u] = "confirmed"
    /\ \A s, t \in SensorReqs : \A u \in UnlockReqs :
          t \in before[s] /\ Claims(t, u) /\ Matched(s, u)
                => pc[t] \in {"sendTenant", "confirmEvent"}

\* Past its debounce query, v knows that no event swallows it.
DebounceChecked ==
    \A u, v \in UnlockReqs :
        /\ u \in before[v] /\ event[u] # "none"
        /\ pc[v] \in UnlockSteps \ {"debounce"} \/ event[v] # "none"
        /\ req[u].user = req[v].user
        /\ req[u].date < req[v].date /\ req[v].date <= req[u].date + Debounce
        => event[u] = "confirmed"

\* The steps of an unlock handler that has read the rows of both queries.
ReadSteps == {"confirmSensors", "addPeople", "createEvent"} \cup AddedSteps

\* What an unlock handler has read of the readings at rest before it.
RowsRead ==
    \A u \in UnlockReqs : \A s \in SensorReqs \cap before[u] :
        /\ /\ sensor[s] = "pending"
           /\ pc[u] \in ReadSteps \/ event[u] # "none"
           /\ req[s].ts \in req[u].date - TwPending .. req[u].date + TwPending
           => s \in found[u]
        /\ /\ sensor[s] = "unconfirmed"
           /\ pc[u] \in ReadSteps \cup {"readPending"} \/ event[u] # "none"
           /\ req[s].ts \in req[u].date - TwUnconfirmed .. req[u].date
           => s \in found[u]

\* An unlock that counts nobody has read no rows, or rows that cancel out.
CancelOut ==
    \A u \in UnlockReqs :
        status[u] = "pending" /\ (pc[u] = "createEvent" \/ event[u] # "none")
           => Net(found[u]) = 0

\* A sensor handler that arrives after a PENDING event of its window claims one.
EventSeen ==
    \A s \in SensorReqs : \A u \in UnlockReqs \cap before[s] :
        /\ event[u] = "pending" /\ pc[s] \notin {"idle", "findEvent"}
        /\ req[s].ts \in req[u].date - TwSensor .. req[u].date + TwSensor
        => status[s] = "confirmed"

\* As long as no room is renamed, the users of stored events have a room, and a
\* sensor handler ends with its row.
RoomsKnown ==
    edited = {} =>
        /\ \A u \in UnlockReqs :
              event[u] # "none" \/ pc[u] \in RoomSteps \cup {"createEvent"}
                 => RoomsOf(req[u].user) # {}
        /\ \A s \in SensorReqs : pc[s] = "done" => sensor[s] # "none"

\* The increment that took a room above its capacity is reported or on its way.
ReportOnItsWay ==
    /\ \A h \in Reqs : Added(h) =>
          /\ room[h] # None
          /\ room[h] \notin edited => updated[h].capacity = capacity[room[h]]
    /\ \A r \in Rooms \ edited : currentPeople[r] > capacity[r] =>
          \E h \in Reqs :
              /\ room[h] = r /\ Added(h) /\ updated[h].people > capacity[r]
              /\ \/ "ROOM_CAPACITY_EXCEEDED" \in published[h]
                 \/ pc[h] = "sendTenant"
                 \/ h \in UnlockReqs /\ pc[h] \in {"createLog", "sendLog"}

\* The handlers that have added people to a room, and those that were let in one
\* after the other.
Adders(r)  == {h \in Reqs : room[h] = r /\ Added(h)}
InOrder(r) == \A h, g \in Adders(r) : h # g => ~Concurrent(h, g)

\* The one handler of a room on its way to the screens holds the current count, and
\* the screens show it once there is none.
ScreensFollow ==
    \A r \in Rooms \ edited : InOrder(r) =>
        /\ (\A h \in Adders(r) : pc[h] # "sendTenant") => shown[r] = currentPeople[r]
        /\ \A h \in Adders(r) : At(h, "sendTenant") => updated[h].people = currentPeople[r]

\* An access log is what its handler has booked.
LoggedAsBooked ==
    /\ \A h \in Reqs : Added(h) => room[h] \in Rooms
    /\ \A h \in Reqs : accessLog[h] # None => accessLog[h] = Booked(h)

\* What a set of booked passages brings into a room.
PassagesBooked == [h \in Reqs |-> Booked(h)]
BookersOf(P, r) == {h \in Reqs : P[h] # None /\ P[h].room = r}
FinitelyMany(P) == IsFiniteSet({h \in Reqs : P[h] # None})
Takings(P, r) == Total([h \in BookersOf(P, r) |-> P[h].in - P[h].out])

\* A room holds the passages booked on it and its corrections, logged or not.
Balanced ==
    /\ PassagesBooked \in [Reqs -> AccessLog \cup {None}]
    /\ FinitelyMany(PassagesBooked)
    /\ \A r \in Rooms : currentPeople[r] = corrected[r] + Takings(PassagesBooked, r)

IInv == TypeOK /\ Shape /\ Match

\* The invariant of the properties about pairs missed, claimed and debounced.
PairInv ==
    IInv /\ ClaimedOnce /\ DebounceChecked /\ RowsRead /\ CancelOut /\ EventSeen
         /\ RoomsKnown /\ ReportOnItsWay
=============================================================================
