------------------------- MODULE EntryMatchingProofs -------------------------
(***************************************************************************)
(* Type correctness of EntryMatching, what the statuses of log_events and  *)
(* log_sensors protect, and the ledger the handlers keep: proofs for every *)
(* set of requests, payloads, rooms and windows.                           *)
(***************************************************************************)
EXTENDS EntryInvariants, SumLemmas

\* The sums of the counts of the readings a handler counts are integers: it
\* counts stored readings, which carry integers, and there are finitely many.
LEMMA SumsAreIntegers ==
    ASSUME TypeOK, Shape, NEW h \in Reqs, pc[h] # "idle"
    PROVE  PeopleIn(Counts(h)) \in Int /\ PeopleOut(Counts(h)) \in Int
  <1>1. IsFiniteSet(Counts(h)) /\ \A s \in Counts(h) : req[s] \in SensorPayload
    <2>1. CASE h \in SensorReqs
      BY <2>1, FS_Singleton DEF Counts, Shape, SensorShape
    <2>2. CASE h \notin SensorReqs
      <3>1. h \in UnlockReqs /\ found[h] \subseteq SensorReqs
        BY <2>2 DEF Reqs, Shape, UnlockShape
      <3>2. IsFiniteSet(found[h]) BY <3>1, ReqsAssumption, FS_Subset
      <3>3. \A s \in found[h] : sensor[s] # "none" BY <3>1 DEF Shape, UnlockShape
      <3> QED BY <2>2, <3>1, <3>2, <3>3 DEF Counts, Shape, SensorShape
    <2> QED BY <2>1, <2>2
  <1>2. [s \in Counts(h) |-> req[s].in] \in [Counts(h) -> Int]
    BY <1>1 DEF SensorPayload
  <1>3. [s \in Counts(h) |-> req[s].out] \in [Counts(h) -> Int]
    BY <1>1 DEF SensorPayload
  <1> HIDE DEF Counts
  <1> QED BY <1>1, <1>2, <1>3, TotalType DEF PeopleIn, PeopleOut, Total, SumOf

\* What a handler publishes about a room is among the notifications.
LEMMA AlertsAreNotifications ==
    ASSUME NEW row
    PROVE  OccupancyAlert(row) \subseteq NotificationTypes
  BY DEF OccupancyAlert, NotificationTypes

\* The sensor handler that is about to confirm an event has one.
LEMMA EventOfIsStored ==
    ASSUME Shape, NEW s \in SensorReqs, pc[s] = "confirmEvent"
    PROVE  EventOf(s) \in UnlockReqs /\ event[EventOf(s)] # "none" /\ found[s] = {EventOf(s)}
  <1>1. PICK u \in UnlockReqs : found[s] = {u} BY DEF Shape, SensorShape, RoomSteps
  <1>2. EventOf(s) = u BY <1>1 DEF EventOf
  <1> QED BY <1>1, <1>2 DEF Shape, SensorShape

\* Idle handlers and empty tables have the types and the shape.
LEMMA InitType == Init => TypeOK /\ Shape
  <1> SUFFICES ASSUME Init PROVE TypeOK /\ Shape OBVIOUS
  <1>1. TypeOK
    <2>1. roomNumber \in [Rooms -> Numbers] BY DEF Init
    <2>2. capacity \in [Rooms -> Int] BY RoomAssumption DEF Init
    <2>3. pc \in [Reqs -> {"idle", "done"} \cup UnlockSteps \cup SensorSteps] BY DEF Init
    <2> QED BY <2>1, <2>2, <2>3 DEF Init, TypeOK
  <1>2. UnlockShape BY DEF Init, UnlockShape, Reqs
  <1>3. SensorShape BY DEF Init, SensorShape, Reqs, RoomSteps
  <1>4. LocalsShape BY DEF Init, LocalsShape, RoomSteps, AddedSteps
  <1> QED BY <1>1, <1>2, <1>3, <1>4 DEF Shape

\* Every step of every handler, a failure and an edit keep them.
LEMMA TypeNext ==
    ASSUME TypeOK, Shape, [Next]_vars
    PROVE  TypeOK' /\ Shape'
  <1> USE DEF tables, rooms, locals, effects, history, At, Goto, Reqs
  <1>1. ASSUME NEW u \in UnlockReqs, ReceiveUnlock(u) PROVE TypeOK' /\ Shape'
    <2>1. TypeOK'
      BY <1>1, ReqsAssumption, PayloadAssumption, RoomAssumption
         DEF TypeOK, Shape, LocalsShape, ReceiveUnlock, Arrive, UnlockSteps, SensorSteps,
             AccessLog, UpdatedRoom, NotificationTypes, AddedSteps
    <2>2. UnlockShape'
      BY <1>1, ReqsAssumption, PayloadAssumption
         DEF TypeOK, Shape, UnlockShape, SensorShape, ReceiveUnlock, Arrive, UnlockSteps,
                SensorSteps, RoomSteps
    <2>3. SensorShape'
      BY <1>1, ReqsAssumption, PayloadAssumption
         DEF TypeOK, Shape, UnlockShape, SensorShape, ReceiveUnlock, Arrive, UnlockSteps,
                SensorSteps, RoomSteps
    <2>4. LocalsShape'
      BY <1>1, ReqsAssumption
         DEF TypeOK, Shape, LocalsShape, ReceiveUnlock, Arrive, RoomSteps, AddedSteps
    <2> QED BY <2>1, <2>2, <2>3, <2>4 DEF Shape
  <1>2. ASSUME NEW u \in UnlockReqs, DebounceUnlock(u) PROVE TypeOK' /\ Shape'
    <2>1. TypeOK'
      BY <1>2, ReqsAssumption, PayloadAssumption, RoomAssumption
         DEF TypeOK, Shape, LocalsShape, DebounceUnlock, UnlockSteps, SensorSteps,
             AccessLog, UpdatedRoom, NotificationTypes, AddedSteps
    <2>2. UnlockShape'
      BY <1>2, ReqsAssumption, PayloadAssumption
         DEF TypeOK, Shape, UnlockShape, SensorShape, DebounceUnlock, UnlockSteps,
                SensorSteps, RoomSteps
    <2>3. SensorShape'
      BY <1>2, ReqsAssumption, PayloadAssumption
         DEF TypeOK, Shape, UnlockShape, SensorShape, DebounceUnlock, UnlockSteps,
                SensorSteps, RoomSteps
    <2>4. LocalsShape'
      BY <1>2, ReqsAssumption
         DEF TypeOK, Shape, LocalsShape, DebounceUnlock, RoomSteps, AddedSteps
    <2> QED BY <2>1, <2>2, <2>3, <2>4 DEF Shape
  <1>3. ASSUME NEW u \in UnlockReqs, LookUpUnlockRoom(u) PROVE TypeOK' /\ Shape'
    <2>1. TypeOK'
      BY SMTT(30), <1>3, ReqsAssumption, PayloadAssumption, RoomAssumption
         DEF TypeOK, Shape, LocalsShape, LookUpUnlockRoom, LookUpRoom, RoomsOf,
                UnlockSteps, SensorSteps,
             AccessLog, UpdatedRoom, NotificationTypes, AddedSteps
    <2>2. UnlockShape'
      BY <1>3, ReqsAssumption, PayloadAssumption
         DEF TypeOK, Shape, UnlockShape, SensorShape, LookUpUnlockRoom, LookUpRoom,
                RoomsOf, UnlockSteps, SensorSteps, RoomSteps
    <2>3. SensorShape'
      BY <1>3, ReqsAssumption, PayloadAssumption
         DEF TypeOK, Shape, UnlockShape, SensorShape, LookUpUnlockRoom, LookUpRoom,
                RoomsOf, UnlockSteps, SensorSteps, RoomSteps
    <2>4. LocalsShape'
      BY <1>3, ReqsAssumption
         DEF TypeOK, Shape, LocalsShape, LookUpUnlockRoom, LookUpRoom, RoomsOf,
                RoomSteps, AddedSteps
    <2> QED BY <2>1, <2>2, <2>3, <2>4 DEF Shape
  <1>4. ASSUME NEW u \in UnlockReqs, ReadUnconfirmed(u) PROVE TypeOK' /\ Shape'
    <2>1. TypeOK'
      BY <1>4, ReqsAssumption, PayloadAssumption, RoomAssumption
         DEF TypeOK, Shape, LocalsShape, ReadUnconfirmed, SensorRows, UnlockSteps,
                SensorSteps,
             AccessLog, UpdatedRoom, NotificationTypes, AddedSteps
    <2>2. UnlockShape'
      BY <1>4, ReqsAssumption, PayloadAssumption
         DEF TypeOK, Shape, UnlockShape, SensorShape, ReadUnconfirmed, SensorRows,
                UnlockSteps, SensorSteps, RoomSteps
    <2>3. SensorShape'
      BY <1>4, ReqsAssumption, PayloadAssumption
         DEF TypeOK, Shape, UnlockShape, SensorShape, ReadUnconfirmed, SensorRows,
                UnlockSteps, SensorSteps, RoomSteps
    <2>4. LocalsShape'
      BY <1>4, ReqsAssumption
         DEF TypeOK, Shape, LocalsShape, ReadUnconfirmed, SensorRows, RoomSteps,
                AddedSteps
    <2> QED BY <2>1, <2>2, <2>3, <2>4 DEF Shape
  <1>5. ASSUME NEW u \in UnlockReqs, ReadPending(u) PROVE TypeOK' /\ Shape'
    <2>1. TypeOK'
      <3>1. found' \in [Reqs -> SUBSET Reqs]
        BY <1>5 DEF TypeOK, ReadPending, SensorRows
      <3>2. status' \in [Reqs -> {"unconfirmed", "pending", "confirmed"}]
        BY <1>5 DEF TypeOK, ReadPending
      <3>3. pc' \in [Reqs -> {"idle", "done"} \cup UnlockSteps \cup SensorSteps]
        BY <1>5 DEF TypeOK, ReadPending, UnlockSteps, SensorSteps
      <3> QED BY <1>5, <3>1, <3>2, <3>3 DEF TypeOK, ReadPending
    <2>2. UnlockShape'
      BY <1>5, ReqsAssumption, PayloadAssumption
         DEF TypeOK, Shape, UnlockShape, SensorShape, ReadPending, SensorRows,
                UnlockSteps, SensorSteps, RoomSteps
    <2>3. SensorShape'
      BY SMTT(30), <1>5, ReqsAssumption, PayloadAssumption
         DEF TypeOK, Shape, UnlockShape, SensorShape, ReadPending, SensorRows,
                UnlockSteps, SensorSteps, RoomSteps
    <2>4. LocalsShape'
      BY <1>5, ReqsAssumption
         DEF TypeOK, Shape, LocalsShape, ReadPending, SensorRows, RoomSteps, AddedSteps
    <2> QED BY <2>1, <2>2, <2>3, <2>4 DEF Shape
  <1>6. ASSUME NEW u \in UnlockReqs, ConfirmSensors(u) PROVE TypeOK' /\ Shape'
    <2>1. TypeOK'
      BY <1>6, ReqsAssumption, PayloadAssumption, RoomAssumption
         DEF TypeOK, Shape, LocalsShape, ConfirmSensors, UnlockSteps, SensorSteps,
             AccessLog, UpdatedRoom, NotificationTypes, AddedSteps
    <2>2. UnlockShape'
      BY <1>6, ReqsAssumption, PayloadAssumption
         DEF TypeOK, Shape, UnlockShape, SensorShape, ConfirmSensors, UnlockSteps,
                SensorSteps, RoomSteps
    <2>3. SensorShape'
      BY <1>6, ReqsAssumption, PayloadAssumption
         DEF TypeOK, Shape, UnlockShape, SensorShape, ConfirmSensors, UnlockSteps,
                SensorSteps, RoomSteps
    <2>4. LocalsShape'
      BY <1>6, ReqsAssumption
         DEF TypeOK, Shape, LocalsShape, ConfirmSensors, RoomSteps, AddedSteps
    <2> QED BY <2>1, <2>2, <2>3, <2>4 DEF Shape
  <1>7. ASSUME NEW u \in UnlockReqs, SendUnlockTenant(u) PROVE TypeOK' /\ Shape'
    <2>1. TypeOK'
      BY <1>7, ReqsAssumption, PayloadAssumption, RoomAssumption
         DEF TypeOK, Shape, LocalsShape, SendUnlockTenant, EmitTenant, UnlockSteps,
                SensorSteps,
             AccessLog, UpdatedRoom, NotificationTypes, AddedSteps
    <2>2. UnlockShape'
      BY <1>7, ReqsAssumption, PayloadAssumption
         DEF TypeOK, Shape, UnlockShape, SensorShape, SendUnlockTenant, EmitTenant,
                UnlockSteps, SensorSteps, RoomSteps
    <2>3. SensorShape'
      BY <1>7, ReqsAssumption, PayloadAssumption
         DEF TypeOK, Shape, UnlockShape, SensorShape, SendUnlockTenant, EmitTenant,
                UnlockSteps, SensorSteps, RoomSteps
    <2>4. LocalsShape'
      BY <1>7, ReqsAssumption
         DEF TypeOK, Shape, LocalsShape, SendUnlockTenant, EmitTenant, RoomSteps,
                AddedSteps
    <2> QED BY <2>1, <2>2, <2>3, <2>4 DEF Shape
  <1>8. ASSUME NEW u \in UnlockReqs, SendUnlockLog(u) PROVE TypeOK' /\ Shape'
    <2>1. TypeOK'
      BY <1>8, ReqsAssumption, PayloadAssumption, RoomAssumption
         DEF TypeOK, Shape, LocalsShape, SendUnlockLog, Publish, OccupancyAlert,
                UnlockSteps, SensorSteps,
             AccessLog, UpdatedRoom, NotificationTypes, AddedSteps
    <2>2. UnlockShape'
      BY <1>8, ReqsAssumption, PayloadAssumption
         DEF TypeOK, Shape, UnlockShape, SensorShape, SendUnlockLog, Publish,
                OccupancyAlert, UnlockSteps, SensorSteps, RoomSteps
    <2>3. SensorShape'
      BY <1>8, ReqsAssumption, PayloadAssumption
         DEF TypeOK, Shape, UnlockShape, SensorShape, SendUnlockLog, Publish,
                OccupancyAlert, UnlockSteps, SensorSteps, RoomSteps
    <2>4. LocalsShape'
      BY <1>8, ReqsAssumption
         DEF TypeOK, Shape, LocalsShape, SendUnlockLog, Publish, OccupancyAlert,
                RoomSteps, AddedSteps
    <2> QED BY <2>1, <2>2, <2>3, <2>4 DEF Shape
  <1>9. ASSUME NEW u \in UnlockReqs, CreateEvent(u) PROVE TypeOK' /\ Shape'
    <2>1. TypeOK'
      BY <1>9, ReqsAssumption, PayloadAssumption, RoomAssumption
         DEF TypeOK, Shape, UnlockShape, LocalsShape, CreateEvent, UnlockSteps,
                SensorSteps,
             AccessLog, UpdatedRoom, NotificationTypes, AddedSteps
    <2>2. UnlockShape'
      BY <1>9, ReqsAssumption, PayloadAssumption
         DEF TypeOK, Shape, UnlockShape, SensorShape, CreateEvent, UnlockSteps,
                SensorSteps, RoomSteps
    <2>3. SensorShape'
      BY <1>9, ReqsAssumption, PayloadAssumption
         DEF TypeOK, Shape, UnlockShape, SensorShape, CreateEvent, UnlockSteps,
                SensorSteps, RoomSteps
    <2>4. LocalsShape'
      BY <1>9, ReqsAssumption
         DEF TypeOK, Shape, LocalsShape, CreateEvent, RoomSteps, AddedSteps
    <2> QED BY <2>1, <2>2, <2>3, <2>4 DEF Shape
  <1>10. ASSUME NEW s \in SensorReqs, ReceiveSensor(s) PROVE TypeOK' /\ Shape'
    <2>1. TypeOK'
      BY <1>10, ReqsAssumption, PayloadAssumption, RoomAssumption
         DEF TypeOK, Shape, LocalsShape, ReceiveSensor, Arrive, UnlockSteps, SensorSteps,
             AccessLog, UpdatedRoom, NotificationTypes, AddedSteps
    <2>2. UnlockShape'
      BY <1>10, ReqsAssumption, PayloadAssumption
         DEF TypeOK, Shape, UnlockShape, SensorShape, ReceiveSensor, Arrive, UnlockSteps,
                SensorSteps, RoomSteps
    <2>3. SensorShape'
      BY <1>10, ReqsAssumption, PayloadAssumption
         DEF TypeOK, Shape, UnlockShape, SensorShape, ReceiveSensor, Arrive, UnlockSteps,
                SensorSteps, RoomSteps
    <2>4. LocalsShape'
      BY <1>10, ReqsAssumption
         DEF TypeOK, Shape, LocalsShape, ReceiveSensor, Arrive, RoomSteps, AddedSteps
    <2> QED BY <2>1, <2>2, <2>3, <2>4 DEF Shape
  <1>11. ASSUME NEW s \in SensorReqs, FindEvent(s) PROVE TypeOK' /\ Shape'
    <2>1. TypeOK'
      <3>1. found' \in [Reqs -> SUBSET Reqs]
        BY <1>11 DEF TypeOK, FindEvent, PendingEvents
      <3>2. pc' \in [Reqs -> {"idle", "done"} \cup UnlockSteps \cup SensorSteps]
        BY <1>11 DEF TypeOK, FindEvent, UnlockSteps, SensorSteps
      <3>3. status' \in [Reqs -> {"unconfirmed", "pending", "confirmed"}]
        BY <1>11 DEF TypeOK, FindEvent
      <3> QED BY <1>11, <3>1, <3>2, <3>3 DEF TypeOK, FindEvent
    <2>2. UnlockShape'
      BY <1>11, ReqsAssumption, PayloadAssumption
         DEF TypeOK, Shape, UnlockShape, SensorShape, FindEvent, PendingEvents,
                UnlockSteps, SensorSteps, RoomSteps
    <2>3. SensorShape'
      <3>1. CASE PendingEvents(req[s].ts - TwSensor, req[s].ts + TwSensor) = {}
        BY <1>11, <3>1, ReqsAssumption
           DEF TypeOK, Shape, SensorShape, FindEvent, UnlockSteps, SensorSteps, RoomSteps
      <3>2. CASE PendingEvents(req[s].ts - TwSensor, req[s].ts + TwSensor) # {}
        <4>1. PICK u \in UnlockReqs :
                 /\ event[u] = "pending" /\ found' = [found EXCEPT ![s] = {u}]
                 /\ pc' = [pc EXCEPT ![s] = "lookUpRoom"]
          BY <1>11, <3>2 DEF FindEvent, PendingEvents
        <4> QED BY <1>11, <4>1, ReqsAssumption
                DEF TypeOK, Shape, SensorShape, FindEvent, UnlockSteps, SensorSteps,
                       RoomSteps
      <3> QED BY <3>1, <3>2
    <2>4. LocalsShape'
      BY <1>11, ReqsAssumption
         DEF TypeOK, Shape, LocalsShape, FindEvent, PendingEvents, RoomSteps, AddedSteps
    <2> QED BY <2>1, <2>2, <2>3, <2>4 DEF Shape
  <1>12. ASSUME NEW s \in SensorReqs, AskStatus(s) PROVE TypeOK' /\ Shape'
    <2>1. TypeOK'
      BY <1>12, ReqsAssumption, PayloadAssumption, RoomAssumption
         DEF TypeOK, Shape, LocalsShape, AskStatus, UnlockSteps, SensorSteps,
             AccessLog, UpdatedRoom, NotificationTypes, AddedSteps
    <2>2. UnlockShape'
      BY <1>12, ReqsAssumption, PayloadAssumption
         DEF TypeOK, Shape, UnlockShape, SensorShape, AskStatus, UnlockSteps,
                SensorSteps, RoomSteps
    <2>3. SensorShape'
      BY <1>12, ReqsAssumption, PayloadAssumption
         DEF TypeOK, Shape, UnlockShape, SensorShape, AskStatus, UnlockSteps,
                SensorSteps, RoomSteps
    <2>4. LocalsShape'
      BY <1>12, ReqsAssumption
         DEF TypeOK, Shape, LocalsShape, AskStatus, RoomSteps, AddedSteps
    <2> QED BY <2>1, <2>2, <2>3, <2>4 DEF Shape
  <1>13. ASSUME NEW s \in SensorReqs, FindRecent(s) PROVE TypeOK' /\ Shape'
    <2>1. TypeOK'
      <3>1. found' \in [Reqs -> SUBSET Reqs]
        BY <1>13 DEF TypeOK, FindRecent, LatestEvents
      <3>2. pc' \in [Reqs -> {"idle", "done"} \cup UnlockSteps \cup SensorSteps]
        BY SMTT(30), <1>13 DEF TypeOK, FindRecent, UnlockSteps, SensorSteps
      <3>3. status' \in [Reqs -> {"unconfirmed", "pending", "confirmed"}]
        BY <1>13 DEF TypeOK, FindRecent
      <3> QED BY <1>13, <3>1, <3>2, <3>3 DEF TypeOK, FindRecent
    <2>2. UnlockShape'
      BY <1>13, ReqsAssumption, PayloadAssumption
         DEF TypeOK, Shape, UnlockShape, SensorShape, FindRecent, LatestEvents,
                UnlockSteps, SensorSteps, RoomSteps
    <2>3. SensorShape'
      BY SMTT(30), <1>13, ReqsAssumption, PayloadAssumption
         DEF TypeOK, Shape, UnlockShape, SensorShape, FindRecent, LatestEvents,
                UnlockSteps, SensorSteps, RoomSteps
    <2>4. LocalsShape'
      BY <1>13, ReqsAssumption
         DEF TypeOK, Shape, LocalsShape, FindRecent, LatestEvents, RoomSteps, AddedSteps
    <2> QED BY <2>1, <2>2, <2>3, <2>4 DEF Shape
  <1>14. ASSUME NEW s \in SensorReqs, AskHistory(s) PROVE TypeOK' /\ Shape'
    <2>1. TypeOK'
      BY <1>14, ReqsAssumption, PayloadAssumption, RoomAssumption
         DEF TypeOK, Shape, LocalsShape, AskHistory, UnlockSteps, SensorSteps,
             AccessLog, UpdatedRoom, NotificationTypes, AddedSteps
    <2>2. UnlockShape'
      BY <1>14, ReqsAssumption, PayloadAssumption
         DEF TypeOK, Shape, UnlockShape, SensorShape, AskHistory, UnlockSteps,
                SensorSteps, RoomSteps
    <2>3. SensorShape'
      BY <1>14, ReqsAssumption, PayloadAssumption
         DEF TypeOK, Shape, UnlockShape, SensorShape, AskHistory, UnlockSteps,
                SensorSteps, RoomSteps
    <2>4. LocalsShape'
      BY <1>14, ReqsAssumption
         DEF TypeOK, Shape, LocalsShape, AskHistory, RoomSteps, AddedSteps
    <2> QED BY <2>1, <2>2, <2>3, <2>4 DEF Shape
  <1>15. ASSUME NEW s \in SensorReqs, LookUpSensorRoom(s) PROVE TypeOK' /\ Shape'
    <2>1. TypeOK'
      BY SMTT(30), <1>15, ReqsAssumption, PayloadAssumption, RoomAssumption
         DEF TypeOK, Shape, LocalsShape, LookUpSensorRoom, LookUpRoom, RoomsOf,
                UnlockSteps, SensorSteps,
             AccessLog, UpdatedRoom, NotificationTypes, AddedSteps
    <2>2. UnlockShape'
      BY <1>15, ReqsAssumption, PayloadAssumption
         DEF TypeOK, Shape, UnlockShape, SensorShape, LookUpSensorRoom, LookUpRoom,
                RoomsOf, UnlockSteps, SensorSteps, RoomSteps
    <2>3. SensorShape'
      BY <1>15, ReqsAssumption, PayloadAssumption
         DEF TypeOK, Shape, UnlockShape, SensorShape, LookUpSensorRoom, LookUpRoom,
                RoomsOf, UnlockSteps, SensorSteps, RoomSteps
    <2>4. LocalsShape'
      BY <1>15, ReqsAssumption
         DEF TypeOK, Shape, LocalsShape, LookUpSensorRoom, LookUpRoom, RoomsOf,
                RoomSteps, AddedSteps
    <2> QED BY <2>1, <2>2, <2>3, <2>4 DEF Shape
  <1>16. ASSUME NEW s \in SensorReqs, SendSensorTenant(s) PROVE TypeOK' /\ Shape'
    <2>1. TypeOK'
      <3>1. room[s] \in Rooms /\ updated[s] \in UpdatedRoom
        BY <1>16 DEF TypeOK, Shape, LocalsShape, SendSensorTenant, RoomSteps, AddedSteps
      <3>2. shown' \in [Rooms -> Int]
        BY <1>16, <3>1 DEF TypeOK, SendSensorTenant, EmitTenant, UpdatedRoom
      <3>3. published' \in [Reqs -> SUBSET NotificationTypes]
        <4>1. PICK types \in SUBSET NotificationTypes : Publish(s, types)
          BY <1>16, AlertsAreNotifications DEF SendSensorTenant, NotificationTypes
        <4> QED BY <4>1 DEF TypeOK, Publish
      <3>4. status' \in [Reqs -> {"unconfirmed", "pending", "confirmed"}]
        BY <1>16 DEF TypeOK, SendSensorTenant
      <3>5. pc' \in [Reqs -> {"idle", "done"} \cup UnlockSteps \cup SensorSteps]
        BY <1>16 DEF TypeOK, SendSensorTenant, UnlockSteps, SensorSteps
      <3> QED BY <1>16, <3>2, <3>3, <3>4, <3>5 DEF TypeOK, SendSensorTenant
    <2>2. UnlockShape'
      BY <1>16, ReqsAssumption, PayloadAssumption
         DEF TypeOK, Shape, UnlockShape, SensorShape, SendSensorTenant, EmitTenant,
                Publish, OccupancyAlert, UnlockSteps, SensorSteps, RoomSteps
    <2>3. SensorShape'
      BY <1>16, ReqsAssumption, PayloadAssumption
         DEF TypeOK, Shape, UnlockShape, SensorShape, SendSensorTenant, EmitTenant,
                Publish, OccupancyAlert, UnlockSteps, SensorSteps, RoomSteps
    <2>4. LocalsShape'
      BY <1>16, ReqsAssumption
         DEF TypeOK, Shape, LocalsShape, SendSensorTenant, EmitTenant, Publish,
                OccupancyAlert, RoomSteps, AddedSteps
    <2> QED BY <2>1, <2>2, <2>3, <2>4 DEF Shape
  <1>17. ASSUME NEW s \in SensorReqs, ConfirmEvent(s) PROVE TypeOK' /\ Shape'
    <2>1. TypeOK'
      BY <1>17, ReqsAssumption, PayloadAssumption, RoomAssumption
         DEF TypeOK, Shape, LocalsShape, ConfirmEvent, EventOf, UnlockSteps, SensorSteps,
             AccessLog, UpdatedRoom, NotificationTypes, AddedSteps
    <2>2. UnlockShape'
      <3>1. EventOf(s) \in UnlockReqs /\ event[EventOf(s)] # "none"
        BY <1>17, EventOfIsStored DEF ConfirmEvent
      <3> QED BY <1>17, <3>1, ReqsAssumption
              DEF TypeOK, Shape, UnlockShape, ConfirmEvent, UnlockSteps, SensorSteps
    <2>3. SensorShape'
      <3>1. event[EventOf(s)] # "none"
        BY <1>17, EventOfIsStored DEF ConfirmEvent
      <3>2. \A u \in UnlockReqs : event[u] # "none" => event'[u] # "none"
        BY <1>17, <3>1 DEF TypeOK, ConfirmEvent
      <3> QED BY <1>17, <3>2, ReqsAssumption
              DEF TypeOK, Shape, SensorShape, ConfirmEvent, UnlockSteps, SensorSteps,
                     RoomSteps
    <2>4. LocalsShape'
      BY <1>17, ReqsAssumption
         DEF TypeOK, Shape, LocalsShape, ConfirmEvent, EventOf, RoomSteps, AddedSteps
    <2> QED BY <2>1, <2>2, <2>3, <2>4 DEF Shape
  <1>18. ASSUME NEW s \in SensorReqs, SendSensorLog(s) PROVE TypeOK' /\ Shape'
    <2>1. TypeOK'
      BY <1>18, ReqsAssumption, PayloadAssumption, RoomAssumption
         DEF TypeOK, Shape, LocalsShape, SendSensorLog, UnlockSteps, SensorSteps,
             AccessLog, UpdatedRoom, NotificationTypes, AddedSteps
    <2>2. UnlockShape'
      BY <1>18, ReqsAssumption, PayloadAssumption
         DEF TypeOK, Shape, UnlockShape, SensorShape, SendSensorLog, UnlockSteps,
                SensorSteps, RoomSteps
    <2>3. SensorShape'
      BY <1>18, ReqsAssumption, PayloadAssumption
         DEF TypeOK, Shape, UnlockShape, SensorShape, SendSensorLog, UnlockSteps,
                SensorSteps, RoomSteps
    <2>4. LocalsShape'
      BY <1>18, ReqsAssumption
         DEF TypeOK, Shape, LocalsShape, SendSensorLog, RoomSteps, AddedSteps
    <2> QED BY <2>1, <2>2, <2>3, <2>4 DEF Shape
  <1>19. ASSUME NEW s \in SensorReqs, CreateSensor(s) PROVE TypeOK' /\ Shape'
    <2>1. TypeOK'
      BY <1>19, ReqsAssumption, PayloadAssumption, RoomAssumption
         DEF TypeOK, Shape, LocalsShape, CreateSensor, UnlockSteps, SensorSteps,
             AccessLog, UpdatedRoom, NotificationTypes, AddedSteps
    <2>2. UnlockShape'
      BY <1>19, ReqsAssumption, PayloadAssumption
         DEF TypeOK, Shape, UnlockShape, SensorShape, CreateSensor, UnlockSteps,
                SensorSteps, RoomSteps
    <2>3. SensorShape'
      BY <1>19, ReqsAssumption, PayloadAssumption
         DEF TypeOK, Shape, UnlockShape, SensorShape, CreateSensor, UnlockSteps,
                SensorSteps, RoomSteps
    <2>4. LocalsShape'
      BY <1>19, ReqsAssumption
         DEF TypeOK, Shape, LocalsShape, CreateSensor, RoomSteps, AddedSteps
    <2> QED BY <2>1, <2>2, <2>3, <2>4 DEF Shape
  <1>20. ASSUME NEW h \in Reqs, AddPeople(h) PROVE TypeOK' /\ Shape'
    <2>0. Net(Counts(h)) \in Int BY <1>20, SumsAreIntegers DEF AddPeople, Net
    <2>1. TypeOK'
      BY <1>20, <2>0, ReqsAssumption, PayloadAssumption, RoomAssumption
         DEF TypeOK, Shape, LocalsShape, AddPeople, UnlockSteps, SensorSteps,
             AccessLog, UpdatedRoom, RoomSteps
    <2>2. UnlockShape'
      BY <1>20, ReqsAssumption, PayloadAssumption
         DEF TypeOK, Shape, UnlockShape, SensorShape, AddPeople, UnlockSteps,
                SensorSteps, RoomSteps
    <2>3. SensorShape'
      BY <1>20, ReqsAssumption, PayloadAssumption
         DEF TypeOK, Shape, UnlockShape, SensorShape, AddPeople, UnlockSteps,
                SensorSteps, RoomSteps
    <2>4. LocalsShape'
      <3>1. updated'[h] \in UpdatedRoom
        BY <1>20, <2>0 DEF TypeOK, Shape, LocalsShape, AddPeople, RoomSteps, UpdatedRoom
      <3> QED BY <1>20, <3>1, ReqsAssumption
              DEF TypeOK, Shape, LocalsShape, AddPeople, RoomSteps, AddedSteps
    <2> QED BY <2>1, <2>2, <2>3, <2>4 DEF Shape
  <1>21. ASSUME NEW h \in Reqs, CreateLog(h) PROVE TypeOK' /\ Shape'
    <2>0. PeopleIn(Counts(h)) \in Int /\ PeopleOut(Counts(h)) \in Int
      BY <1>21, SumsAreIntegers DEF CreateLog
    <2>1. TypeOK'
      BY <1>21, <2>0, ReqsAssumption, PayloadAssumption, RoomAssumption
         DEF TypeOK, Shape, LocalsShape, CreateLog, UnlockSteps, SensorSteps,
             AccessLog, UpdatedRoom, NotificationTypes, RoomSteps
    <2>2. UnlockShape'
      BY <1>21, ReqsAssumption, PayloadAssumption
         DEF TypeOK, Shape, UnlockShape, SensorShape, CreateLog, UnlockSteps,
                SensorSteps, RoomSteps
    <2>3. SensorShape'
      BY <1>21, ReqsAssumption, PayloadAssumption
         DEF TypeOK, Shape, UnlockShape, SensorShape, CreateLog, UnlockSteps,
                SensorSteps, RoomSteps
    <2>4. LocalsShape'
      BY <1>21, ReqsAssumption
         DEF TypeOK, Shape, LocalsShape, CreateLog, RoomSteps, AddedSteps
    <2> QED BY <2>1, <2>2, <2>3, <2>4 DEF Shape
  <1>22. ASSUME NEW h \in Reqs, Fail(h) PROVE TypeOK' /\ Shape'
    <2>1. TypeOK'
      BY <1>22, ReqsAssumption, PayloadAssumption, RoomAssumption
         DEF TypeOK, Shape, LocalsShape, Fail, UnlockSteps, SensorSteps,
             AccessLog, UpdatedRoom, NotificationTypes, AddedSteps
    <2>2. UnlockShape'
      BY <1>22, ReqsAssumption, PayloadAssumption
         DEF TypeOK, Shape, UnlockShape, SensorShape, Fail, UnlockSteps, SensorSteps,
                RoomSteps
    <2>3. SensorShape'
      BY <1>22, ReqsAssumption, PayloadAssumption
         DEF TypeOK, Shape, UnlockShape, SensorShape, Fail, UnlockSteps, SensorSteps,
                RoomSteps
    <2>4. LocalsShape'
      BY <1>22, ReqsAssumption
         DEF TypeOK, Shape, LocalsShape, Fail, RoomSteps, AddedSteps
    <2> QED BY <2>1, <2>2, <2>3, <2>4 DEF Shape
  <1>23. ASSUME NEW r \in Rooms, UpdateRoom(r) PROVE TypeOK' /\ Shape'
    <2>1. TypeOK'
      BY <1>23, ReqsAssumption, PayloadAssumption, RoomAssumption
         DEF TypeOK, Shape, LocalsShape, UpdateRoom, UnlockSteps, SensorSteps,
             AccessLog, UpdatedRoom, NotificationTypes, AddedSteps
    <2>2. UnlockShape'
      BY <1>23, ReqsAssumption, PayloadAssumption
         DEF TypeOK, Shape, UnlockShape, SensorShape, UpdateRoom, UnlockSteps,
                SensorSteps, RoomSteps
    <2>3. SensorShape'
      BY <1>23, ReqsAssumption, PayloadAssumption
         DEF TypeOK, Shape, UnlockShape, SensorShape, UpdateRoom, UnlockSteps,
                SensorSteps, RoomSteps
    <2>4. LocalsShape'
      BY <1>23, ReqsAssumption
         DEF TypeOK, Shape, LocalsShape, UpdateRoom, RoomSteps, AddedSteps
    <2> QED BY <2>1, <2>2, <2>3, <2>4 DEF Shape
  <1>24. CASE UNCHANGED vars
    BY <1>24 DEF TypeOK, Shape, UnlockShape, SensorShape, LocalsShape, vars
  <1> QED
    BY <1>1, <1>2, <1>3, <1>4, <1>5, <1>6, <1>7, <1>8, <1>9, <1>10, <1>11, <1>12,
       <1>13, <1>14, <1>15, <1>16, <1>17, <1>18, <1>19, <1>20, <1>21, <1>22, <1>23, <1>24
       DEF Next, UnlockStep, SensorStep, CloudStep, Quiet

\* In every state each table, local and effect of the handlers has its type.
THEOREM TypeCorrect == Spec => []TypeOK
  <1>1. Init => TypeOK /\ Shape BY InitType
  <1>2. TypeOK /\ Shape /\ [Next]_vars => (TypeOK /\ Shape)' BY TypeNext
  <1> QED BY <1>1, <1>2, PTL DEF Spec
-----------------------------------------------------------------------------

\* After room.update the handler holds the row it returned; the other handlers
\* hold what they held.
LEMMA AddPeopleAdds ==
    ASSUME TypeOK, Shape, NEW h \in Reqs, AddPeople(h)
    PROVE  /\ updated'[h] # None
           /\ \A g \in Reqs \ {h} : updated'[g] = updated[g]
  <1>1. Net(Counts(h)) \in Int BY SumsAreIntegers DEF AddPeople, At, Net
  <1>2. room[h] \in Rooms BY DEF TypeOK, Shape, LocalsShape, AddPeople, At, RoomSteps
  <1>3. updated'[h] \in UpdatedRoom BY <1>1, <1>2 DEF TypeOK, AddPeople, UpdatedRoom
  <1> QED BY <1>3, ReqsAssumption DEF TypeOK, AddPeople

\* Every step of every handler keeps the matching invariant.
LEMMA MatchNext ==
    ASSUME IInv, [Next]_vars
    PROVE  Match'
  <1> USE ReqsAssumption
      DEF tables, rooms, locals, effects, history, At, Goto, Reqs,
          IInv, Match, TypeOK, Added, AddedSteps
  <1>1. ASSUME NEW u \in UnlockReqs, ReceiveUnlock(u) PROVE Match'
    BY <1>1 DEF ReceiveUnlock, Arrive, Shape, UnlockShape, SensorShape, LocalsShape,
       Match, UnlockStatus, SensorStatus, Protected, RestBefore, NotReadAgain,
       Counted, ConfirmedEventCounted, ConfirmedSensorCounted, AtRest, RoomSteps
  <1>2. ASSUME NEW u \in UnlockReqs, DebounceUnlock(u) PROVE Match'
    BY <1>2 DEF DebounceUnlock, Shape, UnlockShape, SensorShape, LocalsShape,
       Match, UnlockStatus, SensorStatus, Protected, RestBefore, NotReadAgain,
       Counted, ConfirmedEventCounted, ConfirmedSensorCounted, AtRest, RoomSteps
  <1>3. ASSUME NEW u \in UnlockReqs, LookUpUnlockRoom(u) PROVE Match'
    <2>1. UnlockStatus'
      BY <1>3
         DEF LookUpUnlockRoom, LookUpRoom, RoomsOf, Shape, UnlockShape, LocalsShape,
             UnlockStatus
    <2>2. SensorStatus'
      BY <1>3
         DEF LookUpUnlockRoom, LookUpRoom, RoomsOf, Shape, SensorShape, LocalsShape,
             SensorStatus
    <2>3. Protected'
      BY <1>3
         DEF LookUpUnlockRoom, LookUpRoom, RoomsOf, Shape, UnlockShape, SensorShape,
             UnlockStatus, SensorStatus, Protected
    <2>4. RestBefore'
      BY <1>3
         DEF LookUpUnlockRoom, LookUpRoom, RoomsOf, Shape, LocalsShape, RestBefore, AtRest
    <2>5. NotReadAgain'
      BY <1>3
         DEF LookUpUnlockRoom, LookUpRoom, RoomsOf, Shape, UnlockShape, LocalsShape,
             Protected, RestBefore, NotReadAgain, AtRest
    <2>6. ConfirmedEventCounted'
      BY <1>3
         DEF LookUpUnlockRoom, LookUpRoom, RoomsOf, Shape, UnlockShape, SensorShape,
             LocalsShape, UnlockStatus, SensorStatus, Counted, ConfirmedEventCounted,
             RoomSteps
    <2>7. ConfirmedSensorCounted'
      BY <1>3
         DEF LookUpUnlockRoom, LookUpRoom, RoomsOf, Shape, UnlockShape, SensorShape,
             SensorStatus, UnlockStatus, Counted, ConfirmedSensorCounted
    <2> QED BY <2>1, <2>2, <2>3, <2>4, <2>5, <2>6, <2>7 DEF Match, Counted
  <1>4. ASSUME NEW u \in UnlockReqs, ReadUnconfirmed(u) PROVE Match'
    <2>1. UnlockStatus'
      BY <1>4
         DEF ReadUnconfirmed, SensorRows, Shape, UnlockShape, LocalsShape, UnlockStatus
    <2>2. SensorStatus'
      BY <1>4
         DEF ReadUnconfirmed, SensorRows, Shape, SensorShape, LocalsShape, SensorStatus
    <2>3. Protected'
      BY SMTT(30), <1>4
         DEF ReadUnconfirmed, SensorRows, Shape, UnlockShape, SensorShape, UnlockStatus,
             SensorStatus, Protected
    <2>4. RestBefore'
      BY <1>4 DEF ReadUnconfirmed, SensorRows, Shape, LocalsShape, RestBefore, AtRest
    <2>5. NotReadAgain'
      BY <1>4
         DEF ReadUnconfirmed, SensorRows, Shape, UnlockShape, LocalsShape, Protected,
             RestBefore, NotReadAgain, AtRest
    <2>6. ConfirmedEventCounted'
      BY <1>4
         DEF ReadUnconfirmed, SensorRows, Shape, UnlockShape, SensorShape, LocalsShape,
             UnlockStatus, SensorStatus, Counted, ConfirmedEventCounted, RoomSteps
    <2>7. ConfirmedSensorCounted'
      BY <1>4
         DEF ReadUnconfirmed, SensorRows, Shape, UnlockShape, SensorShape, SensorStatus,
             UnlockStatus, Counted, ConfirmedSensorCounted
    <2> QED BY <2>1, <2>2, <2>3, <2>4, <2>5, <2>6, <2>7 DEF Match, Counted
  <1>5. ASSUME NEW u \in UnlockReqs, ReadPending(u) PROVE Match'
    <2>1. UnlockStatus'
      BY <1>5 DEF ReadPending, SensorRows, Shape, UnlockShape, LocalsShape, UnlockStatus
    <2>2. SensorStatus'
      BY <1>5 DEF ReadPending, SensorRows, Shape, SensorShape, LocalsShape, SensorStatus
    <2>3. Protected'
      BY <1>5
         DEF ReadPending, SensorRows, Shape, UnlockShape, SensorShape, UnlockStatus,
             SensorStatus, Protected
    <2>4. RestBefore'
      BY <1>5 DEF ReadPending, SensorRows, Shape, LocalsShape, RestBefore, AtRest
    <2>5. NotReadAgain'
      BY <1>5
         DEF ReadPending, SensorRows, Shape, UnlockShape, LocalsShape, Protected,
             RestBefore, NotReadAgain, AtRest
    <2>6. ConfirmedEventCounted'
      BY <1>5
         DEF ReadPending, SensorRows, Shape, UnlockShape, SensorShape, LocalsShape,
             UnlockStatus, SensorStatus, Counted, ConfirmedEventCounted, RoomSteps
    <2>7. ConfirmedSensorCounted'
      BY <1>5
         DEF ReadPending, SensorRows, Shape, UnlockShape, SensorShape, SensorStatus,
             UnlockStatus, Counted, ConfirmedSensorCounted
    <2> QED BY <2>1, <2>2, <2>3, <2>4, <2>5, <2>6, <2>7 DEF Match, Counted
  <1>6. ASSUME NEW u \in UnlockReqs, ConfirmSensors(u) PROVE Match'
    BY <1>6 DEF ConfirmSensors, Shape, UnlockShape, SensorShape, LocalsShape,
       Match, UnlockStatus, SensorStatus, Protected, RestBefore, NotReadAgain,
       Counted, ConfirmedEventCounted, ConfirmedSensorCounted, AtRest, RoomSteps
  <1>7. ASSUME NEW u \in UnlockReqs, SendUnlockTenant(u) PROVE Match'
    BY <1>7
       DEF SendUnlockTenant, EmitTenant, Shape, UnlockShape, SensorShape, LocalsShape,
       Match, UnlockStatus, SensorStatus, Protected, RestBefore, NotReadAgain,
       Counted, ConfirmedEventCounted, ConfirmedSensorCounted, AtRest, RoomSteps
  <1>8. ASSUME NEW u \in UnlockReqs, SendUnlockLog(u) PROVE Match'
    BY <1>8
       DEF SendUnlockLog, Publish, OccupancyAlert, Shape, UnlockShape, SensorShape,
           LocalsShape,
       Match, UnlockStatus, SensorStatus, Protected, RestBefore, NotReadAgain,
       Counted, ConfirmedEventCounted, ConfirmedSensorCounted, AtRest, RoomSteps
  <1>9. ASSUME NEW u \in UnlockReqs, CreateEvent(u) PROVE Match'
    BY <1>9 DEF CreateEvent, Shape, UnlockShape, SensorShape, LocalsShape,
       Match, UnlockStatus, SensorStatus, Protected, RestBefore, NotReadAgain,
       Counted, ConfirmedEventCounted, ConfirmedSensorCounted, AtRest, RoomSteps
  <1>10. ASSUME NEW s \in SensorReqs, ReceiveSensor(s) PROVE Match'
    BY <1>10 DEF ReceiveSensor, Arrive, Shape, UnlockShape, SensorShape, LocalsShape,
       Match, UnlockStatus, SensorStatus, Protected, RestBefore, NotReadAgain,
       Counted, ConfirmedEventCounted, ConfirmedSensorCounted, AtRest, RoomSteps
  <1>11. ASSUME NEW s \in SensorReqs, FindEvent(s) PROVE Match'
    <2>1. UnlockStatus'
      BY <1>11 DEF FindEvent, PendingEvents, Shape, UnlockShape, LocalsShape, UnlockStatus
    <2>2. SensorStatus'
      BY <1>11 DEF FindEvent, PendingEvents, Shape, SensorShape, LocalsShape, SensorStatus
    <2>3. Protected'
      BY <1>11
         DEF FindEvent, PendingEvents, Shape, UnlockShape, SensorShape, UnlockStatus,
             SensorStatus, Protected
    <2>4. RestBefore'
      BY <1>11 DEF FindEvent, PendingEvents, Shape, LocalsShape, RestBefore, AtRest
    <2>5. NotReadAgain'
      BY <1>11
         DEF FindEvent, PendingEvents, Shape, UnlockShape, LocalsShape, Protected,
             RestBefore, NotReadAgain, AtRest
    <2>6. ConfirmedEventCounted'
      BY <1>11
         DEF FindEvent, PendingEvents, Shape, UnlockShape, SensorShape, LocalsShape,
             UnlockStatus, SensorStatus, Counted, ConfirmedEventCounted, RoomSteps
    <2>7. ConfirmedSensorCounted'
      BY <1>11
         DEF FindEvent, PendingEvents, Shape, UnlockShape, SensorShape, SensorStatus,
             UnlockStatus, Counted, ConfirmedSensorCounted
    <2> QED BY <2>1, <2>2, <2>3, <2>4, <2>5, <2>6, <2>7 DEF Match, Counted
  <1>12. ASSUME NEW s \in SensorReqs, AskStatus(s) PROVE Match'
    BY <1>12 DEF AskStatus, Shape, UnlockShape, SensorShape, LocalsShape,
       Match, UnlockStatus, SensorStatus, Protected, RestBefore, NotReadAgain,
       Counted, ConfirmedEventCounted, ConfirmedSensorCounted, AtRest, RoomSteps
  <1>13. ASSUME NEW s \in SensorReqs, FindRecent(s) PROVE Match'
    <2>1. UnlockStatus'
      BY <1>13 DEF FindRecent, LatestEvents, Shape, UnlockShape, LocalsShape, UnlockStatus
    <2>2. SensorStatus'
      BY <1>13 DEF FindRecent, LatestEvents, Shape, SensorShape, LocalsShape, SensorStatus
    <2>3. Protected'
      BY <1>13
         DEF FindRecent, LatestEvents, Shape, UnlockShape, SensorShape, UnlockStatus,
             SensorStatus, Protected
    <2>4. RestBefore'
      BY <1>13 DEF FindRecent, LatestEvents, Shape, LocalsShape, RestBefore, AtRest
    <2>5. NotReadAgain'
      BY <1>13
         DEF FindRecent, LatestEvents, Shape, UnlockShape, LocalsShape, Protected,
             RestBefore, NotReadAgain, AtRest
    <2>6. ConfirmedEventCounted'
      BY <1>13
         DEF FindRecent, LatestEvents, Shape, UnlockShape, SensorShape, LocalsShape,
             UnlockStatus, SensorStatus, Counted, ConfirmedEventCounted, RoomSteps
    <2>7. ConfirmedSensorCounted'
      BY <1>13
         DEF FindRecent, LatestEvents, Shape, UnlockShape, SensorShape, SensorStatus,
             UnlockStatus, Counted, ConfirmedSensorCounted
    <2> QED BY <2>1, <2>2, <2>3, <2>4, <2>5, <2>6, <2>7 DEF Match, Counted
  <1>14. ASSUME NEW s \in SensorReqs, AskHistory(s) PROVE Match'
    BY <1>14 DEF AskHistory, Shape, UnlockShape, SensorShape, LocalsShape,
       Match, UnlockStatus, SensorStatus, Protected, RestBefore, NotReadAgain,
       Counted, ConfirmedEventCounted, ConfirmedSensorCounted, AtRest, RoomSteps
  <1>15. ASSUME NEW s \in SensorReqs, LookUpSensorRoom(s) PROVE Match'
    <2>1. UnlockStatus'
      BY <1>15
         DEF LookUpSensorRoom, LookUpRoom, RoomsOf, Shape, UnlockShape, LocalsShape,
             UnlockStatus
    <2>2. SensorStatus'
      BY <1>15
         DEF LookUpSensorRoom, LookUpRoom, RoomsOf, Shape, SensorShape, LocalsShape,
             SensorStatus
    <2>3. Protected'
      BY <1>15
         DEF LookUpSensorRoom, LookUpRoom, RoomsOf, Shape, UnlockShape, SensorShape,
             UnlockStatus, SensorStatus, Protected
    <2>4. RestBefore'
      BY <1>15
         DEF LookUpSensorRoom, LookUpRoom, RoomsOf, Shape, LocalsShape, RestBefore, AtRest
    <2>5. NotReadAgain'
      BY <1>15
         DEF LookUpSensorRoom, LookUpRoom, RoomsOf, Shape, UnlockShape, LocalsShape,
             Protected, RestBefore, NotReadAgain, AtRest
    <2>6. ConfirmedEventCounted'
      BY <1>15
         DEF LookUpSensorRoom, LookUpRoom, RoomsOf, Shape, UnlockShape, SensorShape,
             LocalsShape, UnlockStatus, SensorStatus, Counted, ConfirmedEventCounted,
             RoomSteps
    <2>7. ConfirmedSensorCounted'
      BY <1>15
         DEF LookUpSensorRoom, LookUpRoom, RoomsOf, Shape, UnlockShape, SensorShape,
             SensorStatus, UnlockStatus, Counted, ConfirmedSensorCounted
    <2> QED BY <2>1, <2>2, <2>3, <2>4, <2>5, <2>6, <2>7 DEF Match, Counted
  <1>16. ASSUME NEW s \in SensorReqs, SendSensorTenant(s) PROVE Match'
    BY SMTT(30), <1>16
       DEF SendSensorTenant, EmitTenant, Publish, OccupancyAlert, Shape, UnlockShape,
           SensorShape, LocalsShape,
       Match, UnlockStatus, SensorStatus, Protected, RestBefore, NotReadAgain,
       Counted, ConfirmedEventCounted, ConfirmedSensorCounted, AtRest, RoomSteps
  <1>17. ASSUME NEW s \in SensorReqs, ConfirmEvent(s) PROVE Match'
    <2>1. UnlockStatus'
      BY <1>17 DEF ConfirmEvent, EventOf, Shape, UnlockShape, LocalsShape, UnlockStatus
    <2>2. SensorStatus'
      BY <1>17 DEF ConfirmEvent, EventOf, Shape, SensorShape, LocalsShape, SensorStatus
    <2>3. Protected'
      BY <1>17
         DEF ConfirmEvent, EventOf, Shape, UnlockShape, SensorShape, UnlockStatus,
             SensorStatus, Protected
    <2>4. RestBefore'
      BY <1>17 DEF ConfirmEvent, EventOf, Shape, LocalsShape, RestBefore, AtRest
    <2>5. NotReadAgain'
      BY <1>17
         DEF ConfirmEvent, EventOf, Shape, UnlockShape, LocalsShape, Protected,
             RestBefore, NotReadAgain, AtRest
    <2>6. ConfirmedEventCounted'
      BY SMTT(30), <1>17
         DEF ConfirmEvent, EventOf, Shape, UnlockShape, SensorShape, LocalsShape,
             UnlockStatus, SensorStatus, Counted, ConfirmedEventCounted, RoomSteps
    <2>7. ConfirmedSensorCounted'
      BY <1>17
         DEF ConfirmEvent, EventOf, Shape, UnlockShape, SensorShape, SensorStatus,
             UnlockStatus, Counted, ConfirmedSensorCounted
    <2> QED BY <2>1, <2>2, <2>3, <2>4, <2>5, <2>6, <2>7 DEF Match, Counted
  <1>18. ASSUME NEW s \in SensorReqs, SendSensorLog(s) PROVE Match'
    BY <1>18 DEF SendSensorLog, Shape, UnlockShape, SensorShape, LocalsShape,
       Match, UnlockStatus, SensorStatus, Protected, RestBefore, NotReadAgain,
       Counted, ConfirmedEventCounted, ConfirmedSensorCounted, AtRest, RoomSteps
  <1>19. ASSUME NEW s \in SensorReqs, CreateSensor(s) PROVE Match'
    BY <1>19 DEF CreateSensor, Shape, UnlockShape, SensorShape, LocalsShape,
       Match, UnlockStatus, SensorStatus, Protected, RestBefore, NotReadAgain,
       Counted, ConfirmedEventCounted, ConfirmedSensorCounted, AtRest, RoomSteps
  <1>20. ASSUME NEW h \in Reqs, AddPeople(h) PROVE Match'
    <2>1. UnlockStatus'
      BY <1>20, AddPeopleAdds DEF AddPeople, Shape, UnlockShape, LocalsShape, UnlockStatus
    <2>2. SensorStatus'
      BY <1>20, AddPeopleAdds DEF AddPeople, Shape, SensorShape, LocalsShape, SensorStatus
    <2>3. Protected'
      BY <1>20, AddPeopleAdds
         DEF AddPeople, Shape, UnlockShape, SensorShape, UnlockStatus, SensorStatus,
             Protected
    <2>4. RestBefore'
      BY <1>20, AddPeopleAdds DEF AddPeople, Shape, LocalsShape, RestBefore, AtRest
    <2>5. NotReadAgain'
      BY <1>20, AddPeopleAdds
         DEF AddPeople, Shape, UnlockShape, LocalsShape, Protected, RestBefore,
             NotReadAgain, AtRest
    <2>6. ConfirmedEventCounted'
      BY <1>20, AddPeopleAdds
         DEF AddPeople, Shape, UnlockShape, SensorShape, LocalsShape, UnlockStatus,
             SensorStatus, Counted, ConfirmedEventCounted, RoomSteps
    <2>7. ConfirmedSensorCounted'
      BY <1>20, AddPeopleAdds
         DEF AddPeople, Shape, UnlockShape, SensorShape, SensorStatus, UnlockStatus,
             Counted, ConfirmedSensorCounted
    <2> QED BY <2>1, <2>2, <2>3, <2>4, <2>5, <2>6, <2>7 DEF Match, Counted
  <1>21. ASSUME NEW h \in Reqs, CreateLog(h) PROVE Match'
    BY <1>21 DEF CreateLog, Shape, UnlockShape, SensorShape, LocalsShape,
       Match, UnlockStatus, SensorStatus, Protected, RestBefore, NotReadAgain,
       Counted, ConfirmedEventCounted, ConfirmedSensorCounted, AtRest, RoomSteps
  <1>22. ASSUME NEW h \in Reqs, Fail(h) PROVE Match'
    BY <1>22 DEF Fail, Shape, UnlockShape, SensorShape, LocalsShape,
       Match, UnlockStatus, SensorStatus, Protected, RestBefore, NotReadAgain,
       Counted, ConfirmedEventCounted, ConfirmedSensorCounted, AtRest, RoomSteps
  <1>23. ASSUME NEW r \in Rooms, UpdateRoom(r) PROVE Match'
    BY <1>23 DEF UpdateRoom, Shape, UnlockShape, SensorShape, LocalsShape,
       Match, UnlockStatus, SensorStatus, Protected, RestBefore, NotReadAgain,
       Counted, ConfirmedEventCounted, ConfirmedSensorCounted, AtRest, RoomSteps
  <1>24. CASE UNCHANGED vars
    BY <1>24
       DEF vars, Match, UnlockStatus, SensorStatus, Protected, RestBefore, NotReadAgain,
       Counted, ConfirmedEventCounted, ConfirmedSensorCounted, AtRest
  <1> QED
    BY <1>1, <1>2, <1>3, <1>4, <1>5, <1>6, <1>7, <1>8, <1>9, <1>10, <1>11, <1>12,
       <1>13, <1>14, <1>15, <1>16, <1>17, <1>18, <1>19, <1>20, <1>21, <1>22, <1>23, <1>24
       DEF Next, UnlockStep, SensorStep, CloudStep, Quiet

\* Nothing has been counted and no handler has started.
LEMMA InitMatch == Init => Match
  <1> SUFFICES ASSUME Init PROVE Match OBVIOUS
  <1>1. UnlockStatus /\ SensorStatus BY DEF Init, UnlockStatus, SensorStatus, Added, Reqs
  <1>2. Protected /\ RestBefore /\ NotReadAgain
    BY DEF Init, Protected, RestBefore, NotReadAgain, Added, Reqs
  <1>3. Counted BY DEF Init, Counted, ConfirmedEventCounted, ConfirmedSensorCounted
  <1> QED BY <1>1, <1>2, <1>3 DEF Match

\* The invariant is inductive.
THEOREM InvariantHolds == Spec => []IInv
  <1>1. Init => IInv BY InitType, InitMatch DEF IInv
  <1>2. IInv /\ [Next]_vars => IInv' BY TypeNext, MatchNext DEF IInv
  <1> QED BY <1>1, <1>2, PTL DEF Spec

\* No failure and no interleaving leaves an unlock event CONFIRMED whose people
\* were not added to a room.
THEOREM EventsCounted == Spec => []ConfirmedEventCounted
  <1>1. IInv => ConfirmedEventCounted BY DEF IInv, Match, Counted
  <1> QED BY <1>1, InvariantHolds, PTL

\* A CONFIRMED reading was added to a room, or its unlock handler stands (or
\* died) between logSensor.updateMany and room.update.
THEOREM SensorsCounted == Spec => []ConfirmedSensorCounted
  <1>1. IInv => ConfirmedSensorCounted BY DEF IInv, Match, Counted
  <1> QED BY <1>1, InvariantHolds, PTL

\* A reading is added twice only by handlers that overlapped.
THEOREM CountedTwiceOnlyByOverlap == Spec => []ReadingCountedTwiceOnlyByOverlap
  <1>1. ASSUME IInv PROVE ReadingCountedTwiceOnlyByOverlap
    <2> SUFFICES ASSUME NEW s \in SensorReqs, NEW h \in Reqs, NEW g \in Reqs,
                        h # g, Added(h), Added(g), s \in Counts(h) \cap Counts(g)
                 PROVE  Concurrent(h, g)
        BY DEF ReadingCountedTwiceOnlyByOverlap
    <2>1. CASE h \in SensorReqs \/ g \in SensorReqs
      BY <1>1, <2>1 DEF IInv, Match, Protected, Counts, Reqs
    <2>2. CASE h \in UnlockReqs /\ g \in UnlockReqs
      BY <1>1, <2>2, ReqsAssumption DEF IInv, Match, NotReadAgain, Counts, Concurrent
    <2> QED BY <2>1, <2>2 DEF Reqs
  <1> QED BY <1>1, InvariantHolds, PTL

-----------------------------------------------------------------------------
(* The refinement of the ledger.                                           *)

\* A handler writes its access log when it stands at createLog, and never comes
\* back there.
LoggedAfter ==
    \A h \in Reqs : accessLog[h] # None =>
        pc[h] \in {"sendLog", "createEvent", "createSensor", "done"}

\* h holds the row it was answered, and the room and the rows it counted; and no
\* received payload changes.
HandlerKept(h) ==
    /\ updated'[h] = updated[h]
    /\ Added(h) => room'[h] = room[h] /\ found'[h] = found[h]
    /\ \A g \in Reqs : pc[g] # "idle" => req'[g] = req[g]

\* No other step than its own room.update changes what a handler has booked.
LEMMA HandlerStep ==
    ASSUME IInv, [Next]_vars, NEW h \in Reqs, ~AddPeople(h)
    PROVE  HandlerKept(h)
  <1> USE DEF tables, rooms, locals, effects, history, At, Goto, IInv, Match, HandlerKept
  <1>1. ASSUME NEW u \in UnlockReqs, ReceiveUnlock(u) PROVE HandlerKept(h)
    BY <1>1, ReqsAssumption
       DEF ReceiveUnlock, Arrive, TypeOK, UnlockStatus, SensorStatus, AddedSteps, Reqs
  <1>2. ASSUME NEW u \in UnlockReqs, DebounceUnlock(u) PROVE HandlerKept(h)
    BY <1>2, ReqsAssumption
       DEF DebounceUnlock, TypeOK, UnlockStatus, SensorStatus, AddedSteps, Reqs
  <1>3. ASSUME NEW u \in UnlockReqs, LookUpUnlockRoom(u) PROVE HandlerKept(h)
    BY <1>3, ReqsAssumption
       DEF LookUpUnlockRoom, LookUpRoom, TypeOK, UnlockStatus, SensorStatus, AddedSteps, Reqs
  <1>4. ASSUME NEW u \in UnlockReqs, ReadUnconfirmed(u) PROVE HandlerKept(h)
    BY <1>4, ReqsAssumption
       DEF ReadUnconfirmed, TypeOK, UnlockStatus, SensorStatus, AddedSteps, Reqs
  <1>5. ASSUME NEW u \in UnlockReqs, ReadPending(u) PROVE HandlerKept(h)
    BY <1>5, ReqsAssumption
       DEF ReadPending, TypeOK, UnlockStatus, SensorStatus, AddedSteps, Reqs
  <1>6. ASSUME NEW u \in UnlockReqs, ConfirmSensors(u) PROVE HandlerKept(h)
    BY <1>6, ReqsAssumption
       DEF ConfirmSensors, TypeOK, UnlockStatus, SensorStatus, AddedSteps, Reqs
  <1>7. ASSUME NEW u \in UnlockReqs, SendUnlockTenant(u) PROVE HandlerKept(h)
    BY <1>7, ReqsAssumption
       DEF SendUnlockTenant, EmitTenant, TypeOK, UnlockStatus, SensorStatus, AddedSteps, Reqs
  <1>8. ASSUME NEW u \in UnlockReqs, SendUnlockLog(u) PROVE HandlerKept(h)
    BY <1>8, ReqsAssumption
       DEF SendUnlockLog, TypeOK, UnlockStatus, SensorStatus, AddedSteps, Reqs
  <1>9. ASSUME NEW u \in UnlockReqs, CreateEvent(u) PROVE HandlerKept(h)
    BY <1>9, ReqsAssumption
       DEF CreateEvent, TypeOK, UnlockStatus, SensorStatus, AddedSteps, Reqs
  <1>10. ASSUME NEW s \in SensorReqs, ReceiveSensor(s) PROVE HandlerKept(h)
    BY <1>10, ReqsAssumption
       DEF ReceiveSensor, Arrive, TypeOK, UnlockStatus, SensorStatus, AddedSteps, Reqs
  <1>11. ASSUME NEW s \in SensorReqs, FindEvent(s) PROVE HandlerKept(h)
    BY <1>11, ReqsAssumption
       DEF FindEvent, TypeOK, UnlockStatus, SensorStatus, AddedSteps, Reqs
  <1>12. ASSUME NEW s \in SensorReqs, AskStatus(s) PROVE HandlerKept(h)
    BY <1>12, ReqsAssumption
       DEF AskStatus, TypeOK, UnlockStatus, SensorStatus, AddedSteps, Reqs
  <1>13. ASSUME NEW s \in SensorReqs, FindRecent(s) PROVE HandlerKept(h)
    BY <1>13, ReqsAssumption
       DEF FindRecent, TypeOK, UnlockStatus, SensorStatus, AddedSteps, Reqs
  <1>14. ASSUME NEW s \in SensorReqs, AskHistory(s) PROVE HandlerKept(h)
    BY <1>14, ReqsAssumption
       DEF AskHistory, TypeOK, UnlockStatus, SensorStatus, AddedSteps, Reqs
  <1>15. ASSUME NEW s \in SensorReqs, LookUpSensorRoom(s) PROVE HandlerKept(h)
    BY <1>15, ReqsAssumption
       DEF LookUpSensorRoom, LookUpRoom, TypeOK, UnlockStatus, SensorStatus, AddedSteps, Reqs
  <1>16. ASSUME NEW s \in SensorReqs, SendSensorTenant(s) PROVE HandlerKept(h)
    BY <1>16, ReqsAssumption
       DEF SendSensorTenant, EmitTenant, TypeOK, UnlockStatus, SensorStatus, AddedSteps, Reqs
  <1>17. ASSUME NEW s \in SensorReqs, ConfirmEvent(s) PROVE HandlerKept(h)
    BY <1>17, ReqsAssumption
       DEF ConfirmEvent, TypeOK, UnlockStatus, SensorStatus, AddedSteps, Reqs
  <1>18. ASSUME NEW s \in SensorReqs, SendSensorLog(s) PROVE HandlerKept(h)
    BY <1>18, ReqsAssumption
       DEF SendSensorLog, TypeOK, UnlockStatus, SensorStatus, AddedSteps, Reqs
  <1>19. ASSUME NEW s \in SensorReqs, CreateSensor(s) PROVE HandlerKept(h)
    BY <1>19, ReqsAssumption
       DEF CreateSensor, TypeOK, UnlockStatus, SensorStatus, AddedSteps, Reqs
  <1>20. ASSUME NEW g \in Reqs, AddPeople(g) PROVE HandlerKept(h)
    BY <1>20, AddPeopleAdds DEF AddPeople
  <1>21. ASSUME NEW g \in Reqs, CreateLog(g) PROVE HandlerKept(h)
    BY <1>21 DEF CreateLog
  <1>22. ASSUME NEW g \in Reqs, Fail(g) PROVE HandlerKept(h)
    BY <1>22 DEF Fail
  <1>23. ASSUME NEW r \in Rooms, UpdateRoom(r) PROVE HandlerKept(h)
    BY <1>23 DEF UpdateRoom
  <1>24. CASE UNCHANGED vars
    BY <1>24 DEF vars
  <1> QED
    BY <1>1, <1>2, <1>3, <1>4, <1>5, <1>6, <1>7, <1>8, <1>9, <1>10, <1>11, <1>12,
       <1>13, <1>14, <1>15, <1>16, <1>17, <1>18, <1>19, <1>20, <1>21, <1>22, <1>23, <1>24
       DEF Next, UnlockStep, SensorStep, CloudStep, Quiet, Reqs

\* The sums of a handler's counts depend on its rows and on their payloads only.
LEMMA SumsKept ==
    ASSUME NEW h \in Reqs, Counts(h)' = Counts(h),
           \A s \in Counts(h) : req'[s] = req[s]
    PROVE  /\ PeopleIn(Counts(h))' = PeopleIn(Counts(h))
           /\ PeopleOut(Counts(h))' = PeopleOut(Counts(h))
  <1> DEFINE in(q, C)  == [s \in C |-> q[s].in]
             out(q, C) == [s \in C |-> q[s].out]
  <1>1. in(req', Counts(h)) = in(req, Counts(h)) OBVIOUS
  <1>2. out(req', Counts(h)) = out(req, Counts(h)) OBVIOUS
  <1> HIDE DEF Counts
  <1> QED BY <1>1, <1>2 DEF PeopleIn, PeopleOut

\* The rows a handler has counted were received before it counted them.
LEMMA CountedReceived ==
    ASSUME IInv, NEW h \in Reqs, Added(h) \/ pc[h] = "addPeople", NEW s \in Counts(h)
    PROVE  s \in Reqs /\ pc[s] # "idle"
  BY ReqsAssumption DEF IInv, Match, Shape, UnlockShape, SensorShape, UnlockStatus, SensorStatus,
     Counts, Reqs, AddedSteps

LEMMA BookedKept ==
    ASSUME IInv, [Next]_vars, NEW h \in Reqs, ~AddPeople(h)
    PROVE  Booked(h)' = Booked(h)
  <1>1. Added(h)' <=> Added(h) BY HandlerStep DEF Added, HandlerKept
  <1>2. CASE ~Added(h) BY <1>1, <1>2 DEF Booked
  <1>3. CASE Added(h)
    <2>1. room'[h] = room[h] /\ Counts(h)' = Counts(h) BY <1>3, HandlerStep DEF Counts, HandlerKept
    <2>2. \A s \in Counts(h) : req'[s] = req[s] BY <1>3, HandlerStep, CountedReceived DEF HandlerKept
    <2>3. /\ PeopleIn(Counts(h))' = PeopleIn(Counts(h))
          /\ PeopleOut(Counts(h))' = PeopleOut(Counts(h))
      BY <2>1, <2>2, SumsKept
    <2> QED BY <1>1, <1>3, <2>1, <2>3 DEF Booked
  <1> QED BY <1>2, <1>3

\* An access log stays behind its handler.
LEMMA LoggedNext ==
    ASSUME IInv, LoggedAfter, [Next]_vars
    PROVE  LoggedAfter'
  <1> USE ReqsAssumption
      DEF tables, rooms, locals, effects, history, At, Goto, Reqs, IInv, TypeOK, LoggedAfter
  <1>1. ASSUME NEW u \in UnlockReqs, ReceiveUnlock(u) PROVE LoggedAfter'
    BY <1>1 DEF ReceiveUnlock, Arrive
  <1>2. ASSUME NEW u \in UnlockReqs, DebounceUnlock(u) PROVE LoggedAfter'
    BY <1>2 DEF DebounceUnlock
  <1>3. ASSUME NEW u \in UnlockReqs, LookUpUnlockRoom(u) PROVE LoggedAfter'
    BY <1>3 DEF LookUpUnlockRoom, LookUpRoom
  <1>4. ASSUME NEW u \in UnlockReqs, ReadUnconfirmed(u) PROVE LoggedAfter'
    BY <1>4 DEF ReadUnconfirmed
  <1>5. ASSUME NEW u \in UnlockReqs, ReadPending(u) PROVE LoggedAfter'
    BY <1>5 DEF ReadPending
  <1>6. ASSUME NEW u \in UnlockReqs, ConfirmSensors(u) PROVE LoggedAfter'
    BY <1>6 DEF ConfirmSensors
  <1>7. ASSUME NEW u \in UnlockReqs, SendUnlockTenant(u) PROVE LoggedAfter'
    BY <1>7 DEF SendUnlockTenant
  <1>8. ASSUME NEW u \in UnlockReqs, SendUnlockLog(u) PROVE LoggedAfter'
    BY <1>8 DEF SendUnlockLog
  <1>9. ASSUME NEW u \in UnlockReqs, CreateEvent(u) PROVE LoggedAfter'
    BY <1>9 DEF CreateEvent
  <1>10. ASSUME NEW s \in SensorReqs, ReceiveSensor(s) PROVE LoggedAfter'
    BY <1>10 DEF ReceiveSensor, Arrive
  <1>11. ASSUME NEW s \in SensorReqs, FindEvent(s) PROVE LoggedAfter'
    BY <1>11 DEF FindEvent
  <1>12. ASSUME NEW s \in SensorReqs, AskStatus(s) PROVE LoggedAfter'
    BY <1>12 DEF AskStatus
  <1>13. ASSUME NEW s \in SensorReqs, FindRecent(s) PROVE LoggedAfter'
    BY <1>13 DEF FindRecent
  <1>14. ASSUME NEW s \in SensorReqs, AskHistory(s) PROVE LoggedAfter'
    BY <1>14 DEF AskHistory
  <1>15. ASSUME NEW s \in SensorReqs, LookUpSensorRoom(s) PROVE LoggedAfter'
    BY <1>15 DEF LookUpSensorRoom, LookUpRoom
  <1>16. ASSUME NEW s \in SensorReqs, SendSensorTenant(s) PROVE LoggedAfter'
    BY <1>16 DEF SendSensorTenant
  <1>17. ASSUME NEW s \in SensorReqs, ConfirmEvent(s) PROVE LoggedAfter'
    BY <1>17 DEF ConfirmEvent
  <1>18. ASSUME NEW s \in SensorReqs, SendSensorLog(s) PROVE LoggedAfter'
    BY <1>18 DEF SendSensorLog
  <1>19. ASSUME NEW s \in SensorReqs, CreateSensor(s) PROVE LoggedAfter'
    BY <1>19 DEF CreateSensor
  <1>20. ASSUME NEW h \in Reqs, AddPeople(h) PROVE LoggedAfter'
    BY <1>20 DEF AddPeople
  <1>21. ASSUME NEW h \in Reqs, CreateLog(h) PROVE LoggedAfter'
    BY <1>21 DEF CreateLog
  <1>22. ASSUME NEW h \in Reqs, Fail(h) PROVE LoggedAfter'
    BY <1>22 DEF Fail
  <1>23. ASSUME NEW r \in Rooms, UpdateRoom(r) PROVE LoggedAfter'
    BY <1>23 DEF UpdateRoom
  <1>24. CASE UNCHANGED vars BY <1>24 DEF vars
  <1> QED
    BY <1>1, <1>2, <1>3, <1>4, <1>5, <1>6, <1>7, <1>8, <1>9, <1>10, <1>11, <1>12,
       <1>13, <1>14, <1>15, <1>16, <1>17, <1>18, <1>19, <1>20, <1>21, <1>22, <1>23, <1>24
       DEF Next, UnlockStep, SensorStep, CloudStep, Quiet

\* The state of the ledger.
Books == <<currentPeople, [h \in Reqs |-> Booked(h)], accessLog, corrected>>

\* room.update books the passage of its handler, on its room, by its net.
LEMMA AddPeopleBooks ==
    ASSUME IInv, [Next]_vars, NEW h \in Reqs, AddPeople(h)
    PROVE  Ledger!Book(h)
  <1> DEFINE r == room[h]
             i == PeopleIn(Counts(h))
             o == PeopleOut(Counts(h))
  <1>1. TypeOK /\ Shape /\ UnlockStatus /\ SensorStatus BY DEF IInv, Match
  <1>2. pc[h] = "addPeople" /\ r \in Rooms
    BY <1>1 DEF AddPeople, At, TypeOK, Shape, LocalsShape, RoomSteps
  <1>3. i \in Int /\ o \in Int BY <1>1, <1>2, SumsAreIntegers
  <1>4. Booked(h) = None
    BY <1>1, <1>2 DEF UnlockStatus, SensorStatus, Booked, Reqs, AddedSteps
  <1>5. Booked(h)' = [room |-> r, in |-> i, out |-> o]
    <2>1. Counts(h)' = Counts(h) /\ room'[h] = r /\ req' = req
      BY DEF AddPeople, Counts, tables
    <2>2. PeopleIn(Counts(h))' = i /\ PeopleOut(Counts(h))' = o BY <2>1, SumsKept
    <2>3. Added(h)' BY <1>1, AddPeopleAdds DEF Added
    <2> QED BY <2>1, <2>2, <2>3 DEF Booked
  <1>6. \A g \in Reqs \ {h} : Booked(g)' = Booked(g)
    <2>1. \A g \in Reqs \ {h} : ~AddPeople(g) BY <1>1, <1>2 DEF AddPeople, Goto, At, TypeOK
    <2> QED BY <2>1, BookedKept
  <1>7. currentPeople' = [currentPeople EXCEPT ![r] = @ + i - o]
    <2>1. currentPeople[r] \in Int BY <1>1, <1>2 DEF TypeOK
    <2>2. currentPeople[r] + (i - o) = currentPeople[r] + i - o BY <1>3, <2>1
    <2> HIDE DEF i, o
    <2>3. currentPeople' = [currentPeople EXCEPT ![r] = currentPeople[r] + (i - o)]
      BY DEF AddPeople, Net, i, o
    <2> QED BY <2>2, <2>3
  <1>8. UNCHANGED <<accessLog, corrected>> BY DEF AddPeople, tables, history
  <1> HIDE DEF r, i, o
  <1>9. [room |-> r, in |-> i, out |-> o] \in Ledger!Passage BY <1>2, <1>3 DEF Ledger!Passage, r
  <1> DEFINE P == [g \in Reqs |-> Booked(g)]
  <1>10. P[h] = None BY <1>4
  <1>11. P'[h] = [room |-> r, in |-> i, out |-> o] BY <1>5
  <1>12. P' = [P EXCEPT ![h] = P'[h]] BY <1>6
  <1>13. P'[h].room = r /\ P'[h].in = i /\ P'[h].out = o BY <1>11
  <1>14. P'[h] \in Ledger!Passage BY <1>9, <1>11
  <1> HIDE DEF P
  <1>15. currentPeople' = [currentPeople EXCEPT ![P'[h].room] = @ + P'[h].in - P'[h].out]
    BY <1>7, <1>13
  <1> QED BY <1>8, <1>10, <1>12, <1>14, <1>15 DEF Ledger!Book, P

\* Every step of every handler is a step of the ledger, or none of its business.
LEMMA LedgerStep ==
    ASSUME IInv, LoggedAfter, [Next]_vars
    PROVE  [Ledger!Next]_Books
  <1>1. TypeOK /\ Shape BY DEF IInv
  <1>2. CASE \E h \in Reqs : AddPeople(h)
    BY <1>2, AddPeopleBooks DEF Ledger!Next
  <1>3. CASE \A h \in Reqs : ~AddPeople(h)
    <2>1. [h \in Reqs |-> Booked(h)]' = [h \in Reqs |-> Booked(h)] BY <1>3, BookedKept
    <2>2. ASSUME NEW h \in Reqs, CreateLog(h) PROVE Ledger!Log(h)
      <3>1. pc[h] = "createLog" BY <2>2 DEF CreateLog, At
      <3>2. Added(h) BY <1>1, <3>1 DEF Shape, LocalsShape, AddedSteps, Added
      <3>3. room[h] \in Rooms BY <1>1, <3>1 DEF TypeOK, Shape, LocalsShape, RoomSteps
      <3>4. PeopleIn(Counts(h)) \in Int /\ PeopleOut(Counts(h)) \in Int
        BY <1>1, <3>1, SumsAreIntegers
      <3>5. Booked(h) \in AccessLog BY <3>2, <3>3, <3>4 DEF Booked, AccessLog
      <3>6. Booked(h) # None BY <3>5, LogAssumption
      <3>7. accessLog[h] = None BY <3>1 DEF LoggedAfter
      <3>8. accessLog' = [accessLog EXCEPT ![h] = Booked(h)] BY <2>2, <3>2 DEF CreateLog, Booked
      <3>9. UNCHANGED <<currentPeople, corrected>> BY <2>2 DEF CreateLog, rooms, history
      <3> QED BY <2>1, <3>6, <3>7, <3>8, <3>9 DEF Ledger!Log
    <2>3. ASSUME NEW r \in Rooms, UpdateRoom(r) PROVE Ledger!Correct(r)
      <3>1. PICK p \in Recounts \cup {currentPeople[r]} :
              /\ currentPeople' = [currentPeople EXCEPT ![r] = p]
              /\ corrected' = [corrected EXCEPT ![r] = @ + p - currentPeople[r]]
              /\ UNCHANGED accessLog
        BY <2>3 DEF UpdateRoom, tables
      <3>2. p \in Int BY <1>1, <3>1, RoomAssumption DEF TypeOK
      <3>3. currentPeople'[r] = p BY <1>1, <3>1 DEF TypeOK
      <3> QED BY <2>1, <3>1, <3>2, <3>3 DEF Ledger!Correct
    <2>4. CASE UNCHANGED <<currentPeople, accessLog, corrected>> BY <2>1, <2>4 DEF Books
    <2> QED
      BY <1>3, <2>2, <2>3, <2>4
         DEF Next, UnlockStep, SensorStep, CloudStep, Quiet, vars, tables, rooms, history, Reqs,
             ReceiveUnlock, ReceiveSensor, Arrive, DebounceUnlock, LookUpUnlockRoom,
             LookUpSensorRoom, LookUpRoom, ReadUnconfirmed, ReadPending, ConfirmSensors,
             SendUnlockTenant, SendUnlockLog, CreateEvent, FindEvent, AskStatus, FindRecent,
             AskHistory, SendSensorTenant, ConfirmEvent, SendSensorLog, CreateSensor, Fail,
             Ledger!Next
  <1> QED BY <1>2, <1>3

\* The handlers, cut into queries that others may come between and that may fail, keep the
\* ledger: each books its people once and logs what it has booked.
THEOREM HandlersKeepLedger == Spec => KeepsLedger
  <1>1. Init => LoggedAfter BY DEF Init, LoggedAfter
  <1>2. Init => Ledger!Init BY DEF Init, Ledger!Init, Booked, Added
  <1>3. IInv /\ LoggedAfter /\ [Next]_vars => LoggedAfter' BY LoggedNext
  <1>4. IInv /\ LoggedAfter /\ [Next]_vars => [Ledger!Next]_Books BY LedgerStep
  <1>5. Ledger!Spec <=> Ledger!Init /\ [][Ledger!Next]_Books
    BY DEF Ledger!Spec, Ledger!books, Books
  <1> QED BY <1>1, <1>2, <1>3, <1>4, <1>5, InvariantHolds, PTL DEF Spec, KeepsLedger

\* A handler that has added people has a room.
LEMMA AdderHasRoom ==
    ASSUME IInv, \A h \in Reqs : Added(h) => room[h] \in Rooms, [Next]_vars
    PROVE  \A h \in Reqs : Added(h)' => room'[h] \in Rooms
  <1> SUFFICES ASSUME NEW h \in Reqs, Added(h)' PROVE room'[h] \in Rooms
      OBVIOUS
  <1>1. CASE AddPeople(h)
    BY <1>1 DEF AddPeople, At, IInv, TypeOK, Shape, LocalsShape, RoomSteps
  <1>2. CASE ~AddPeople(h) BY <1>2, HandlerStep DEF HandlerKept, Added
  <1> QED BY <1>1, <1>2

\* A passage booked on a room adds what it brings to that room's takings only.
LEMMA TakingsAdd ==
    ASSUME NEW P \in [Reqs -> AccessLog \cup {None}],
           FinitelyMany(P), NEW h \in Reqs, P[h] = None, NEW b \in AccessLog, NEW r \in Rooms
    PROVE  /\ Takings(P, r) \in Int
           /\ Takings([P EXCEPT ![h] = b], r)
                = (IF b.room = r THEN b.in - b.out ELSE 0) + Takings(P, r)
  <1> DEFINE Q == [P EXCEPT ![h] = b]
             S == BookersOf(P, r)
             v == [g \in S |-> P[g].in - P[g].out]
             w == [g \in BookersOf(Q, r) |-> Q[g].in - Q[g].out]
  <1>1. \A g \in Reqs \ {h} : Q[g] = P[g] OBVIOUS
  <1>2. Q[h] = b /\ b # None BY LogAssumption
  <1>3. IsFiniteSet(S) /\ h \notin S /\ S \subseteq Reqs BY FS_Subset DEF BookersOf, FinitelyMany
  <1>4. v \in [S -> Int] BY DEF BookersOf, AccessLog
  <1>5. Takings(P, r) = SumOf(v) BY DEF Takings, Total, SumOf
  <1>6. Takings(Q, r) = SumOf(w) BY DEF Takings, Total, SumOf
  <1>7. SumOf(v) \in Int
    <2> HIDE DEF v, S
    <2> QED BY <1>3, <1>4, TotalType DEF SumOf
  <1>8. CASE b.room = r
    <2>1. BookersOf(Q, r) = S \cup {h} BY <1>1, <1>2, <1>8 DEF BookersOf
    <2>2. w[h] = b.in - b.out BY <1>2, <2>1
    <2>3. \A g \in S : w[g] = v[g] BY <1>1, <1>3, <2>1
    <2>4. w \in [S \cup {h} -> Int]
      <3>1. w[h] \in Int BY <2>2 DEF AccessLog
      <3>2. w = [g \in S \cup {h} |-> w[g]]
        <4>1. w = [g \in BookersOf(Q, r) |-> w[g]] OBVIOUS
        <4> HIDE DEF S, v, w, Q
        <4> QED BY <2>1, <4>1
      <3> HIDE DEF S, v, w, Q
      <3>3. \A g \in S : w[g] \in Int BY <1>4, <2>3
      <3> QED BY <3>1, <3>2, <3>3
    <2> HIDE DEF S, v, w, Q
    <2>5. OneMore(S, v, h, w) BY <1>3, <1>4, <2>3, <2>4 DEF OneMore
    <2>6. SumOf(w) = w[h] + SumOf(v) BY <2>5, TotalAdd
    <2> QED BY <1>5, <1>6, <1>7, <1>8, <2>2, <2>6 DEF Q
  <1>9. CASE b.room # r
    <2>1. BookersOf(Q, r) = S BY <1>1, <1>2, <1>9 DEF BookersOf
    <2>2. w = v BY <1>1, <1>3, <2>1
    <2> HIDE DEF S, v, w, Q
    <2> QED BY <1>5, <1>6, <1>7, <1>9, <2>2 DEF Q
  <1> QED BY <1>8, <1>9

\* The steps of the ledger keep its balance: booking a passage adds it to one room, a
\* correction is accounted for, and logging changes neither.
LEMMA BalancedNext ==
    ASSUME TypeOK, Balanced, [Ledger!Next]_Books
    PROVE  Balanced'
  <1> DEFINE P == PassagesBooked
  <1>0. currentPeople \in [Rooms -> Int] /\ corrected \in [Rooms -> Int] BY DEF TypeOK
  <1>1. ASSUME NEW h \in Reqs, Ledger!Book(h) PROVE Balanced'
    <2>1. /\ P[h] = None /\ P'[h] \in AccessLog /\ P' = [P EXCEPT ![h] = P'[h]]
          /\ currentPeople' = [currentPeople EXCEPT ![P'[h].room] = @ + P'[h].in - P'[h].out]
          /\ corrected' = corrected
      BY <1>1 DEF Ledger!Book, Ledger!Passage, AccessLog, PassagesBooked
    <2> DEFINE b == P'[h]
    <2>2. b \in AccessLog /\ b # None /\ P' = [P EXCEPT ![h] = b] BY <2>1, LogAssumption
    <2> HIDE DEF P
    <2>3. P \in [Reqs -> AccessLog \cup {None}] /\ FinitelyMany(P) BY DEF Balanced, P
    <2>4. P' \in [Reqs -> AccessLog \cup {None}] BY <2>2, <2>3
    <2>5. FinitelyMany(P')
      <3> DEFINE Z == {g \in Reqs : P[g] # None}
      <3>1. {g \in Reqs : P'[g] # None} = Z \cup {h} BY <2>2, <2>3
      <3>2. IsFiniteSet(Z) BY <2>3 DEF FinitelyMany
      <3> HIDE DEF Z
      <3>3. IsFiniteSet(Z \cup {h}) BY <3>2, FS_AddElement
      <3> QED BY <3>1, <3>3 DEF FinitelyMany
    <2>6. ASSUME NEW r \in Rooms PROVE currentPeople'[r] = corrected'[r] + Takings(P', r)
      <3>1. currentPeople[r] = corrected[r] + Takings(P, r) BY DEF Balanced, P
      <3>2. /\ Takings(P, r) \in Int
            /\ Takings(P', r) = (IF b.room = r THEN b.in - b.out ELSE 0) + Takings(P, r)
        <4>1. P[h] = None BY <2>1
        <4> HIDE DEF b
        <4>2. /\ Takings(P, r) \in Int
              /\ Takings([P EXCEPT ![h] = b], r)
                   = (IF b.room = r THEN b.in - b.out ELSE 0) + Takings(P, r)
          BY <2>2, <2>3, <4>1, TakingsAdd
        <4> QED BY <2>2, <4>2
      <3>3. b.room \in Rooms /\ b.in \in Int /\ b.out \in Int BY <2>2 DEF AccessLog
      <3>4. currentPeople[r] \in Int /\ corrected[r] \in Int BY <1>0
      <3>5. currentPeople' = [currentPeople EXCEPT ![b.room] = @ + b.in - b.out] BY <2>1
      <3> HIDE DEF b
      <3>6. CASE b.room = r BY <1>0, <2>1, <3>1, <3>2, <3>3, <3>4, <3>5, <3>6
      <3>7. CASE b.room # r BY <1>0, <2>1, <3>1, <3>2, <3>3, <3>4, <3>5, <3>7
      <3> QED BY <3>6, <3>7
    <2> QED BY <2>4, <2>5, <2>6 DEF Balanced, P
  <1>2. ASSUME NEW h \in Reqs, Ledger!Log(h) PROVE Balanced'
    <2>1. PassagesBooked' = PassagesBooked /\ currentPeople' = currentPeople /\ corrected' = corrected
      BY <1>2 DEF Ledger!Log, PassagesBooked
    <2> QED BY <2>1 DEF Balanced
  <1>3. ASSUME NEW r \in Rooms, Ledger!Correct(r) PROVE Balanced'
    <2>1. /\ currentPeople'[r] \in Int
          /\ currentPeople' = [currentPeople EXCEPT ![r] = currentPeople'[r]]
          /\ corrected' = [corrected EXCEPT ![r] = @ + currentPeople'[r] - currentPeople[r]]
          /\ PassagesBooked' = PassagesBooked
      BY <1>3 DEF Ledger!Correct, PassagesBooked
    <2>2. ASSUME NEW q \in Rooms PROVE Takings(P, q) \in Int
      <3>1. currentPeople[q] = corrected[q] + Takings(P, q) BY DEF Balanced
      <3> DEFINE v == [h \in BookersOf(P, q) |-> P[h].in - P[h].out]
      <3>2. IsFiniteSet(BookersOf(P, q)) BY FS_Subset DEF Balanced, BookersOf, FinitelyMany
      <3>3. v \in [BookersOf(P, q) -> Int] BY DEF Balanced, BookersOf, AccessLog
      <3>4. Takings(P, q) = SumOf(v) BY DEF Takings, Total, SumOf
      <3> HIDE DEF v
      <3> QED BY <3>2, <3>3, <3>4, TotalType DEF SumOf
    <2>3. ASSUME NEW q \in Rooms PROVE currentPeople'[q] = corrected'[q] + Takings(P, q)
      <3>1. currentPeople[q] = corrected[q] + Takings(P, q) BY DEF Balanced
      <3>2. currentPeople[q] \in Int /\ corrected[q] \in Int BY <1>0
      <3> HIDE DEF P
      <3> QED BY <1>0, <2>1, <2>2, <3>1, <3>2
    <2> QED BY <2>1, <2>3 DEF Balanced
  <1>4. CASE UNCHANGED Books
    <2>1. PassagesBooked' = PassagesBooked /\ currentPeople' = currentPeople /\ corrected' = corrected
      BY <1>4 DEF Books, PassagesBooked
    <2> QED BY <2>1 DEF Balanced
  <1> QED BY <1>1, <1>2, <1>3, <1>4 DEF Ledger!Next

\* A log never differs from what its handler has booked.
LEMMA LoggedAsBookedNext ==
    ASSUME IInv, LoggedAfter, LoggedAsBooked, [Next]_vars
    PROVE  LoggedAsBooked'
  <1>1. \A h \in Reqs : Added(h)' => room'[h] \in Rooms
    BY AdderHasRoom DEF LoggedAsBooked
  <1>2. [Ledger!Next]_Books BY LedgerStep
  <1> SUFFICES ASSUME NEW h \in Reqs, accessLog'[h] # None PROVE accessLog'[h] = Booked(h)'
      BY <1>1 DEF LoggedAsBooked
  <1> DEFINE P == [g \in Reqs |-> Booked(g)]
  <1>3. P[h] = Booked(h) /\ P'[h] = Booked(h)' OBVIOUS
  <1>4. accessLog[h] # None => accessLog[h] = P[h] BY DEF LoggedAsBooked
  <1>5. accessLog \in [Reqs -> AccessLog \cup {None}] BY DEF IInv, TypeOK
  <1> SUFFICES accessLog'[h] = P'[h] BY <1>3
  <1>6. ASSUME NEW g \in Reqs, Ledger!Book(g) PROVE accessLog'[h] = P'[h]
    <2>1. P[g] = None /\ P' = [P EXCEPT ![g] = P'[g]] /\ accessLog' = accessLog
      BY <1>6 DEF Ledger!Book
    <2>2. P \in [Reqs -> {P[f] : f \in Reqs}] OBVIOUS
    <2> HIDE DEF P
    <2> QED BY <1>4, <2>1, <2>2
  <1>7. ASSUME NEW g \in Reqs, Ledger!Log(g) PROVE accessLog'[h] = P'[h]
    <2>1. accessLog' = [accessLog EXCEPT ![g] = P[g]] /\ P' = P BY <1>7 DEF Ledger!Log
    <2> HIDE DEF P
    <2> QED BY <1>4, <1>5, <2>1
  <1>8. ASSUME UNCHANGED <<P, accessLog>> PROVE accessLog'[h] = P'[h]
    <2> HIDE DEF P
    <2> QED BY <1>4, <1>8
  <1> QED BY <1>2, <1>6, <1>7, <1>8 DEF Ledger!Next, Ledger!Correct, Books

\* Before anything is booked the rooms are empty.
LEMMA InitBalanced == Init => Balanced /\ LoggedAsBooked
  <1> SUFFICES ASSUME Init PROVE Balanced /\ LoggedAsBooked OBVIOUS
  <1>1. \A h \in Reqs : ~Added(h) /\ Booked(h) = None /\ accessLog[h] = None
    BY DEF Init, Added, Booked
  <1>2. PassagesBooked = [h \in Reqs |-> None] BY <1>1 DEF PassagesBooked
  <1>3. FinitelyMany(PassagesBooked)
    <2>1. {h \in Reqs : PassagesBooked[h] # None} = {} BY <1>2
    <2> QED BY <2>1, FS_EmptySet DEF FinitelyMany
  <1>4. ASSUME NEW r \in Rooms PROVE Takings(PassagesBooked, r) = 0
    <2> DEFINE v == [h \in BookersOf(PassagesBooked, r) |-> PassagesBooked[h].in - PassagesBooked[h].out]
    <2>1. BookersOf(PassagesBooked, r) = {} BY <1>2 DEF BookersOf
    <2>2. v \in [{} -> Int] BY <2>1
    <2>3. Takings(PassagesBooked, r) = SumOf(v) BY DEF Takings, Total, SumOf
    <2> HIDE DEF v
    <2> QED BY <2>2, <2>3, TotalEmpty
  <1>5. \A r \in Rooms : currentPeople[r] = 0 /\ corrected[r] = 0 BY DEF Init
  <1> QED BY <1>1, <1>2, <1>3, <1>4, <1>5 DEF Balanced, LoggedAsBooked

\* The passages booked on a room are those in its logs and those of the handlers that
\* have not written theirs.
LEMMA BalanceOfLogs ==
    ASSUME IInv, Balanced, LoggedAsBooked
    PROVE  LedgerBalances
  <1> SUFFICES ASSUME NEW r \in Rooms
               PROVE  LET logged   == {h \in Reqs : accessLog[h] # None /\ accessLog[h].room = r}
                          unlogged == {h \in Reqs : Added(h) /\ accessLog[h] = None /\ room[h] = r}
                      IN  currentPeople[r] = corrected[r]
                            + Total([h \in logged |-> accessLog[h].in - accessLog[h].out])
                            + Total([h \in unlogged |-> Net(Counts(h))])
      BY DEF LedgerBalances
  <1> DEFINE P == PassagesBooked
             S == BookersOf(P, r)
             A == {h \in Reqs : accessLog[h] # None /\ accessLog[h].room = r}
             U == {h \in Reqs : Added(h) /\ accessLog[h] = None /\ room[h] = r}
             v == [h \in S |-> P[h].in - P[h].out]
             a == [h \in A |-> accessLog[h].in - accessLog[h].out]
             b == [h \in U |-> Net(Counts(h))]
  <1>1. ASSUME NEW h \in Reqs, Added(h)
        PROVE  /\ P[h].room = room[h]
               /\ P[h].in = PeopleIn(Counts(h)) /\ P[h].out = PeopleOut(Counts(h))
               /\ P[h] \in AccessLog /\ P[h] # None
    <2>1. pc[h] # "idle"
      BY <1>1 DEF IInv, Match, UnlockStatus, SensorStatus, Reqs, AddedSteps
    <2>2. PeopleIn(Counts(h)) \in Int /\ PeopleOut(Counts(h)) \in Int
      BY <2>1, SumsAreIntegers DEF IInv
    <2>3. room[h] \in Rooms BY <1>1 DEF LoggedAsBooked
    <2>4. P[h] = [room |-> room[h], in |-> PeopleIn(Counts(h)), out |-> PeopleOut(Counts(h))]
      BY <1>1 DEF PassagesBooked, Booked
    <2> QED BY <2>2, <2>3, <2>4, LogAssumption DEF AccessLog
  <1>2. \A h \in Reqs : ~Added(h) => P[h] = None BY DEF PassagesBooked, Booked
  <1>3. \A h \in Reqs : accessLog[h] # None => accessLog[h] = P[h] BY DEF LoggedAsBooked, PassagesBooked
  <1>4. \A h \in S : P[h] \in AccessLog BY DEF Balanced, BookersOf
  <1>5. A \in SUBSET S BY <1>3 DEF BookersOf
  <1>6. U = S \ A
    <2>1. U \subseteq S \ A BY <1>1 DEF BookersOf
    <2>2. ASSUME NEW h \in S \ A PROVE h \in U
      <3>1. h \in Reqs /\ P[h] # None /\ P[h].room = r BY DEF BookersOf
      <3>2. Added(h) BY <1>2, <3>1
      <3>3. room[h] = r BY <1>1, <3>1, <3>2
      <3>4. accessLog[h] = None BY <1>3, <3>1
      <3> QED BY <3>1, <3>2, <3>3, <3>4
    <2> QED BY <2>1, <2>2
  <1>7. TwoParts(S, v, A, a, b)
    <2>1. IsFiniteSet(S) BY FS_Subset DEF Balanced, FinitelyMany, BookersOf
    <2>2. v \in [S -> Int] BY <1>4 DEF AccessLog
    <2>3. \A h \in A : a[h] = v[h] BY <1>3, <1>5
    <2>4. a \in [A -> Int]
      <3> HIDE DEF v, S
      <3>1. \A h \in A : a[h] \in Int BY <1>5, <2>2, <2>3
      <3> QED BY <3>1
    <2>5. \A h \in U : b[h] = v[h]
      <3> SUFFICES ASSUME NEW h \in U PROVE b[h] = v[h] OBVIOUS
      <3>1. h \in Reqs /\ Added(h) OBVIOUS
      <3>2. P[h].in = PeopleIn(Counts(h)) /\ P[h].out = PeopleOut(Counts(h)) BY <1>1, <3>1
      <3>3. v[h] = P[h].in - P[h].out BY <1>6
      <3>4. b[h] = PeopleIn(Counts(h)) - PeopleOut(Counts(h)) BY DEF Net
      <3> QED BY <3>2, <3>3, <3>4
    <2>6. b \in [U -> Int]
      <3> HIDE DEF v, S
      <3>1. \A h \in U : b[h] \in Int BY <1>6, <2>2, <2>5
      <3> QED BY <3>1
    <2> HIDE DEF S, v, A, a, U, b
    <2> QED BY <1>5, <1>6, <2>1, <2>2, <2>3, <2>4, <2>5, <2>6 DEF TwoParts
  <1>8. SumOf(v) = SumOf(a) + SumOf(b)
    <2> HIDE DEF S, v, A, a, U, b
    <2> QED BY <1>7, TotalSplit
  <1>9. currentPeople[r] = corrected[r] + SumOf(v) BY DEF Balanced, Takings, Total, SumOf
  <1>10. SumOf(a) = Total(a) /\ SumOf(b) = Total(b) BY DEF Total, SumOf
  <1>11. corrected[r] \in Int /\ SumOf(a) \in Int /\ SumOf(b) \in Int
    <2>1. corrected[r] \in Int BY DEF IInv, TypeOK
    <2> HIDE DEF S, v, A, a, U, b
    <2>2. IsFiniteSet(A) /\ IsFiniteSet(U) BY <1>5, <1>6, <1>7, FS_Subset DEF TwoParts
    <2>3. a \in [A -> Int] /\ b \in [U -> Int] BY <1>6, <1>7 DEF TwoParts
    <2> QED BY <2>1, <2>2, <2>3, TotalType DEF SumOf
  <1>12. currentPeople[r] = corrected[r] + Total(a) + Total(b)
    <2> HIDE DEF v, a, b
    <2> QED BY <1>8, <1>9, <1>10, <1>11
  <1> QED BY <1>12

\* The occupancy of a room is the sum of its logs and corrections, and of what the
\* handlers between room.update and accessLog.create have booked.
THEOREM OccupancyIsLogged == Spec => []LedgerBalances
  <1> DEFINE Books0 == LoggedAfter /\ Balanced /\ LoggedAsBooked
  <1>1. Init => Books0 BY InitBalanced DEF Init, LoggedAfter
  <1>2. ASSUME IInv, Books0, [Next]_vars PROVE Books0'
    <2>1. LoggedAfter' BY <1>2, LoggedNext
    <2>2. LoggedAsBooked' BY <1>2, LoggedAsBookedNext
    <2>3. [Ledger!Next]_Books BY <1>2, LedgerStep
    <2>4. Balanced' BY <1>2, <2>3, BalancedNext DEF IInv
    <2> QED BY <2>1, <2>2, <2>4
  <1>3. ASSUME IInv, Books0 PROVE LedgerBalances BY <1>3, BalanceOfLogs
  <1> HIDE DEF Books0
  <1> QED BY <1>1, <1>2, <1>3, InvariantHolds, PTL DEF Spec

-----------------------------------------------------------------------------
(* What the admins' screens show.                                          *)

\* Nothing is added to a room or emitted; counts change by edits only; and a handler
\* gets to sendTenant, or past it, in no other way.
NothingAdded ==
    /\ shown' = shown
    /\ edited \subseteq edited'
    /\ \A r \in Rooms \ edited' : currentPeople'[r] = currentPeople[r]
    /\ \A h \in Reqs : pc[h] # "idle" => before'[h] = before[h]
    /\ \A h \in Reqs : pc[h] = "sendTenant" <=> pc'[h] = "sendTenant"
    /\ failed \subseteq failed'

\* The steps in which a handler emits the count it was answered.
EmitsTenant(h) ==
    \/ h \in UnlockReqs /\ SendUnlockTenant(h)
    \/ h \in SensorReqs /\ SendSensorTenant(h)

LEMMA OthersAddNothing ==
    ASSUME TypeOK, [Next]_vars, \A h \in Reqs : ~AddPeople(h) /\ ~EmitsTenant(h)
    PROVE  NothingAdded
  <1> USE DEF tables, rooms, locals, effects, history, At, Goto, Reqs, TypeOK, NothingAdded
  <1>1. ASSUME NEW u \in UnlockReqs, ReceiveUnlock(u) PROVE NothingAdded
    BY <1>1 DEF ReceiveUnlock, Arrive
  <1>2. ASSUME NEW u \in UnlockReqs, DebounceUnlock(u) PROVE NothingAdded
    BY <1>2 DEF DebounceUnlock
  <1>3. ASSUME NEW u \in UnlockReqs, LookUpUnlockRoom(u) PROVE NothingAdded
    BY <1>3 DEF LookUpUnlockRoom, LookUpRoom
  <1>4. ASSUME NEW u \in UnlockReqs, ReadUnconfirmed(u) PROVE NothingAdded
    BY <1>4 DEF ReadUnconfirmed
  <1>5. ASSUME NEW u \in UnlockReqs, ReadPending(u) PROVE NothingAdded
    BY <1>5 DEF ReadPending
  <1>6. ASSUME NEW u \in UnlockReqs, ConfirmSensors(u) PROVE NothingAdded
    BY <1>6 DEF ConfirmSensors
  <1>7. ASSUME NEW u \in UnlockReqs, SendUnlockLog(u) PROVE NothingAdded
    BY <1>7 DEF SendUnlockLog
  <1>8. ASSUME NEW u \in UnlockReqs, CreateEvent(u) PROVE NothingAdded
    BY <1>8 DEF CreateEvent
  <1>9. ASSUME NEW s \in SensorReqs, ReceiveSensor(s) PROVE NothingAdded
    BY <1>9 DEF ReceiveSensor, Arrive
  <1>10. ASSUME NEW s \in SensorReqs, FindEvent(s) PROVE NothingAdded
    BY <1>10 DEF FindEvent
  <1>11. ASSUME NEW s \in SensorReqs, AskStatus(s) PROVE NothingAdded
    BY <1>11 DEF AskStatus
  <1>12. ASSUME NEW s \in SensorReqs, FindRecent(s) PROVE NothingAdded
    BY <1>12 DEF FindRecent
  <1>13. ASSUME NEW s \in SensorReqs, AskHistory(s) PROVE NothingAdded
    BY <1>13 DEF AskHistory
  <1>14. ASSUME NEW s \in SensorReqs, LookUpSensorRoom(s) PROVE NothingAdded
    BY <1>14 DEF LookUpSensorRoom, LookUpRoom
  <1>15. ASSUME NEW s \in SensorReqs, ConfirmEvent(s) PROVE NothingAdded
    BY <1>15 DEF ConfirmEvent
  <1>16. ASSUME NEW s \in SensorReqs, SendSensorLog(s) PROVE NothingAdded
    BY <1>16 DEF SendSensorLog
  <1>17. ASSUME NEW s \in SensorReqs, CreateSensor(s) PROVE NothingAdded
    BY <1>17 DEF CreateSensor
  <1>18. ASSUME NEW h \in Reqs, CreateLog(h) PROVE NothingAdded
    BY <1>18 DEF CreateLog
  <1>19. ASSUME NEW h \in Reqs, Fail(h) PROVE NothingAdded
    BY <1>19 DEF Fail
  <1>20. ASSUME NEW r \in Rooms, UpdateRoom(r) PROVE NothingAdded
    BY <1>20 DEF UpdateRoom
  <1>21. CASE UNCHANGED vars BY <1>21 DEF vars
  <1> HIDE DEF tables, rooms, locals, effects, history, At, Goto, TypeOK, NothingAdded
  <1> QED
    BY <1>1, <1>2, <1>3, <1>4, <1>5, <1>6, <1>7, <1>8, <1>9, <1>10, <1>11, <1>12,
       <1>13, <1>14, <1>15, <1>16, <1>17, <1>18, <1>19, <1>20, <1>21
       DEF Next, UnlockStep, SensorStep, CloudStep, Quiet, EmitsTenant

\* Before every step the adders of a room are the adders after it, but for the one that
\* is adding.
LEMMA AddersKept ==
    ASSUME IInv, [Next]_vars, NEW r \in Rooms, \A h \in Reqs : ~AddPeople(h)
    PROVE  Adders(r)' = Adders(r) /\ \A h \in Reqs : updated'[h] = updated[h]
  <1>1. ASSUME NEW h \in Reqs PROVE updated'[h] = updated[h] /\ (Added(h) => room'[h] = room[h])
    BY HandlerStep DEF HandlerKept
  <1> QED BY <1>1 DEF Adders, Added

\* The adders of a room were let in before the step by the same rule.
LEMMA InOrderKept ==
    ASSUME IInv, NEW r \in Rooms, InOrder(r)', Adders(r) \subseteq Adders(r)',
           \A h \in Reqs : pc[h] # "idle" => before'[h] = before[h]
    PROVE  InOrder(r)
  <1>1. \A h \in Adders(r) : h \in Reqs /\ pc[h] # "idle"
    BY DEF Adders, IInv, Match, UnlockStatus, SensorStatus, Reqs, AddedSteps
  <1> QED BY <1>1 DEF InOrder, Concurrent

\* The count a handler emits is the count of the room, if no other one overlapped.
LEMMA ScreensFollowNext ==
    ASSUME IInv, ScreensFollow, [Next]_vars
    PROVE  ScreensFollow'
  <1>1. TypeOK /\ Shape /\ UnlockStatus /\ SensorStatus /\ RestBefore BY DEF IInv, Match
  <1> DEFINE Follow(r) ==
               /\ (\A h \in Adders(r) : pc[h] # "sendTenant") => shown[r] = currentPeople[r]
               /\ \A h \in Adders(r) : At(h, "sendTenant") => updated[h].people = currentPeople[r]
  <1> SUFFICES ASSUME NEW r \in Rooms, r \notin edited', InOrder(r)'
               PROVE  Follow(r)'
      BY DEF ScreensFollow
  <1>2. ASSUME r \notin edited, InOrder(r) PROVE Follow(r) BY <1>2 DEF ScreensFollow
  <1>3. ASSUME NEW g \in Reqs, AddPeople(g) PROVE Follow(r)'
    <2>1. /\ pc[g] = "addPeople" /\ g \notin failed /\ pc' = [pc EXCEPT ![g] = "sendTenant"]
          /\ currentPeople' = [currentPeople EXCEPT ![room[g]] =
                                  currentPeople[room[g]] + Net(Counts(g))]
          /\ updated' = [updated EXCEPT ![g] =
                 [people |-> currentPeople[room[g]] + Net(Counts(g)), capacity |-> capacity[room[g]]]]
          /\ shown' = shown /\ room' = room /\ before' = before /\ edited' = edited
          /\ failed' = failed
      BY <1>3 DEF AddPeople, At, Goto, rooms, effects, history
    <2>2. ~Added(g) BY <1>1, <2>1 DEF UnlockStatus, SensorStatus, Reqs, AddedSteps
    <2>3. updated'[g] # None /\ \A h \in Reqs \ {g} : updated'[h] = updated[h]
      BY <1>1, <1>3, AddPeopleAdds
    <2>4. CASE room[g] = r
      <3>1. Adders(r)' = Adders(r) \cup {g} BY <2>1, <2>3, <2>4 DEF Adders, Added
      <3>2. pc'[g] = "sendTenant" BY <1>1, <2>1 DEF TypeOK
      <3>3. updated'[g].people = currentPeople'[r] BY <1>1, <2>1, <2>4 DEF TypeOK
      <3>4. ASSUME NEW h \in Adders(r), h # g PROVE ~At(h, "sendTenant")'
        <4>1. ~Concurrent(h, g)
          BY <2>1, <3>1, <3>4 DEF InOrder, Concurrent
        <4>2. AtRest(h) \/ AtRest(g) BY <1>1, <4>1, <3>4 DEF Concurrent, RestBefore, Adders
        <4>3. AtRest(h) BY <2>1, <4>2 DEF AtRest
        <4>4. pc'[h] = pc[h] BY <2>1, <3>4, <1>1 DEF Adders, TypeOK
        <4> QED BY <2>1, <4>3, <4>4 DEF At, AtRest
      <3> QED BY <3>1, <3>2, <3>3, <3>4
    <2>5. CASE room[g] # r
      <3>1. Adders(r)' = Adders(r) /\ g \notin Adders(r)
        BY <2>1, <2>2, <2>3, <2>5 DEF Adders, Added
      <3>2. InOrder(r) BY <2>1, <3>1 DEF InOrder, Concurrent
      <3>3. Follow(r) BY <1>2, <2>1, <3>2
      <3>4. currentPeople'[r] = currentPeople[r] BY <1>1, <2>1, <2>5 DEF TypeOK
      <3>5. \A h \in Adders(r) : pc'[h] = pc[h] /\ updated'[h] = updated[h]
        BY <1>1, <2>1, <2>3, <3>1 DEF Adders, TypeOK
      <3> QED BY <2>1, <3>1, <3>3, <3>4, <3>5 DEF At
    <2> QED BY <2>4, <2>5
  <1>4. ASSUME NEW g \in Reqs, EmitsTenant(g) PROVE Follow(r)'
    <2>1. /\ pc[g] = "sendTenant" /\ g \notin failed
          /\ \E step \in {"createLog", "confirmEvent"} : pc' = [pc EXCEPT ![g] = step]
          /\ shown' = [shown EXCEPT ![room[g]] = updated[g].people]
          /\ currentPeople' = currentPeople /\ before' = before /\ edited' = edited
          /\ failed' = failed
      BY <1>4 DEF EmitsTenant, SendUnlockTenant, SendSensorTenant, EmitTenant, At, Goto, rooms,
                  locals, history
    <2>2. \A h \in Reqs : ~AddPeople(h)
      <3> SUFFICES ASSUME NEW h \in Reqs, AddPeople(h) PROVE FALSE OBVIOUS
      <3>1. pc[h] = "addPeople" /\ pc' = [pc EXCEPT ![h] = "sendTenant"]
        BY DEF AddPeople, At, Goto
      <3> QED BY <1>1, <2>1, <3>1 DEF TypeOK
    <2>3. Adders(r)' = Adders(r) /\ \A h \in Reqs : updated'[h] = updated[h] BY <2>2, AddersKept
    <2>4. InOrder(r) BY <2>1, <2>3 DEF InOrder, Concurrent
    <2>5. Follow(r) BY <1>2, <2>1, <2>4
    <2>6. \A h \in Reqs : pc'[h] = "sendTenant" => h # g /\ pc[h] = "sendTenant"
      BY <1>1, <2>1 DEF TypeOK
    <2>7. CASE room[g] = r
      <3>1. g \in Adders(r)
        BY <1>1, <2>1, <2>7 DEF Adders, Added, Shape, LocalsShape, AddedSteps
      <3>2. updated[g].people = currentPeople[r] BY <2>1, <2>5, <3>1 DEF At
      <3>3. shown'[r] = currentPeople'[r] BY <1>1, <2>1, <2>7, <3>2 DEF TypeOK
      <3> QED BY <2>1, <2>3, <2>5, <2>6, <3>3 DEF At, Adders
    <2>8. CASE room[g] # r
      <3>1. shown'[r] = shown[r] BY <1>1, <2>1, <2>8 DEF TypeOK
      <3>2. \A h \in Adders(r) : pc'[h] = pc[h]
        BY <1>1, <2>1, <2>8 DEF TypeOK, Adders
      <3> QED BY <2>1, <2>3, <2>5, <3>1, <3>2 DEF At, Adders
    <2> QED BY <2>7, <2>8
  <1>5. CASE \A h \in Reqs : ~AddPeople(h) /\ ~EmitsTenant(h)
    <2>1. NothingAdded BY <1>1, <1>5, OthersAddNothing
    <2>2. Adders(r)' = Adders(r) /\ \A h \in Reqs : updated'[h] = updated[h]
      BY <1>5, AddersKept
    <2>3. InOrder(r)
      <3>1. \A h \in Reqs : pc[h] # "idle" => before'[h] = before[h] BY <2>1 DEF NothingAdded
      <3> QED BY <2>2, <3>1, InOrderKept
    <2>4. Follow(r) BY <1>2, <2>1, <2>3 DEF NothingAdded
    <2>5. shown'[r] = shown[r] /\ currentPeople'[r] = currentPeople[r] BY <2>1 DEF NothingAdded
    <2>6. \A h \in Adders(r) : At(h, "sendTenant")' => At(h, "sendTenant")
      BY <2>1 DEF NothingAdded, Adders, At
    <2>7. \A h \in Adders(r) : pc[h] = "sendTenant" => pc'[h] = "sendTenant"
      BY <2>1 DEF NothingAdded, Adders
    <2>8. \A h \in Adders(r) : updated'[h] = updated[h] BY <2>2 DEF Adders
    <2> QED BY <2>2, <2>4, <2>5, <2>6, <2>7, <2>8
  <1> HIDE DEF Follow
  <1> QED BY <1>3, <1>4, <1>5

\* Without overlaps, failures and edits the screens show the count in the database.
THEOREM ScreensShowCounts == Spec => []ShownIsCurrent
  <1>1. Init => ScreensFollow
    BY DEF Init, ScreensFollow, Adders, Added
  <1>2. IInv /\ ScreensFollow /\ [Next]_vars => ScreensFollow' BY ScreensFollowNext
  <1>3. ScreensFollow => ShownIsCurrent
    BY DEF ScreensFollow, ShownIsCurrent, Adders, InOrder
  <1> QED BY <1>1, <1>2, <1>3, InvariantHolds, PTL DEF Spec
=============================================================================
