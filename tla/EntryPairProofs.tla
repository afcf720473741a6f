--------------------------- MODULE EntryPairProofs ---------------------------
(***************************************************************************)
(* Which pairs of an event and a reading are missed or claimed twice, and  *)
(* what the debounce lets through: proofs for every set of requests,       *)
(* payloads, rooms and windows.                                            *)
(***************************************************************************)
EXTENDS EntryMatchingProofs

\* A step that claims nothing new, and leaves the claims of others where they
\* are, keeps what is known of them.
LEMMA ClaimsKept ==
    ASSUME ClaimedOnce,
           event' = event, before' = before, updated' = updated,
           \A s \in SensorReqs : \A u \in UnlockReqs :
              /\ Matched(s, u)' => Matched(s, u)
              /\ Claims(s, u)' => /\ Claims(s, u)
                                  /\ pc'[s] = pc[s] \/ pc'[s] \in {"sendTenant", "confirmEvent"}
    PROVE  ClaimedOnce'
  BY DEF ClaimedOnce, Added

\* A pending event is claimed by the first reading that finds it; once it is
\* confirmed no reading that arrives later finds it again.
LEMMA ClaimedOnceNext ==
    ASSUME IInv, ClaimedOnce, [Next]_vars
    PROVE  ClaimedOnce'
  <1> USE ReqsAssumption
     DEF tables, rooms, locals, effects, history, At, Goto, Reqs, IInv, TypeOK, Added,
         AddedSteps
  <1>1. ASSUME NEW u \in UnlockReqs, ReceiveUnlock(u) PROVE ClaimedOnce'
    BY <1>1 DEF ReceiveUnlock, Arrive,
       Shape, UnlockShape, SensorShape, LocalsShape, Match, UnlockStatus, SensorStatus,
       RestBefore, AtRest, RoomSteps, ClaimedOnce, Claims, Matched
  <1>2. ASSUME NEW u \in UnlockReqs, DebounceUnlock(u) PROVE ClaimedOnce'
    BY <1>2 DEF DebounceUnlock,
       Shape, UnlockShape, SensorShape, LocalsShape, Match, UnlockStatus, SensorStatus,
       RestBefore, AtRest, RoomSteps, ClaimedOnce, Claims, Matched
  <1>3. ASSUME NEW u \in UnlockReqs, LookUpUnlockRoom(u) PROVE ClaimedOnce'
    <2>1. \A t \in SensorReqs : \A v \in UnlockReqs :
             (Matched(t, v)' => Matched(t, v)) /\ (Claims(t, v)' => Claims(t, v))
      BY <1>3 DEF LookUpUnlockRoom, LookUpRoom, Matched, Claims
    <2>2. \A t \in SensorReqs : pc'[t] = pc[t]
      BY <1>3 DEF LookUpUnlockRoom, LookUpRoom
    <2>3. event' = event /\ before' = before /\ updated' = updated
      BY <1>3 DEF LookUpUnlockRoom, LookUpRoom
    <2> QED BY <2>1, <2>2, <2>3, ClaimsKept
  <1>4. ASSUME NEW u \in UnlockReqs, ReadUnconfirmed(u) PROVE ClaimedOnce'
    BY <1>4 DEF ReadUnconfirmed, SensorRows,
       Shape, UnlockShape, SensorShape, LocalsShape, Match, UnlockStatus, SensorStatus,
       RestBefore, AtRest, RoomSteps, ClaimedOnce, Claims, Matched
  <1>5. ASSUME NEW u \in UnlockReqs, ReadPending(u) PROVE ClaimedOnce'
    BY <1>5 DEF ReadPending, SensorRows,
       Shape, UnlockShape, SensorShape, LocalsShape, Match, UnlockStatus, SensorStatus,
       RestBefore, AtRest, RoomSteps, ClaimedOnce, Claims, Matched
  <1>6. ASSUME NEW u \in UnlockReqs, ConfirmSensors(u) PROVE ClaimedOnce'
    BY <1>6 DEF ConfirmSensors,
       Shape, UnlockShape, SensorShape, LocalsShape, Match, UnlockStatus, SensorStatus,
       RestBefore, AtRest, RoomSteps, ClaimedOnce, Claims, Matched
  <1>7. ASSUME NEW u \in UnlockReqs, SendUnlockTenant(u) PROVE ClaimedOnce'
    BY <1>7 DEF SendUnlockTenant,
       Shape, UnlockShape, SensorShape, LocalsShape, Match, UnlockStatus, SensorStatus,
       RestBefore, AtRest, RoomSteps, ClaimedOnce, Claims, Matched
  <1>8. ASSUME NEW u \in UnlockReqs, SendUnlockLog(u) PROVE ClaimedOnce'
    BY <1>8 DEF SendUnlockLog, Publish, OccupancyAlert,
       Shape, UnlockShape, SensorShape, LocalsShape, Match, UnlockStatus, SensorStatus,
       RestBefore, AtRest, RoomSteps, ClaimedOnce, Claims, Matched
  <1>9. ASSUME NEW u \in UnlockReqs, CreateEvent(u) PROVE ClaimedOnce'
    BY <1>9 DEF CreateEvent,
       Shape, UnlockShape, SensorShape, LocalsShape, Match, UnlockStatus, SensorStatus,
       RestBefore, AtRest, RoomSteps, ClaimedOnce, Claims, Matched
  <1>10. ASSUME NEW s \in SensorReqs, ReceiveSensor(s) PROVE ClaimedOnce'
    BY <1>10 DEF ReceiveSensor, Arrive,
       Shape, UnlockShape, SensorShape, LocalsShape, Match, UnlockStatus, SensorStatus,
       RestBefore, AtRest, RoomSteps, ClaimedOnce, Claims, Matched
  <1>11. ASSUME NEW s \in SensorReqs, FindEvent(s) PROVE ClaimedOnce'
    <2>1. CASE PendingEvents(req[s].ts - TwSensor, req[s].ts + TwSensor) = {}
      <3>1. ~Added(s)
        BY <1>11 DEF FindEvent, Match, SensorStatus
      <3>2. \A t \in SensorReqs : \A v \in UnlockReqs :
               (Matched(t, v)' => Matched(t, v)) /\ (Claims(t, v)' => Claims(t, v) /\ t # s)
        BY <1>11, <2>1, <3>1 DEF FindEvent, Matched, Claims
      <3>3. \A t \in SensorReqs \ {s} : pc'[t] = pc[t]
        BY <1>11 DEF FindEvent
      <3>4. event' = event /\ before' = before /\ updated' = updated
        BY <1>11 DEF FindEvent
      <3> QED BY <3>2, <3>3, <3>4, ClaimsKept
    <2>2. CASE PendingEvents(req[s].ts - TwSensor, req[s].ts + TwSensor) # {}
      <3>1. PICK u \in UnlockReqs :
               /\ event[u] = "pending" /\ found' = [found EXCEPT ![s] = {u}]
               /\ pc' = [pc EXCEPT ![s] = "lookUpRoom"]
        BY <1>11, <2>2 DEF FindEvent, PendingEvents
      <3>2. ~Added(u) /\ ~Added(s) /\ pc[s] = "findEvent" /\ s \notin failed
        BY <1>11, <3>1 DEF FindEvent, Match, UnlockStatus, SensorStatus
      <3>3. \A t \in SensorReqs : Claims(t, u) => pc[t] \in {"sendTenant", "confirmEvent"}
        BY <3>1 DEF ClaimedOnce
      <3>4. \A t \in SensorReqs \ {s} : \A v \in UnlockReqs :
               (Matched(t, v)' <=> Matched(t, v)) /\ (Claims(t, v)' <=> Claims(t, v))
        BY <1>11, <3>1 DEF FindEvent, Matched, Claims
      <3>5. \A v \in UnlockReqs : (Matched(s, v)' => v = u) /\ ~Claims(s, v)'
        BY <1>11, <3>1, <3>2 DEF FindEvent, Matched, Claims
      <3> QED BY <1>11, <3>1, <3>2, <3>3, <3>4, <3>5
              DEF FindEvent, ClaimedOnce, Match, RestBefore, AtRest
    <2> QED BY <2>1, <2>2
  <1>12. ASSUME NEW s \in SensorReqs, AskStatus(s) PROVE ClaimedOnce'
    BY <1>12 DEF AskStatus,
       Shape, UnlockShape, SensorShape, LocalsShape, Match, UnlockStatus, SensorStatus,
       RestBefore, AtRest, RoomSteps, ClaimedOnce, Claims, Matched
  <1>13. ASSUME NEW s \in SensorReqs, FindRecent(s) PROVE ClaimedOnce'
    <2>1. ~Added(s) /\ status[s] = "pending"
      BY <1>13 DEF FindRecent, Match, SensorStatus
    <2>2. \A t \in SensorReqs : \A v \in UnlockReqs :
             (Matched(t, v)' => Matched(t, v)) /\ (Claims(t, v)' => Claims(t, v) /\ t # s)
      BY <1>13, <2>1 DEF FindRecent, Matched, Claims
    <2>3. \A t \in SensorReqs \ {s} : pc'[t] = pc[t]
      BY <1>13 DEF FindRecent
    <2>4. event' = event /\ before' = before /\ updated' = updated
      BY <1>13 DEF FindRecent
    <2> QED BY <2>2, <2>3, <2>4, ClaimsKept
  <1>14. ASSUME NEW s \in SensorReqs, AskHistory(s) PROVE ClaimedOnce'
    BY <1>14 DEF AskHistory,
       Shape, UnlockShape, SensorShape, LocalsShape, Match, UnlockStatus, SensorStatus,
       RestBefore, AtRest, RoomSteps, ClaimedOnce, Claims, Matched
  <1>15. ASSUME NEW s \in SensorReqs, LookUpSensorRoom(s) PROVE ClaimedOnce'
    <2>1. ~Added(s)
      BY <1>15 DEF LookUpSensorRoom, LookUpRoom, Match, SensorStatus
    <2>2. \A t \in SensorReqs : \A v \in UnlockReqs :
             (Matched(t, v)' => Matched(t, v)) /\ (Claims(t, v)' => Claims(t, v) /\ t # s)
      BY <1>15, <2>1 DEF LookUpSensorRoom, LookUpRoom, Matched, Claims
    <2>3. \A t \in SensorReqs \ {s} : pc'[t] = pc[t]
      BY <1>15 DEF LookUpSensorRoom, LookUpRoom
    <2>4. event' = event /\ before' = before /\ updated' = updated
      BY <1>15 DEF LookUpSensorRoom, LookUpRoom
    <2> QED BY <2>2, <2>3, <2>4, ClaimsKept
  <1>16. ASSUME NEW s \in SensorReqs, SendSensorTenant(s) PROVE ClaimedOnce'
    <2>1. \A t \in SensorReqs \ {s} : \A v \in UnlockReqs :
             (Matched(t, v)' => Matched(t, v)) /\ (Claims(t, v)' => Claims(t, v))
      BY <1>16 DEF SendSensorTenant, Matched, Claims, Publish
    <2>2. \A v \in UnlockReqs : Matched(s, v)' => Matched(s, v) /\ pc'[s] = "confirmEvent"
      BY <1>16 DEF SendSensorTenant, Matched, Publish
    <2>3. \A v \in UnlockReqs : Claims(s, v)' => Claims(s, v) /\ pc'[s] = "confirmEvent"
      BY <1>16, <2>2 DEF SendSensorTenant, Claims
    <2>4. \A t \in SensorReqs \ {s} : pc'[t] = pc[t]
      BY <1>16 DEF SendSensorTenant
    <2>5. event' = event /\ before' = before /\ updated' = updated
      BY <1>16 DEF SendSensorTenant
    <2> QED BY <2>1, <2>2, <2>3, <2>4, <2>5, ClaimsKept
  <1>17. ASSUME NEW s \in SensorReqs, ConfirmEvent(s) PROVE ClaimedOnce'
    BY <1>17 DEF ConfirmEvent, EventOf,
       Shape, UnlockShape, SensorShape, LocalsShape, Match, UnlockStatus, SensorStatus,
       RestBefore, AtRest, RoomSteps, ClaimedOnce, Claims, Matched
  <1>18. ASSUME NEW s \in SensorReqs, SendSensorLog(s) PROVE ClaimedOnce'
    BY <1>18 DEF SendSensorLog,
       Shape, UnlockShape, SensorShape, LocalsShape, Match, UnlockStatus, SensorStatus,
       RestBefore, AtRest, RoomSteps, ClaimedOnce, Claims, Matched
  <1>19. ASSUME NEW s \in SensorReqs, CreateSensor(s) PROVE ClaimedOnce'
    BY <1>19 DEF CreateSensor,
       Shape, UnlockShape, SensorShape, LocalsShape, Match, UnlockStatus, SensorStatus,
       RestBefore, AtRest, RoomSteps, ClaimedOnce, Claims, Matched
  <1>20. ASSUME NEW h \in Reqs, AddPeople(h) PROVE ClaimedOnce'
    BY <1>20, AddPeopleAdds DEF AddPeople,
       Shape, UnlockShape, SensorShape, LocalsShape, Match, UnlockStatus, SensorStatus,
       RestBefore, AtRest, RoomSteps, ClaimedOnce, Claims, Matched
  <1>21. ASSUME NEW h \in Reqs, CreateLog(h) PROVE ClaimedOnce'
    BY <1>21 DEF CreateLog,
       Shape, UnlockShape, SensorShape, LocalsShape, Match, UnlockStatus, SensorStatus,
       RestBefore, AtRest, RoomSteps, ClaimedOnce, Claims, Matched
  <1>22. ASSUME NEW h \in Reqs, Fail(h) PROVE ClaimedOnce'
    BY <1>22 DEF Fail,
       Shape, UnlockShape, SensorShape, LocalsShape, Match, UnlockStatus, SensorStatus,
       RestBefore, AtRest, RoomSteps, ClaimedOnce, Claims, Matched
  <1>23. ASSUME NEW r \in Rooms, UpdateRoom(r) PROVE ClaimedOnce'
    BY <1>23 DEF UpdateRoom,
       Shape, UnlockShape, SensorShape, LocalsShape, Match, UnlockStatus, SensorStatus,
       RestBefore, AtRest, RoomSteps, ClaimedOnce, Claims, Matched
  <1>24. CASE UNCHANGED vars
    BY <1>24 DEF ClaimedOnce, vars, Claims, Matched, RoomsOf
  <1> QED
    BY <1>1, <1>2, <1>3, <1>4, <1>5, <1>6, <1>7, <1>8, <1>9, <1>10, <1>11, <1>12,
       <1>13, <1>14, <1>15, <1>16, <1>17, <1>18, <1>19, <1>20, <1>21, <1>22, <1>23, <1>24
       DEF Next, UnlockStep, SensorStep, CloudStep, Quiet

\* The debounce query has seen the events of every unlock at rest before.
LEMMA DebounceCheckedNext ==
    ASSUME IInv, DebounceChecked, [Next]_vars
    PROVE  DebounceChecked'
  <1> USE ReqsAssumption
     DEF tables, rooms, locals, effects, history, At, Goto, Reqs, IInv, TypeOK, Added,
         AddedSteps
  <1>1. ASSUME NEW u \in UnlockReqs, ReceiveUnlock(u) PROVE DebounceChecked'
    BY <1>1, PayloadAssumption, WindowAssumption DEF ReceiveUnlock, Arrive,
       Shape, UnlockShape, LocalsShape, Match, RestBefore, AtRest, DebounceChecked,
       UnlockSteps, UnlockPayload
  <1>2. ASSUME NEW u \in UnlockReqs, DebounceUnlock(u) PROVE DebounceChecked'
    BY SMTT(30), <1>2, PayloadAssumption, WindowAssumption
       DEF DebounceUnlock, Debounced, PendingEvents,
       Shape, UnlockShape, LocalsShape, Match, RestBefore, AtRest, DebounceChecked,
       UnlockSteps, UnlockPayload
  <1>3. ASSUME NEW u \in UnlockReqs, LookUpUnlockRoom(u) PROVE DebounceChecked'
    BY SMTT(30), <1>3, PayloadAssumption, WindowAssumption DEF LookUpUnlockRoom, LookUpRoom,
       Shape, UnlockShape, LocalsShape, Match, RestBefore, AtRest, DebounceChecked,
       UnlockSteps, UnlockPayload
  <1>4. ASSUME NEW u \in UnlockReqs, ReadUnconfirmed(u) PROVE DebounceChecked'
    BY <1>4, PayloadAssumption, WindowAssumption DEF ReadUnconfirmed, SensorRows,
       Shape, UnlockShape, LocalsShape, Match, RestBefore, AtRest, DebounceChecked,
       UnlockSteps, UnlockPayload
  <1>5. ASSUME NEW u \in UnlockReqs, ReadPending(u) PROVE DebounceChecked'
    BY SMTT(30), <1>5, PayloadAssumption, WindowAssumption DEF ReadPending, SensorRows,
       Shape, UnlockShape, LocalsShape, Match, RestBefore, AtRest, DebounceChecked,
       UnlockSteps, UnlockPayload
  <1>6. ASSUME NEW u \in UnlockReqs, ConfirmSensors(u) PROVE DebounceChecked'
    BY <1>6, PayloadAssumption, WindowAssumption DEF ConfirmSensors,
       Shape, UnlockShape, LocalsShape, Match, RestBefore, AtRest, DebounceChecked,
       UnlockSteps, UnlockPayload
  <1>7. ASSUME NEW u \in UnlockReqs, SendUnlockTenant(u) PROVE DebounceChecked'
    BY <1>7, PayloadAssumption, WindowAssumption DEF SendUnlockTenant,
       Shape, UnlockShape, LocalsShape, Match, RestBefore, AtRest, DebounceChecked,
       UnlockSteps, UnlockPayload
  <1>8. ASSUME NEW u \in UnlockReqs, SendUnlockLog(u) PROVE DebounceChecked'
    BY <1>8, PayloadAssumption, WindowAssumption DEF SendUnlockLog,
       Shape, UnlockShape, LocalsShape, Match, RestBefore, AtRest, DebounceChecked,
       UnlockSteps, UnlockPayload
  <1>9. ASSUME NEW u \in UnlockReqs, CreateEvent(u) PROVE DebounceChecked'
    BY <1>9, PayloadAssumption, WindowAssumption DEF CreateEvent,
       Shape, UnlockShape, LocalsShape, Match, RestBefore, AtRest, DebounceChecked,
       UnlockSteps, UnlockPayload
  <1>10. ASSUME NEW s \in SensorReqs, ReceiveSensor(s) PROVE DebounceChecked'
    BY <1>10, PayloadAssumption, WindowAssumption DEF ReceiveSensor, Arrive,
       Shape, UnlockShape, LocalsShape, Match, RestBefore, AtRest, DebounceChecked,
       UnlockSteps, UnlockPayload
  <1>11. ASSUME NEW s \in SensorReqs, FindEvent(s) PROVE DebounceChecked'
    BY SMTT(30), <1>11, PayloadAssumption, WindowAssumption DEF FindEvent, PendingEvents,
       Shape, UnlockShape, LocalsShape, Match, RestBefore, AtRest, DebounceChecked,
       UnlockSteps, UnlockPayload
  <1>12. ASSUME NEW s \in SensorReqs, AskStatus(s) PROVE DebounceChecked'
    BY <1>12, PayloadAssumption, WindowAssumption DEF AskStatus,
       Shape, UnlockShape, LocalsShape, Match, RestBefore, AtRest, DebounceChecked,
       UnlockSteps, UnlockPayload
  <1>13. ASSUME NEW s \in SensorReqs, FindRecent(s) PROVE DebounceChecked'
    BY SMTT(30), <1>13, PayloadAssumption, WindowAssumption DEF FindRecent, LatestEvents,
       Shape, UnlockShape, LocalsShape, Match, RestBefore, AtRest, DebounceChecked,
       UnlockSteps, UnlockPayload
  <1>14. ASSUME NEW s \in SensorReqs, AskHistory(s) PROVE DebounceChecked'
    BY <1>14, PayloadAssumption, WindowAssumption DEF AskHistory,
       Shape, UnlockShape, LocalsShape, Match, RestBefore, AtRest, DebounceChecked,
       UnlockSteps, UnlockPayload
  <1>15. ASSUME NEW s \in SensorReqs, LookUpSensorRoom(s) PROVE DebounceChecked'
    BY <1>15, PayloadAssumption, WindowAssumption DEF LookUpSensorRoom, LookUpRoom,
       Shape, UnlockShape, LocalsShape, Match, RestBefore, AtRest, DebounceChecked,
       UnlockSteps, UnlockPayload
  <1>16. ASSUME NEW s \in SensorReqs, SendSensorTenant(s) PROVE DebounceChecked'
    BY SMTT(30), <1>16, PayloadAssumption, WindowAssumption DEF SendSensorTenant,
       Shape, UnlockShape, LocalsShape, Match, RestBefore, AtRest, DebounceChecked,
       UnlockSteps, UnlockPayload
  <1>17. ASSUME NEW s \in SensorReqs, ConfirmEvent(s) PROVE DebounceChecked'
    <2>1. \A u \in UnlockReqs : event'[u] # event[u] => event'[u] = "confirmed"
      BY <1>17 DEF ConfirmEvent
    <2>2. EventOf(s) \in UnlockReqs /\ event[EventOf(s)] # "none"
      BY <1>17, EventOfIsStored DEF ConfirmEvent
    <2>3. \A u \in UnlockReqs : event'[u] # "none" <=> event[u] # "none"
      BY <1>17, <2>2 DEF ConfirmEvent
    <2>4. \A u \in UnlockReqs : pc'[u] = pc[u]
      BY <1>17 DEF ConfirmEvent
    <2> QED BY <1>17, <2>1, <2>3, <2>4 DEF ConfirmEvent, DebounceChecked
  <1>18. ASSUME NEW s \in SensorReqs, SendSensorLog(s) PROVE DebounceChecked'
    BY <1>18, PayloadAssumption, WindowAssumption DEF SendSensorLog,
       Shape, UnlockShape, LocalsShape, Match, RestBefore, AtRest, DebounceChecked,
       UnlockSteps, UnlockPayload
  <1>19. ASSUME NEW s \in SensorReqs, CreateSensor(s) PROVE DebounceChecked'
    BY <1>19, PayloadAssumption, WindowAssumption DEF CreateSensor,
       Shape, UnlockShape, LocalsShape, Match, RestBefore, AtRest, DebounceChecked,
       UnlockSteps, UnlockPayload
  <1>20. ASSUME NEW h \in Reqs, AddPeople(h) PROVE DebounceChecked'
    BY <1>20, AddPeopleAdds, PayloadAssumption, WindowAssumption DEF AddPeople,
       Shape, UnlockShape, LocalsShape, Match, RestBefore, AtRest, DebounceChecked,
       UnlockSteps, UnlockPayload
  <1>21. ASSUME NEW h \in Reqs, CreateLog(h) PROVE DebounceChecked'
    BY <1>21, PayloadAssumption, WindowAssumption DEF CreateLog,
       Shape, UnlockShape, LocalsShape, Match, RestBefore, AtRest, DebounceChecked,
       UnlockSteps, UnlockPayload
  <1>22. ASSUME NEW h \in Reqs, Fail(h) PROVE DebounceChecked'
    BY <1>22, PayloadAssumption, WindowAssumption DEF Fail,
       Shape, UnlockShape, LocalsShape, Match, RestBefore, AtRest, DebounceChecked,
       UnlockSteps, UnlockPayload
  <1>23. ASSUME NEW r \in Rooms, UpdateRoom(r) PROVE DebounceChecked'
    BY <1>23, PayloadAssumption, WindowAssumption DEF UpdateRoom,
       Shape, UnlockShape, LocalsShape, Match, RestBefore, AtRest, DebounceChecked,
       UnlockSteps, UnlockPayload
  <1>24. CASE UNCHANGED vars
    BY <1>24 DEF DebounceChecked, vars, Claims, Matched, RoomsOf
  <1> QED
    BY <1>1, <1>2, <1>3, <1>4, <1>5, <1>6, <1>7, <1>8, <1>9, <1>10, <1>11, <1>12,
       <1>13, <1>14, <1>15, <1>16, <1>17, <1>18, <1>19, <1>20, <1>21, <1>22, <1>23, <1>24
       DEF Next, UnlockStep, SensorStep, CloudStep, Quiet

\* The two queries have read the matching readings at rest before.
LEMMA RowsReadNext ==
    ASSUME IInv, RowsRead, [Next]_vars
    PROVE  RowsRead'
  <1> USE ReqsAssumption
     DEF tables, rooms, locals, effects, history, At, Goto, Reqs, IInv, TypeOK, Added,
         AddedSteps
  <1>1. ASSUME NEW u \in UnlockReqs, ReceiveUnlock(u) PROVE RowsRead'
    BY <1>1, PayloadAssumption, WindowAssumption DEF ReceiveUnlock, Arrive,
       Shape, UnlockShape, SensorShape, LocalsShape, Match, RestBefore, UnlockStatus,
       SensorStatus, AtRest, RowsRead, ReadSteps, UnlockPayload, SensorPayload
  <1>2. ASSUME NEW u \in UnlockReqs, DebounceUnlock(u) PROVE RowsRead'
    BY <1>2, PayloadAssumption, WindowAssumption DEF DebounceUnlock,
       Shape, UnlockShape, SensorShape, LocalsShape, Match, RestBefore, UnlockStatus,
       SensorStatus, AtRest, RowsRead, ReadSteps, UnlockPayload, SensorPayload
  <1>3. ASSUME NEW u \in UnlockReqs, LookUpUnlockRoom(u) PROVE RowsRead'
    BY <1>3, PayloadAssumption, WindowAssumption DEF LookUpUnlockRoom, LookUpRoom,
       Shape, UnlockShape, SensorShape, LocalsShape, Match, RestBefore, UnlockStatus,
       SensorStatus, AtRest, RowsRead, ReadSteps, UnlockPayload, SensorPayload
  <1>4. ASSUME NEW u \in UnlockReqs, ReadUnconfirmed(u) PROVE RowsRead'
    BY <1>4, PayloadAssumption, WindowAssumption DEF ReadUnconfirmed, SensorRows,
       Shape, UnlockShape, SensorShape, LocalsShape, Match, RestBefore, UnlockStatus,
       SensorStatus, AtRest, RowsRead, ReadSteps, UnlockPayload, SensorPayload
  <1>5. ASSUME NEW u \in UnlockReqs, ReadPending(u) PROVE RowsRead'
    BY <1>5, PayloadAssumption, WindowAssumption DEF ReadPending, SensorRows,
       Shape, UnlockShape, SensorShape, LocalsShape, Match, RestBefore, UnlockStatus,
       SensorStatus, AtRest, RowsRead, ReadSteps, UnlockPayload, SensorPayload
  <1>6. ASSUME NEW u \in UnlockReqs, ConfirmSensors(u) PROVE RowsRead'
    BY <1>6, PayloadAssumption, WindowAssumption DEF ConfirmSensors,
       Shape, UnlockShape, SensorShape, LocalsShape, Match, RestBefore, UnlockStatus,
       SensorStatus, AtRest, RowsRead, ReadSteps, UnlockPayload, SensorPayload
  <1>7. ASSUME NEW u \in UnlockReqs, SendUnlockTenant(u) PROVE RowsRead'
    BY <1>7, PayloadAssumption, WindowAssumption DEF SendUnlockTenant,
       Shape, UnlockShape, SensorShape, LocalsShape, Match, RestBefore, UnlockStatus,
       SensorStatus, AtRest, RowsRead, ReadSteps, UnlockPayload, SensorPayload
  <1>8. ASSUME NEW u \in UnlockReqs, SendUnlockLog(u) PROVE RowsRead'
    BY <1>8, PayloadAssumption, WindowAssumption DEF SendUnlockLog,
       Shape, UnlockShape, SensorShape, LocalsShape, Match, RestBefore, UnlockStatus,
       SensorStatus, AtRest, RowsRead, ReadSteps, UnlockPayload, SensorPayload
  <1>9. ASSUME NEW u \in UnlockReqs, CreateEvent(u) PROVE RowsRead'
    BY <1>9, PayloadAssumption, WindowAssumption DEF CreateEvent,
       Shape, UnlockShape, SensorShape, LocalsShape, Match, RestBefore, UnlockStatus,
       SensorStatus, AtRest, RowsRead, ReadSteps, UnlockPayload, SensorPayload
  <1>10. ASSUME NEW s \in SensorReqs, ReceiveSensor(s) PROVE RowsRead'
    BY <1>10, PayloadAssumption, WindowAssumption DEF ReceiveSensor, Arrive,
       Shape, UnlockShape, SensorShape, LocalsShape, Match, RestBefore, UnlockStatus,
       SensorStatus, AtRest, RowsRead, ReadSteps, UnlockPayload, SensorPayload
  <1>11. ASSUME NEW s \in SensorReqs, FindEvent(s) PROVE RowsRead'
    BY <1>11, PayloadAssumption, WindowAssumption DEF FindEvent, PendingEvents,
       Shape, UnlockShape, SensorShape, LocalsShape, Match, RestBefore, UnlockStatus,
       SensorStatus, AtRest, RowsRead, ReadSteps, UnlockPayload, SensorPayload
  <1>12. ASSUME NEW s \in SensorReqs, AskStatus(s) PROVE RowsRead'
    BY <1>12, PayloadAssumption, WindowAssumption DEF AskStatus,
       Shape, UnlockShape, SensorShape, LocalsShape, Match, RestBefore, UnlockStatus,
       SensorStatus, AtRest, RowsRead, ReadSteps, UnlockPayload, SensorPayload
  <1>13. ASSUME NEW s \in SensorReqs, FindRecent(s) PROVE RowsRead'
    BY <1>13, PayloadAssumption, WindowAssumption DEF FindRecent, LatestEvents,
       Shape, UnlockShape, SensorShape, LocalsShape, Match, RestBefore, UnlockStatus,
       SensorStatus, AtRest, RowsRead, ReadSteps, UnlockPayload, SensorPayload
  <1>14. ASSUME NEW s \in SensorReqs, AskHistory(s) PROVE RowsRead'
    BY <1>14, PayloadAssumption, WindowAssumption DEF AskHistory,
       Shape, UnlockShape, SensorShape, LocalsShape, Match, RestBefore, UnlockStatus,
       SensorStatus, AtRest, RowsRead, ReadSteps, UnlockPayload, SensorPayload
  <1>15. ASSUME NEW s \in SensorReqs, LookUpSensorRoom(s) PROVE RowsRead'
    BY <1>15, PayloadAssumption, WindowAssumption DEF LookUpSensorRoom, LookUpRoom,
       Shape, UnlockShape, SensorShape, LocalsShape, Match, RestBefore, UnlockStatus,
       SensorStatus, AtRest, RowsRead, ReadSteps, UnlockPayload, SensorPayload
  <1>16. ASSUME NEW s \in SensorReqs, SendSensorTenant(s) PROVE RowsRead'
    BY <1>16, PayloadAssumption, WindowAssumption DEF SendSensorTenant,
       Shape, UnlockShape, SensorShape, LocalsShape, Match, RestBefore, UnlockStatus,
       SensorStatus, AtRest, RowsRead, ReadSteps, UnlockPayload, SensorPayload
  <1>17. ASSUME NEW s \in SensorReqs, ConfirmEvent(s) PROVE RowsRead'
    <2>1. EventOf(s) \in UnlockReqs /\ event[EventOf(s)] # "none"
      BY <1>17, EventOfIsStored DEF ConfirmEvent
    <2>2. \A u \in UnlockReqs : pc'[u] = pc[u] /\ (event'[u] # "none" <=> event[u] # "none")
      BY <1>17, <2>1 DEF ConfirmEvent
    <2> QED BY <1>17, <2>2 DEF ConfirmEvent, RowsRead
  <1>18. ASSUME NEW s \in SensorReqs, SendSensorLog(s) PROVE RowsRead'
    BY <1>18, PayloadAssumption, WindowAssumption DEF SendSensorLog,
       Shape, UnlockShape, SensorShape, LocalsShape, Match, RestBefore, UnlockStatus,
       SensorStatus, AtRest, RowsRead, ReadSteps, UnlockPayload, SensorPayload
  <1>19. ASSUME NEW s \in SensorReqs, CreateSensor(s) PROVE RowsRead'
    BY <1>19, PayloadAssumption, WindowAssumption DEF CreateSensor,
       Shape, UnlockShape, SensorShape, LocalsShape, Match, RestBefore, UnlockStatus,
       SensorStatus, AtRest, RowsRead, ReadSteps, UnlockPayload, SensorPayload
  <1>20. ASSUME NEW h \in Reqs, AddPeople(h) PROVE RowsRead'
    BY <1>20, AddPeopleAdds, PayloadAssumption, WindowAssumption DEF AddPeople,
       Shape, UnlockShape, SensorShape, LocalsShape, Match, RestBefore, UnlockStatus,
       SensorStatus, AtRest, RowsRead, ReadSteps, UnlockPayload, SensorPayload
  <1>21. ASSUME NEW h \in Reqs, CreateLog(h) PROVE RowsRead'
    BY <1>21, PayloadAssumption, WindowAssumption DEF CreateLog,
       Shape, UnlockShape, SensorShape, LocalsShape, Match, RestBefore, UnlockStatus,
       SensorStatus, AtRest, RowsRead, ReadSteps, UnlockPayload, SensorPayload
  <1>22. ASSUME NEW h \in Reqs, Fail(h) PROVE RowsRead'
    BY <1>22, PayloadAssumption, WindowAssumption DEF Fail,
       Shape, UnlockShape, SensorShape, LocalsShape, Match, RestBefore, UnlockStatus,
       SensorStatus, AtRest, RowsRead, ReadSteps, UnlockPayload, SensorPayload
  <1>23. ASSUME NEW r \in Rooms, UpdateRoom(r) PROVE RowsRead'
    BY <1>23, PayloadAssumption, WindowAssumption DEF UpdateRoom,
       Shape, UnlockShape, SensorShape, LocalsShape, Match, RestBefore, UnlockStatus,
       SensorStatus, AtRest, RowsRead, ReadSteps, UnlockPayload, SensorPayload
  <1>24. CASE UNCHANGED vars
    BY <1>24 DEF RowsRead, vars, Claims, Matched, RoomsOf
  <1> QED
    BY <1>1, <1>2, <1>3, <1>4, <1>5, <1>6, <1>7, <1>8, <1>9, <1>10, <1>11, <1>12,
       <1>13, <1>14, <1>15, <1>16, <1>17, <1>18, <1>19, <1>20, <1>21, <1>22, <1>23, <1>24
       DEF Next, UnlockStep, SensorStep, CloudStep, Quiet

\* The query for a pending event has seen those of every unlock at rest before.
LEMMA EventSeenNext ==
    ASSUME IInv, EventSeen, [Next]_vars
    PROVE  EventSeen'
  <1> USE ReqsAssumption
     DEF tables, rooms, locals, effects, history, At, Goto, Reqs, IInv, TypeOK, Added,
         AddedSteps
  <1>1. ASSUME NEW u \in UnlockReqs, ReceiveUnlock(u) PROVE EventSeen'
    BY <1>1, PayloadAssumption, WindowAssumption DEF ReceiveUnlock, Arrive,
       Shape, UnlockShape, SensorShape, LocalsShape, Match, RestBefore, SensorStatus,
       UnlockStatus, AtRest, EventSeen, UnlockPayload, SensorPayload
  <1>2. ASSUME NEW u \in UnlockReqs, DebounceUnlock(u) PROVE EventSeen'
    BY <1>2, PayloadAssumption, WindowAssumption DEF DebounceUnlock,
       Shape, UnlockShape, SensorShape, LocalsShape, Match, RestBefore, SensorStatus,
       UnlockStatus, AtRest, EventSeen, UnlockPayload, SensorPayload
  <1>3. ASSUME NEW u \in UnlockReqs, LookUpUnlockRoom(u) PROVE EventSeen'
    BY <1>3, PayloadAssumption, WindowAssumption DEF LookUpUnlockRoom, LookUpRoom,
       Shape, UnlockShape, SensorShape, LocalsShape, Match, RestBefore, SensorStatus,
       UnlockStatus, AtRest, EventSeen, UnlockPayload, SensorPayload
  <1>4. ASSUME NEW u \in UnlockReqs, ReadUnconfirmed(u) PROVE EventSeen'
    BY <1>4, PayloadAssumption, WindowAssumption DEF ReadUnconfirmed, SensorRows,
       Shape, UnlockShape, SensorShape, LocalsShape, Match, RestBefore, SensorStatus,
       UnlockStatus, AtRest, EventSeen, UnlockPayload, SensorPayload
  <1>5. ASSUME NEW u \in UnlockReqs, ReadPending(u) PROVE EventSeen'
    BY <1>5, PayloadAssumption, WindowAssumption DEF ReadPending, SensorRows,
       Shape, UnlockShape, SensorShape, LocalsShape, Match, RestBefore, SensorStatus,
       UnlockStatus, AtRest, EventSeen, UnlockPayload, SensorPayload
  <1>6. ASSUME NEW u \in UnlockReqs, ConfirmSensors(u) PROVE EventSeen'
    BY <1>6, PayloadAssumption, WindowAssumption DEF ConfirmSensors,
       Shape, UnlockShape, SensorShape, LocalsShape, Match, RestBefore, SensorStatus,
       UnlockStatus, AtRest, EventSeen, UnlockPayload, SensorPayload
  <1>7. ASSUME NEW u \in UnlockReqs, SendUnlockTenant(u) PROVE EventSeen'
    BY <1>7, PayloadAssumption, WindowAssumption DEF SendUnlockTenant,
       Shape, UnlockShape, SensorShape, LocalsShape, Match, RestBefore, SensorStatus,
       UnlockStatus, AtRest, EventSeen, UnlockPayload, SensorPayload
  <1>8. ASSUME NEW u \in UnlockReqs, SendUnlockLog(u) PROVE EventSeen'
    BY <1>8, PayloadAssumption, WindowAssumption DEF SendUnlockLog,
       Shape, UnlockShape, SensorShape, LocalsShape, Match, RestBefore, SensorStatus,
       UnlockStatus, AtRest, EventSeen, UnlockPayload, SensorPayload
  <1>9. ASSUME NEW u \in UnlockReqs, CreateEvent(u) PROVE EventSeen'
    BY <1>9, PayloadAssumption, WindowAssumption DEF CreateEvent,
       Shape, UnlockShape, SensorShape, LocalsShape, Match, RestBefore, SensorStatus,
       UnlockStatus, AtRest, EventSeen, UnlockPayload, SensorPayload
  <1>10. ASSUME NEW s \in SensorReqs, ReceiveSensor(s) PROVE EventSeen'
    BY <1>10, PayloadAssumption, WindowAssumption DEF ReceiveSensor, Arrive,
       Shape, UnlockShape, SensorShape, LocalsShape, Match, RestBefore, SensorStatus,
       UnlockStatus, AtRest, EventSeen, UnlockPayload, SensorPayload
  <1>11. ASSUME NEW s \in SensorReqs, FindEvent(s) PROVE EventSeen'
    <2>1. ASSUME NEW u \in UnlockReqs, u \in before[s], event[u] = "pending",
                 req[s].ts \in req[u].date - TwSensor .. req[u].date + TwSensor
          PROVE  status'[s] = "confirmed"
      <3>1. req[s] \in SensorPayload /\ req[u] \in UnlockPayload
        BY <1>11, <2>1 DEF FindEvent, Shape, SensorShape, UnlockShape
      <3>2. u \in PendingEvents(req[s].ts - TwSensor, req[s].ts + TwSensor)
        BY <2>1, <3>1, WindowAssumption DEF PendingEvents, SensorPayload, UnlockPayload
      <3> QED BY <1>11, <3>2 DEF FindEvent
    <2> QED BY <1>11, <2>1 DEF FindEvent, EventSeen
  <1>12. ASSUME NEW s \in SensorReqs, AskStatus(s) PROVE EventSeen'
    BY <1>12, PayloadAssumption, WindowAssumption DEF AskStatus,
       Shape, UnlockShape, SensorShape, LocalsShape, Match, RestBefore, SensorStatus,
       UnlockStatus, AtRest, EventSeen, UnlockPayload, SensorPayload
  <1>13. ASSUME NEW s \in SensorReqs, FindRecent(s) PROVE EventSeen'
    BY <1>13, PayloadAssumption, WindowAssumption DEF FindRecent, LatestEvents,
       Shape, UnlockShape, SensorShape, LocalsShape, Match, RestBefore, SensorStatus,
       UnlockStatus, AtRest, EventSeen, UnlockPayload, SensorPayload
  <1>14. ASSUME NEW s \in SensorReqs, AskHistory(s) PROVE EventSeen'
    BY <1>14, PayloadAssumption, WindowAssumption DEF AskHistory,
       Shape, UnlockShape, SensorShape, LocalsShape, Match, RestBefore, SensorStatus,
       UnlockStatus, AtRest, EventSeen, UnlockPayload, SensorPayload
  <1>15. ASSUME NEW s \in SensorReqs, LookUpSensorRoom(s) PROVE EventSeen'
    BY <1>15, PayloadAssumption, WindowAssumption DEF LookUpSensorRoom, LookUpRoom,
       Shape, UnlockShape, SensorShape, LocalsShape, Match, RestBefore, SensorStatus,
       UnlockStatus, AtRest, EventSeen, UnlockPayload, SensorPayload
  <1>16. ASSUME NEW s \in SensorReqs, SendSensorTenant(s) PROVE EventSeen'
    BY <1>16, PayloadAssumption, WindowAssumption DEF SendSensorTenant,
       Shape, UnlockShape, SensorShape, LocalsShape, Match, RestBefore, SensorStatus,
       UnlockStatus, AtRest, EventSeen, UnlockPayload, SensorPayload
  <1>17. ASSUME NEW s \in SensorReqs, ConfirmEvent(s) PROVE EventSeen'
    BY <1>17, PayloadAssumption, WindowAssumption DEF ConfirmEvent, EventOf,
       Shape, UnlockShape, SensorShape, LocalsShape, Match, RestBefore, SensorStatus,
       UnlockStatus, AtRest, EventSeen, UnlockPayload, SensorPayload
  <1>18. ASSUME NEW s \in SensorReqs, SendSensorLog(s) PROVE EventSeen'
    BY <1>18, PayloadAssumption, WindowAssumption DEF SendSensorLog,
       Shape, UnlockShape, SensorShape, LocalsShape, Match, RestBefore, SensorStatus,
       UnlockStatus, AtRest, EventSeen, UnlockPayload, SensorPayload
  <1>19. ASSUME NEW s \in SensorReqs, CreateSensor(s) PROVE EventSeen'
    BY <1>19, PayloadAssumption, WindowAssumption DEF CreateSensor,
       Shape, UnlockShape, SensorShape, LocalsShape, Match, RestBefore, SensorStatus,
       UnlockStatus, AtRest, EventSeen, UnlockPayload, SensorPayload
  <1>20. ASSUME NEW h \in Reqs, AddPeople(h) PROVE EventSeen'
    BY <1>20, AddPeopleAdds, PayloadAssumption, WindowAssumption DEF AddPeople,
       Shape, UnlockShape, SensorShape, LocalsShape, Match, RestBefore, SensorStatus,
       UnlockStatus, AtRest, EventSeen, UnlockPayload, SensorPayload
  <1>21. ASSUME NEW h \in Reqs, CreateLog(h) PROVE EventSeen'
    BY <1>21, PayloadAssumption, WindowAssumption DEF CreateLog,
       Shape, UnlockShape, SensorShape, LocalsShape, Match, RestBefore, SensorStatus,
       UnlockStatus, AtRest, EventSeen, UnlockPayload, SensorPayload
  <1>22. ASSUME NEW h \in Reqs, Fail(h) PROVE EventSeen'
    BY <1>22, PayloadAssumption, WindowAssumption DEF Fail,
       Shape, UnlockShape, SensorShape, LocalsShape, Match, RestBefore, SensorStatus,
       UnlockStatus, AtRest, EventSeen, UnlockPayload, SensorPayload
  <1>23. ASSUME NEW r \in Rooms, UpdateRoom(r) PROVE EventSeen'
    BY <1>23, PayloadAssumption, WindowAssumption DEF UpdateRoom,
       Shape, UnlockShape, SensorShape, LocalsShape, Match, RestBefore, SensorStatus,
       UnlockStatus, AtRest, EventSeen, UnlockPayload, SensorPayload
  <1>24. CASE UNCHANGED vars
    BY <1>24 DEF EventSeen, vars, Claims, Matched, RoomsOf
  <1> QED
    BY <1>1, <1>2, <1>3, <1>4, <1>5, <1>6, <1>7, <1>8, <1>9, <1>10, <1>11, <1>12,
       <1>13, <1>14, <1>15, <1>16, <1>17, <1>18, <1>19, <1>20, <1>21, <1>22, <1>23, <1>24
       DEF Next, UnlockStep, SensorStep, CloudStep, Quiet

\* Without edits the user of a stored event keeps its room.
LEMMA RoomsKnownNext ==
    ASSUME IInv, RoomsKnown, [Next]_vars
    PROVE  RoomsKnown'
  <1> USE ReqsAssumption
     DEF tables, rooms, locals, effects, history, At, Goto, Reqs, IInv, TypeOK, Added,
         AddedSteps
  <1>1. ASSUME NEW u \in UnlockReqs, ReceiveUnlock(u) PROVE RoomsKnown'
    BY <1>1 DEF ReceiveUnlock, Arrive,
       Shape, UnlockShape, SensorShape, LocalsShape, RoomsKnown, RoomsOf, EventOf,
       RoomSteps
  <1>2. ASSUME NEW u \in UnlockReqs, DebounceUnlock(u) PROVE RoomsKnown'
    BY <1>2 DEF DebounceUnlock,
       Shape, UnlockShape, SensorShape, LocalsShape, RoomsKnown, RoomsOf, EventOf,
       RoomSteps
  <1>3. ASSUME NEW u \in UnlockReqs, LookUpUnlockRoom(u) PROVE RoomsKnown'
    BY <1>3 DEF LookUpUnlockRoom, LookUpRoom, RoomsOf,
       Shape, UnlockShape, SensorShape, LocalsShape, RoomsKnown, RoomsOf, EventOf,
       RoomSteps
  <1>4. ASSUME NEW u \in UnlockReqs, ReadUnconfirmed(u) PROVE RoomsKnown'
    BY <1>4 DEF ReadUnconfirmed, SensorRows,
       Shape, UnlockShape, SensorShape, LocalsShape, RoomsKnown, RoomsOf, EventOf,
       RoomSteps
  <1>5. ASSUME NEW u \in UnlockReqs, ReadPending(u) PROVE RoomsKnown'
    BY <1>5 DEF ReadPending, SensorRows,
       Shape, UnlockShape, SensorShape, LocalsShape, RoomsKnown, RoomsOf, EventOf,
       RoomSteps
  <1>6. ASSUME NEW u \in UnlockReqs, ConfirmSensors(u) PROVE RoomsKnown'
    BY <1>6 DEF ConfirmSensors,
       Shape, UnlockShape, SensorShape, LocalsShape, RoomsKnown, RoomsOf, EventOf,
       RoomSteps
  <1>7. ASSUME NEW u \in UnlockReqs, SendUnlockTenant(u) PROVE RoomsKnown'
    BY <1>7 DEF SendUnlockTenant,
       Shape, UnlockShape, SensorShape, LocalsShape, RoomsKnown, RoomsOf, EventOf,
       RoomSteps
  <1>8. ASSUME NEW u \in UnlockReqs, SendUnlockLog(u) PROVE RoomsKnown'
    BY <1>8 DEF SendUnlockLog,
       Shape, UnlockShape, SensorShape, LocalsShape, RoomsKnown, RoomsOf, EventOf,
       RoomSteps
  <1>9. ASSUME NEW u \in UnlockReqs, CreateEvent(u) PROVE RoomsKnown'
    BY <1>9 DEF CreateEvent,
       Shape, UnlockShape, SensorShape, LocalsShape, RoomsKnown, RoomsOf, EventOf,
       RoomSteps
  <1>10. ASSUME NEW s \in SensorReqs, ReceiveSensor(s) PROVE RoomsKnown'
    BY <1>10 DEF ReceiveSensor, Arrive,
       Shape, UnlockShape, SensorShape, LocalsShape, RoomsKnown, RoomsOf, EventOf,
       RoomSteps
  <1>11. ASSUME NEW s \in SensorReqs, FindEvent(s) PROVE RoomsKnown'
    BY <1>11 DEF FindEvent, PendingEvents,
       Shape, UnlockShape, SensorShape, LocalsShape, RoomsKnown, RoomsOf, EventOf,
       RoomSteps
  <1>12. ASSUME NEW s \in SensorReqs, AskStatus(s) PROVE RoomsKnown'
    BY <1>12 DEF AskStatus,
       Shape, UnlockShape, SensorShape, LocalsShape, RoomsKnown, RoomsOf, EventOf,
       RoomSteps
  <1>13. ASSUME NEW s \in SensorReqs, FindRecent(s) PROVE RoomsKnown'
    BY <1>13 DEF FindRecent, LatestEvents,
       Shape, UnlockShape, SensorShape, LocalsShape, RoomsKnown, RoomsOf, EventOf,
       RoomSteps
  <1>14. ASSUME NEW s \in SensorReqs, AskHistory(s) PROVE RoomsKnown'
    BY <1>14 DEF AskHistory,
       Shape, UnlockShape, SensorShape, LocalsShape, RoomsKnown, RoomsOf, EventOf,
       RoomSteps
  <1>15. ASSUME NEW s \in SensorReqs, LookUpSensorRoom(s) PROVE RoomsKnown'
    BY <1>15 DEF LookUpSensorRoom, LookUpRoom, RoomsOf,
       Shape, UnlockShape, SensorShape, LocalsShape, RoomsKnown, RoomsOf, EventOf,
       RoomSteps
  <1>16. ASSUME NEW s \in SensorReqs, SendSensorTenant(s) PROVE RoomsKnown'
    BY <1>16 DEF SendSensorTenant,
       Shape, UnlockShape, SensorShape, LocalsShape, RoomsKnown, RoomsOf, EventOf,
       RoomSteps
  <1>17. ASSUME NEW s \in SensorReqs, ConfirmEvent(s) PROVE RoomsKnown'
    BY <1>17 DEF ConfirmEvent, EventOf,
       Shape, UnlockShape, SensorShape, LocalsShape, RoomsKnown, RoomsOf, EventOf,
       RoomSteps
  <1>18. ASSUME NEW s \in SensorReqs, SendSensorLog(s) PROVE RoomsKnown'
    BY <1>18 DEF SendSensorLog,
       Shape, UnlockShape, SensorShape, LocalsShape, RoomsKnown, RoomsOf, EventOf,
       RoomSteps
  <1>19. ASSUME NEW s \in SensorReqs, CreateSensor(s) PROVE RoomsKnown'
    BY SMTT(30), <1>19 DEF CreateSensor,
       Shape, UnlockShape, SensorShape, LocalsShape, RoomsKnown, RoomsOf, EventOf,
       RoomSteps
  <1>20. ASSUME NEW h \in Reqs, AddPeople(h) PROVE RoomsKnown'
    BY <1>20, AddPeopleAdds DEF AddPeople,
       Shape, UnlockShape, SensorShape, LocalsShape, RoomsKnown, RoomsOf, EventOf,
       RoomSteps
  <1>21. ASSUME NEW h \in Reqs, CreateLog(h) PROVE RoomsKnown'
    BY <1>21 DEF CreateLog,
       Shape, UnlockShape, SensorShape, LocalsShape, RoomsKnown, RoomsOf, EventOf,
       RoomSteps
  <1>22. ASSUME NEW h \in Reqs, Fail(h) PROVE RoomsKnown'
    BY <1>22 DEF Fail,
       Shape, UnlockShape, SensorShape, LocalsShape, RoomsKnown, RoomsOf, EventOf,
       RoomSteps
  <1>23. ASSUME NEW r \in Rooms, UpdateRoom(r) PROVE RoomsKnown'
    BY <1>23 DEF UpdateRoom,
       Shape, UnlockShape, SensorShape, LocalsShape, RoomsKnown, RoomsOf, EventOf,
       RoomSteps
  <1>24. CASE UNCHANGED vars
    BY <1>24 DEF RoomsKnown, vars, Claims, Matched, RoomsOf
  <1> QED
    BY <1>1, <1>2, <1>3, <1>4, <1>5, <1>6, <1>7, <1>8, <1>9, <1>10, <1>11, <1>12,
       <1>13, <1>14, <1>15, <1>16, <1>17, <1>18, <1>19, <1>20, <1>21, <1>22, <1>23, <1>24
       DEF Next, UnlockStep, SensorStep, CloudStep, Quiet

\* The increment that exceeds the capacity is the one that is reported.
LEMMA ReportOnItsWayNext ==
    ASSUME IInv, ReportOnItsWay, [Next]_vars
    PROVE  ReportOnItsWay'
  <1> USE ReqsAssumption
     DEF tables, rooms, locals, effects, history, At, Goto, Reqs, IInv, TypeOK, Added,
         AddedSteps
  <1>1. ASSUME NEW u \in UnlockReqs, ReceiveUnlock(u) PROVE ReportOnItsWay'
    BY <1>1 DEF ReceiveUnlock, Arrive,
       Shape, LocalsShape, Match, UnlockStatus, SensorStatus, ReportOnItsWay,
       RoomSteps, UpdatedRoom
  <1>2. ASSUME NEW u \in UnlockReqs, DebounceUnlock(u) PROVE ReportOnItsWay'
    BY <1>2 DEF DebounceUnlock,
       Shape, LocalsShape, Match, UnlockStatus, SensorStatus, ReportOnItsWay,
       RoomSteps, UpdatedRoom
  <1>3. ASSUME NEW u \in UnlockReqs, LookUpUnlockRoom(u) PROVE ReportOnItsWay'
    <2>1. ~Added(u)
      BY <1>3 DEF LookUpUnlockRoom, LookUpRoom, Match, UnlockStatus
    <2>2. \A h \in Reqs \ {u} : room'[h] = room[h] /\ pc'[h] = pc[h]
      BY <1>3 DEF LookUpUnlockRoom, LookUpRoom
    <2>3. /\ updated' = updated /\ capacity' = capacity /\ currentPeople' = currentPeople
          /\ edited' = edited /\ published' = published
      BY <1>3 DEF LookUpUnlockRoom, LookUpRoom
    <2> QED BY SMTT(30), <2>1, <2>2, <2>3 DEF ReportOnItsWay
  <1>4. ASSUME NEW u \in UnlockReqs, ReadUnconfirmed(u) PROVE ReportOnItsWay'
    BY <1>4 DEF ReadUnconfirmed, SensorRows,
       Shape, LocalsShape, Match, UnlockStatus, SensorStatus, ReportOnItsWay,
       RoomSteps, UpdatedRoom
  <1>5. ASSUME NEW u \in UnlockReqs, ReadPending(u) PROVE ReportOnItsWay'
    BY <1>5 DEF ReadPending, SensorRows,
       Shape, LocalsShape, Match, UnlockStatus, SensorStatus, ReportOnItsWay,
       RoomSteps, UpdatedRoom
  <1>6. ASSUME NEW u \in UnlockReqs, ConfirmSensors(u) PROVE ReportOnItsWay'
    BY <1>6 DEF ConfirmSensors,
       Shape, LocalsShape, Match, UnlockStatus, SensorStatus, ReportOnItsWay,
       RoomSteps, UpdatedRoom
  <1>7. ASSUME NEW u \in UnlockReqs, SendUnlockTenant(u) PROVE ReportOnItsWay'
    BY <1>7 DEF SendUnlockTenant,
       Shape, LocalsShape, Match, UnlockStatus, SensorStatus, ReportOnItsWay,
       RoomSteps, UpdatedRoom
  <1>8. ASSUME NEW u \in UnlockReqs, SendUnlockLog(u) PROVE ReportOnItsWay'
    BY <1>8 DEF SendUnlockLog, Publish, OccupancyAlert,
       Shape, LocalsShape, Match, UnlockStatus, SensorStatus, ReportOnItsWay,
       RoomSteps, UpdatedRoom
  <1>9. ASSUME NEW u \in UnlockReqs, CreateEvent(u) PROVE ReportOnItsWay'
    BY <1>9 DEF CreateEvent,
       Shape, LocalsShape, Match, UnlockStatus, SensorStatus, ReportOnItsWay,
       RoomSteps, UpdatedRoom
  <1>10. ASSUME NEW s \in SensorReqs, ReceiveSensor(s) PROVE ReportOnItsWay'
    BY <1>10 DEF ReceiveSensor, Arrive,
       Shape, LocalsShape, Match, UnlockStatus, SensorStatus, ReportOnItsWay,
       RoomSteps, UpdatedRoom
  <1>11. ASSUME NEW s \in SensorReqs, FindEvent(s) PROVE ReportOnItsWay'
    BY <1>11 DEF FindEvent, PendingEvents,
       Shape, LocalsShape, Match, UnlockStatus, SensorStatus, ReportOnItsWay,
       RoomSteps, UpdatedRoom
  <1>12. ASSUME NEW s \in SensorReqs, AskStatus(s) PROVE ReportOnItsWay'
    BY <1>12 DEF AskStatus,
       Shape, LocalsShape, Match, UnlockStatus, SensorStatus, ReportOnItsWay,
       RoomSteps, UpdatedRoom
  <1>13. ASSUME NEW s \in SensorReqs, FindRecent(s) PROVE ReportOnItsWay'
    BY <1>13 DEF FindRecent, LatestEvents,
       Shape, LocalsShape, Match, UnlockStatus, SensorStatus, ReportOnItsWay,
       RoomSteps, UpdatedRoom
  <1>14. ASSUME NEW s \in SensorReqs, AskHistory(s) PROVE ReportOnItsWay'
    BY <1>14 DEF AskHistory,
       Shape, LocalsShape, Match, UnlockStatus, SensorStatus, ReportOnItsWay,
       RoomSteps, UpdatedRoom
  <1>15. ASSUME NEW s \in SensorReqs, LookUpSensorRoom(s) PROVE ReportOnItsWay'
    BY <1>15 DEF LookUpSensorRoom, LookUpRoom,
       Shape, LocalsShape, Match, UnlockStatus, SensorStatus, ReportOnItsWay,
       RoomSteps, UpdatedRoom
  <1>16. ASSUME NEW s \in SensorReqs, SendSensorTenant(s) PROVE ReportOnItsWay'
    BY SMTT(30), <1>16 DEF SendSensorTenant, EmitTenant, Publish, OccupancyAlert,
       Shape, LocalsShape, Match, UnlockStatus, SensorStatus, ReportOnItsWay,
       RoomSteps, UpdatedRoom
  <1>17. ASSUME NEW s \in SensorReqs, ConfirmEvent(s) PROVE ReportOnItsWay'
    BY <1>17 DEF ConfirmEvent, EventOf,
       Shape, LocalsShape, Match, UnlockStatus, SensorStatus, ReportOnItsWay,
       RoomSteps, UpdatedRoom
  <1>18. ASSUME NEW s \in SensorReqs, SendSensorLog(s) PROVE ReportOnItsWay'
    BY <1>18 DEF SendSensorLog,
       Shape, LocalsShape, Match, UnlockStatus, SensorStatus, ReportOnItsWay,
       RoomSteps, UpdatedRoom
  <1>19. ASSUME NEW s \in SensorReqs, CreateSensor(s) PROVE ReportOnItsWay'
    BY <1>19 DEF CreateSensor,
       Shape, LocalsShape, Match, UnlockStatus, SensorStatus, ReportOnItsWay,
       RoomSteps, UpdatedRoom
  <1>20. ASSUME NEW h \in Reqs, AddPeople(h) PROVE ReportOnItsWay'
    <2>1. updated'[h] \in UpdatedRoom /\ room[h] \in Rooms
      <3>1. Net(Counts(h)) \in Int BY <1>20, SumsAreIntegers DEF AddPeople, Net
      <3> QED BY <1>20, <3>1 DEF AddPeople, Shape, LocalsShape, RoomSteps, UpdatedRoom
    <2>2. /\ currentPeople'[room[h]] = updated'[h].people
          /\ updated'[h].capacity = capacity[room[h]]
          /\ pc'[h] = "sendTenant"
      BY <1>20, <2>1 DEF AddPeople
    <2>3. ~Added(h)
      BY <1>20 DEF AddPeople, Match, UnlockStatus, SensorStatus
    <2>4. /\ \A g \in Reqs \ {h} : updated'[g] = updated[g] /\ pc'[g] = pc[g]
          /\ \A r \in Rooms \ {room[h]} : currentPeople'[r] = currentPeople[r]
          /\ room' = room /\ capacity' = capacity /\ edited' = edited
          /\ published' = published
      BY <1>20 DEF AddPeople
    <2>5. updated'[h] # None BY <2>1
    <2>6. ASSUME NEW g \in Reqs, Added(g)'
          PROVE  (room[g] # None /\ (room[g] \notin edited => updated[g].capacity = capacity[room[g]]))'
      BY <2>1, <2>2, <2>4, <2>6 DEF ReportOnItsWay
    <2>7. ASSUME NEW r \in Rooms \ edited, currentPeople'[r] > capacity[r]
          PROVE  \E g \in Reqs :
                    /\ room[g] = r /\ updated'[g] # None /\ updated'[g].people > capacity[r]
                    /\ \/ "ROOM_CAPACITY_EXCEEDED" \in published[g]
                       \/ pc'[g] = "sendTenant"
                       \/ g \in UnlockReqs /\ pc'[g] \in {"createLog", "sendLog"}
      <3>1. CASE r = room[h] BY <2>2, <2>5, <2>7, <3>1
      <3>2. CASE r # room[h]
        <4>1. PICK g \in Reqs :
                 /\ room[g] = r /\ updated[g] # None /\ updated[g].people > capacity[r]
                 /\ \/ "ROOM_CAPACITY_EXCEEDED" \in published[g]
                    \/ pc[g] = "sendTenant"
                    \/ g \in UnlockReqs /\ pc[g] \in {"createLog", "sendLog"}
          BY <2>4, <2>7, <3>2 DEF ReportOnItsWay
        <4> QED BY <2>3, <2>4, <4>1
      <3> QED BY <3>1, <3>2
    <2> QED BY <2>4, <2>6, <2>7 DEF ReportOnItsWay
  <1>21. ASSUME NEW h \in Reqs, CreateLog(h) PROVE ReportOnItsWay'
    BY <1>21 DEF CreateLog,
       Shape, LocalsShape, Match, UnlockStatus, SensorStatus, ReportOnItsWay,
       RoomSteps, UpdatedRoom
  <1>22. ASSUME NEW h \in Reqs, Fail(h) PROVE ReportOnItsWay'
    BY <1>22 DEF Fail,
       Shape, LocalsShape, Match, UnlockStatus, SensorStatus, ReportOnItsWay,
       RoomSteps, UpdatedRoom
  <1>23. ASSUME NEW r \in Rooms, UpdateRoom(r) PROVE ReportOnItsWay'
    BY <1>23 DEF UpdateRoom,
       Shape, LocalsShape, Match, UnlockStatus, SensorStatus, ReportOnItsWay,
       RoomSteps, UpdatedRoom
  <1>24. CASE UNCHANGED vars
    BY <1>24 DEF ReportOnItsWay, vars, Claims, Matched, RoomsOf
  <1> QED
    BY <1>1, <1>2, <1>3, <1>4, <1>5, <1>6, <1>7, <1>8, <1>9, <1>10, <1>11, <1>12,
       <1>13, <1>14, <1>15, <1>16, <1>17, <1>18, <1>19, <1>20, <1>21, <1>22, <1>23, <1>24
       DEF Next, UnlockStep, SensorStep, CloudStep, Quiet

\* An unlock that counts nobody has read rows that cancel out; their payloads
\* do not change any more.
LEMMA CancelOutNext ==
    ASSUME IInv, CancelOut, [Next]_vars
    PROVE  CancelOut'
  <1> USE ReqsAssumption
     DEF tables, rooms, locals, effects, history, At, Goto, Reqs, IInv, TypeOK, Added,
         AddedSteps
  <1> DEFINE Idle(u) == status[u] = "pending" /\ (pc[u] = "createEvent" \/ event[u] # "none")
             Keeps(u) == Idle(u)' => /\ Idle(u)
                                     /\ found'[u] = found[u]
                                     /\ \A s \in found[u] : req'[s] = req[s]
             Fresh(u) == Idle(u)' => Net(found'[u]) = 0 /\ req' = req
  <1>1. ASSUME NEW u \in UnlockReqs, ReceiveUnlock(u), NEW v \in UnlockReqs PROVE Keeps(v)
    BY <1>1 DEF ReceiveUnlock, Arrive, Shape, UnlockShape, SensorShape, LocalsShape
  <1>2. ASSUME NEW u \in UnlockReqs, DebounceUnlock(u), NEW v \in UnlockReqs PROVE Keeps(v)
    BY <1>2 DEF DebounceUnlock, Shape, UnlockShape, SensorShape, LocalsShape
  <1>3. ASSUME NEW u \in UnlockReqs, LookUpUnlockRoom(u), NEW v \in UnlockReqs PROVE Keeps(v)
    BY <1>3 DEF LookUpUnlockRoom, LookUpRoom, Shape, UnlockShape, SensorShape, LocalsShape
  <1>4. ASSUME NEW u \in UnlockReqs, ReadUnconfirmed(u), NEW v \in UnlockReqs PROVE Keeps(v)
    BY <1>4 DEF ReadUnconfirmed, SensorRows, Shape, UnlockShape, SensorShape, LocalsShape
  <1>5. ASSUME NEW u \in UnlockReqs, ReadPending(u), NEW v \in UnlockReqs PROVE Keeps(v) \/ Fresh(v)
    BY <1>5 DEF ReadPending, SensorRows, Shape, UnlockShape, SensorShape, LocalsShape
  <1>6. ASSUME NEW u \in UnlockReqs, ConfirmSensors(u), NEW v \in UnlockReqs PROVE Keeps(v)
    BY <1>6 DEF ConfirmSensors, Shape, UnlockShape, SensorShape, LocalsShape
  <1>7. ASSUME NEW u \in UnlockReqs, SendUnlockTenant(u), NEW v \in UnlockReqs PROVE Keeps(v)
    BY <1>7 DEF SendUnlockTenant, Shape, UnlockShape, SensorShape, LocalsShape
  <1>8. ASSUME NEW u \in UnlockReqs, SendUnlockLog(u), NEW v \in UnlockReqs PROVE Keeps(v)
    BY <1>8 DEF SendUnlockLog, Shape, LocalsShape, Match, UnlockStatus
  <1>9. ASSUME NEW u \in UnlockReqs, CreateEvent(u), NEW v \in UnlockReqs PROVE Keeps(v)
    BY <1>9 DEF CreateEvent, Shape, UnlockShape, SensorShape, LocalsShape
  <1>10. ASSUME NEW s \in SensorReqs, ReceiveSensor(s), NEW v \in UnlockReqs PROVE Keeps(v)
    BY <1>10 DEF ReceiveSensor, Arrive, Shape, UnlockShape, SensorShape, LocalsShape
  <1>11. ASSUME NEW s \in SensorReqs, FindEvent(s), NEW v \in UnlockReqs PROVE Keeps(v)
    BY <1>11 DEF FindEvent, PendingEvents, Shape, UnlockShape, SensorShape, LocalsShape
  <1>12. ASSUME NEW s \in SensorReqs, AskStatus(s), NEW v \in UnlockReqs PROVE Keeps(v)
    BY <1>12 DEF AskStatus, Shape, UnlockShape, SensorShape, LocalsShape
  <1>13. ASSUME NEW s \in SensorReqs, FindRecent(s), NEW v \in UnlockReqs PROVE Keeps(v)
    BY <1>13 DEF FindRecent, LatestEvents, Shape, UnlockShape, SensorShape, LocalsShape
  <1>14. ASSUME NEW s \in SensorReqs, AskHistory(s), NEW v \in UnlockReqs PROVE Keeps(v)
    BY <1>14 DEF AskHistory, Shape, UnlockShape, SensorShape, LocalsShape
  <1>15. ASSUME NEW s \in SensorReqs, LookUpSensorRoom(s), NEW v \in UnlockReqs PROVE Keeps(v)
    BY <1>15
       DEF LookUpSensorRoom, LookUpRoom, Shape, UnlockShape, SensorShape, LocalsShape
  <1>16. ASSUME NEW s \in SensorReqs, SendSensorTenant(s), NEW v \in UnlockReqs PROVE Keeps(v)
    BY <1>16 DEF SendSensorTenant, Shape, UnlockShape, SensorShape, LocalsShape
  <1>17. ASSUME NEW s \in SensorReqs, ConfirmEvent(s), NEW v \in UnlockReqs PROVE Keeps(v)
    <2>1. EventOf(s) \in UnlockReqs /\ event[EventOf(s)] # "none"
      BY <1>17, EventOfIsStored DEF ConfirmEvent
    <2> QED BY <1>17, <2>1 DEF ConfirmEvent
  <1>18. ASSUME NEW s \in SensorReqs, SendSensorLog(s), NEW v \in UnlockReqs PROVE Keeps(v)
    BY <1>18 DEF SendSensorLog, Shape, UnlockShape, SensorShape, LocalsShape
  <1>19. ASSUME NEW s \in SensorReqs, CreateSensor(s), NEW v \in UnlockReqs PROVE Keeps(v)
    BY <1>19 DEF CreateSensor, Shape, UnlockShape, SensorShape, LocalsShape
  <1>20. ASSUME NEW h \in Reqs, AddPeople(h), NEW v \in UnlockReqs PROVE Keeps(v)
    BY <1>20 DEF AddPeople, Shape, UnlockShape, SensorShape, LocalsShape
  <1>21. ASSUME NEW h \in Reqs, CreateLog(h), NEW v \in UnlockReqs PROVE Keeps(v)
    BY <1>21 DEF CreateLog, Shape, UnlockShape, SensorShape, LocalsShape
  <1>22. ASSUME NEW h \in Reqs, Fail(h), NEW v \in UnlockReqs PROVE Keeps(v)
    BY <1>22 DEF Fail, Shape, UnlockShape, SensorShape, LocalsShape
  <1>23. ASSUME NEW r \in Rooms, UpdateRoom(r), NEW v \in UnlockReqs PROVE Keeps(v)
    BY <1>23 DEF UpdateRoom, Shape, UnlockShape, SensorShape, LocalsShape
  <1>24. ASSUME UNCHANGED vars, NEW v \in UnlockReqs PROVE Keeps(v)
    BY <1>24 DEF vars
  <1>25. ASSUME NEW v \in UnlockReqs PROVE Keeps(v) \/ Fresh(v)
    <2> HIDE DEF Keeps, Fresh
    <2> QED BY <1>1, <1>2, <1>3, <1>4, <1>5, <1>6, <1>7, <1>8, <1>9, <1>10, <1>11, <1>12,
       <1>13, <1>14, <1>15, <1>16, <1>17, <1>18, <1>19, <1>20, <1>21, <1>22, <1>23, <1>24
            DEF Next, UnlockStep, SensorStep, CloudStep, Quiet
  <1> SUFFICES ASSUME NEW v \in UnlockReqs, Idle(v)' PROVE (Net(found[v]) = 0)'
      BY DEF CancelOut
  <1>26. CASE Keeps(v)
    <2>1. Net(found[v]) = 0 BY <1>26 DEF CancelOut
    <2>2. [s \in found'[v] |-> req'[s].in] = [s \in found[v] |-> req[s].in] BY <1>26
    <2>3. [s \in found'[v] |-> req'[s].out] = [s \in found[v] |-> req[s].out] BY <1>26
    <2> QED BY <2>1, <2>2, <2>3 DEF Net, PeopleIn, PeopleOut
  <1>27. CASE Fresh(v)
    <2>1. Net(found'[v]) = 0 /\ req' = req BY <1>27
    <2> QED BY <2>1 DEF Net, PeopleIn, PeopleOut
  <1> QED BY <1>25, <1>26, <1>27

\* Nothing has been claimed, read or counted.
LEMMA InitPairs == Init => PairInv
  <1> SUFFICES ASSUME Init PROVE PairInv OBVIOUS
  <1> USE DEF Init, Added, Reqs
  <1>1. IInv BY InitType, InitMatch DEF IInv
  <1>2. ClaimedOnce BY DEF ClaimedOnce, Claims, Matched
  <1>3. DebounceChecked BY DEF DebounceChecked
  <1>4. RowsRead /\ CancelOut BY DEF RowsRead, CancelOut, ReadSteps, AddedSteps
  <1>5. EventSeen BY DEF EventSeen
  <1>6. RoomsKnown BY DEF RoomsKnown, RoomSteps
  <1>7. ReportOnItsWay BY RoomAssumption DEF ReportOnItsWay
  <1> QED BY <1>1, <1>2, <1>3, <1>4, <1>5, <1>6, <1>7 DEF PairInv

\* The invariant of the pairs is inductive.
THEOREM PairsHold == Spec => []PairInv
  <1>1. PairInv /\ [Next]_vars => PairInv'
    <2> SUFFICES ASSUME PairInv, [Next]_vars PROVE PairInv' OBVIOUS
    <2>1. IInv' BY TypeNext, MatchNext DEF PairInv, IInv
    <2> QED BY <2>1, ClaimedOnceNext, DebounceCheckedNext, RowsReadNext, CancelOutNext,
               EventSeenNext, RoomsKnownNext, ReportOnItsWayNext DEF PairInv
  <1> QED BY InitPairs, <1>1, PTL DEF Spec

\* A pending event is claimed by two readings only when their handlers
\* overlapped or one died before it confirmed the event; and never by a reading
\* when its own handler counted some.
THEOREM EventClaimedByOne == Spec => []EventClaimedTwiceOnlyByOverlap
  <1>1. ASSUME PairInv PROVE EventClaimedTwiceOnlyByOverlap
    <2>1. ASSUME NEW u \in UnlockReqs, NEW s \in SensorReqs, Claims(s, u) PROVE ~Added(u)
      BY <1>1, <2>1 DEF PairInv, ClaimedOnce, Claims
    <2>2. ASSUME NEW u \in UnlockReqs, NEW s \in SensorReqs, NEW t \in SensorReqs,
                 Claims(s, u), Claims(t, u), t \in before[s]
          PROVE  t \in failed /\ pc[t] \in {"sendTenant", "confirmEvent"}
      <3>1. pc[t] \in {"sendTenant", "confirmEvent"}
        BY <1>1, <2>2 DEF PairInv, ClaimedOnce, Claims
      <3>2. AtRest(t) BY <1>1, <2>2 DEF PairInv, IInv, Match, RestBefore, Reqs
      <3> QED BY <3>1, <3>2 DEF AtRest
    <2> QED BY <2>1, <2>2 DEF EventClaimedTwiceOnlyByOverlap, Concurrent
  <1> QED BY <1>1, PairsHold, PTL

\* The second of two close unlocks leaves an event only when the first was
\* confirmed in the meantime.
THEOREM DebounceSwallows == Spec => []SecondUnlockOnlyAfterConfirm
  <1>1. PairInv => SecondUnlockOnlyAfterConfirm
    BY DEF PairInv, DebounceChecked, SecondUnlockOnlyAfterConfirm
  <1> QED BY <1>1, PairsHold, PTL

\* An event and a reading close to each other do not stay PENDING both by the
\* order they came in.
THEOREM NoPairMissedInOrder == Spec => []UnmatchedOnlyByOverlap
  <1>1. ASSUME PairInv PROVE UnmatchedOnlyByOverlap
    <2> SUFFICES ASSUME NEW u \in UnlockReqs, NEW s \in SensorReqs,
                        event[u] = "pending", sensor[s] = "pending",
                        req[s].ts \in req[u].date - TwPending .. req[u].date + TwPending
                 PROVE  Concurrent(u, s) \/ (s \in found[u] /\ Net(found[u]) = 0)
        BY DEF UnmatchedOnlyByOverlap
    <2>1. CASE s \in before[u]
      <3>1. s \in found[u] BY <1>1, <2>1 DEF PairInv, RowsRead
      <3>2. status[u] = "pending" BY <1>1 DEF PairInv, IInv, Match, UnlockStatus
      <3> QED BY <1>1, <3>1, <3>2 DEF PairInv, CancelOut
    <2>2. CASE u \in before[s]
      <3>1. pc[s] = "done" /\ pc[u] = "done"
        BY <1>1 DEF PairInv, IInv, Shape, SensorShape, UnlockShape
      <3>2. req[s] \in SensorPayload /\ req[u] \in UnlockPayload
        BY <1>1, <3>1 DEF PairInv, IInv, Shape, SensorShape, UnlockShape
      <3>3. req[s].ts \in req[u].date - TwSensor .. req[u].date + TwSensor
        BY <3>2, WindowAssumption DEF SensorPayload, UnlockPayload
      <3>4. status[s] = "confirmed" BY <1>1, <2>2, <3>1, <3>3 DEF PairInv, EventSeen
      <3> QED BY <1>1, <3>4 DEF PairInv, IInv, Match, SensorStatus
    <2> QED BY <2>1, <2>2 DEF Concurrent
  <1> QED BY <1>1, PairsHold, PTL

\* Loitering seen before an unlock of the next two minutes is taken by it.
THEOREM LoiteringTaken == Spec => []LoiteringPickedUp
  <1>1. ASSUME PairInv PROVE LoiteringPickedUp
    <2> SUFFICES ASSUME NEW u \in UnlockReqs, NEW s \in SensorReqs, s \in before[u],
                        event[u] # "none", sensor[s] = "unconfirmed",
                        req[s].ts \in req[u].date - TwUnconfirmed .. req[u].date
                 PROVE  s \in found[u] /\ Net(found[u]) = 0
        BY DEF LoiteringPickedUp
    <2>1. s \in found[u] BY <1>1 DEF PairInv, RowsRead
    <2>2. ~Added(u) BY <1>1, <2>1 DEF PairInv, IInv, Match, Protected
    <2>3. status[u] = "pending"
      BY <1>1, <2>2 DEF PairInv, IInv, Shape, UnlockShape, Match, UnlockStatus
    <2> QED BY <1>1, <2>1, <2>3 DEF PairInv, CancelOut
  <1> QED BY <1>1, PairsHold, PTL

\* As long as no room is edited, a handled reading is stored.
THEOREM ReadingsStored == Spec => []ReadingStored
  <1>1. PairInv => ReadingStored BY DEF PairInv, RoomsKnown, ReadingStored
  <1> QED BY <1>1, PairsHold, PTL

\* A room above its capacity has been reported, or the report is on its way.
THEOREM CapacityReported == Spec => []OverCapacityReported
  <1>1. ASSUME PairInv PROVE OverCapacityReported
    <2> SUFFICES ASSUME NEW r \in Rooms \ edited, ~(currentPeople[r] <= capacity[r])
                 PROVE  \/ \E h \in Reqs :
                             room[h] = r /\ "ROOM_CAPACITY_EXCEEDED" \in published[h]
                        \/ \E h \in Reqs : room[h] = r /\ Added(h) /\
                             pc[h] \in {"sendTenant", "createLog", "sendLog"}
        BY DEF OverCapacityReported
    <2>1. currentPeople[r] > capacity[r] BY <1>1 DEF PairInv, IInv, TypeOK
    <2> QED BY <1>1, <2>1 DEF PairInv, ReportOnItsWay
  <1> QED BY <1>1, PairsHold, PTL
=============================================================================
