------------------------- MODULE LicensePlatesProofs -------------------------
(***************************************************************************)
(* What a passage of the plate camera makes of the events it reads while   *)
(* the handlers of EntryMatching go on: proofs for every set of passages,  *)
(* vehicles, requests, rooms and windows.                                  *)
(***************************************************************************)
EXTENDS LicensePlates, EntryMatchingProofs

\* How a passage came to its opener: while its queries run there is none; an opener is
\* a stored event of the window that opened the gate, or an earlier one.
Openers ==
    \A p \in Passages :
        /\ at[p] # "idle" => passage[p] \in PassagePayload
        /\ at[p] \in {"idle", "findVehicle", "findPending", "askStatus", "findLast"}
              => gate[p] = "unknown"
        /\ at[p] = "lookUpRoom" => gate[p] # "unknown"
        /\ gate[p] = "unknown" => opener[p] = None
        /\ gate[p] # "unknown" => opener[p] \in UnlockReqs /\ event[opener[p]] # "none"
        /\ gate[p] = "opened" => InWindow(opener[p], p)
        /\ gate[p] = "leftOpen" => req[opener[p]].date < passage[p].ts

\* The row, its emission and the alert come in this order; a row without an opener is on
\* room 1, and the alert names the room of the opener only.
Rows ==
    \A p \in Passages :
        /\ at[p] # "done" => told[p] = None /\ p \notin errored
        /\ at[p] \notin {"sendEntry", "done"} => entryLog[p] = None
        /\ at[p] = "sendEntry" => entryLog[p] = entryRoom[p] /\ entryRoom[p] \in Rooms
        /\ gate[p] = "unknown" =>
              entryRoom[p] \in {RoomOne, None} /\ entryLog[p] \in {RoomOne, None}
        /\ told[p] # None =>
              /\ p \in entrySent /\ p \notin errored /\ entryLog[p] \in Rooms
              /\ told[p].gate = gate[p] /\ told[p].room = RoomNumberOpened(p)
        /\ Handled(p) /\ entryLog[p] # None /\ Alarming(p) => told[p] # None

\* What was at rest when the passage arrived is still, so that its pending events were
\* pending when the passage looked for them, and its stored events were stored.
Settled ==
    \A p \in Passages :
        /\ at[p] # "idle" => \A h \in settled[p] : AtRest(h)
        /\ at[p] \notin {"idle", "findVehicle", "findPending"} /\ p \notin errored =>
              \A u \in UnlockReqs \cap settled[p] :
                  event[u] = "pending" /\ InWindow(u, p) => gate[p] = "opened"
        /\ gate[p] = "leftOpen" =>
              \A u \in UnlockReqs \cap settled[p] :
                  event[u] # "none" /\ req[u].date < passage[p].ts
                      => req[u].date <= req[opener[p]].date

\* As long as no room is renamed, a passage is put down to the room of its opener.
RoomOfOpener ==
    edited = {} => \A p \in Passages : gate[p] # "unknown" =>
        LET owned == RoomsOf(req[opener[p]].user)
        IN  /\ at[p] \in {"createEntry", "sendEntry"} => entryRoom[p] \in owned
            /\ entryLog[p] # None => entryLog[p] \in owned
            /\ Handled(p) => entryLog[p] # None \/ owned = {}

PassageInv == PlatesTypeOK /\ Openers /\ Rows /\ Settled /\ RoomOfOpener

-----------------------------------------------------------------------------
(* What the entry handlers leave a passage.                                *)

\* Stored events stay, with their payload; a handler at rest stays there and makes no
\* event pending and stores none; a room that is renamed is known to be edited.
EntryKept ==
    /\ \A u \in UnlockReqs : event[u] # "none" => event'[u] # "none" /\ req'[u] = req[u]
    /\ \A u \in UnlockReqs : AtRest(u) /\ event'[u] = "pending" => event[u] = "pending"
    /\ \A u \in UnlockReqs : AtRest(u) /\ event'[u] # "none" => event[u] # "none"
    /\ \A h \in Reqs : AtRest(h) => AtRest(h)' /\ req'[h] = req[h]
    /\ edited' = {} => edited = {} /\ roomNumber' = roomNumber

LEMMA EntryStep ==
    ASSUME IInv, [Next]_vars
    PROVE  EntryKept
  <1>0. TypeOK /\ Shape BY DEF IInv
  <1> USE <1>0, ReqsAssumption
      DEF tables, rooms, locals, effects, history, At, Goto, Reqs, TypeOK, AtRest, Shape,
          UnlockShape, SensorShape, LocalsShape, EntryKept
  <1>1. ASSUME NEW u \in UnlockReqs, ReceiveUnlock(u) PROVE EntryKept
    BY <1>1 DEF ReceiveUnlock, Arrive
  <1>2. ASSUME NEW u \in UnlockReqs, DebounceUnlock(u) PROVE EntryKept
    BY <1>2 DEF DebounceUnlock
  <1>3. ASSUME NEW u \in UnlockReqs, LookUpUnlockRoom(u) PROVE EntryKept
    BY <1>3 DEF LookUpUnlockRoom, LookUpRoom
  <1>4. ASSUME NEW u \in UnlockReqs, ReadUnconfirmed(u) PROVE EntryKept
    BY <1>4 DEF ReadUnconfirmed
  <1>5. ASSUME NEW u \in UnlockReqs, ReadPending(u) PROVE EntryKept
    BY <1>5 DEF ReadPending
  <1>6. ASSUME NEW u \in UnlockReqs, ConfirmSensors(u) PROVE EntryKept
    BY <1>6 DEF ConfirmSensors
  <1>7. ASSUME NEW u \in UnlockReqs, SendUnlockTenant(u) PROVE EntryKept
    BY <1>7 DEF SendUnlockTenant
  <1>8. ASSUME NEW u \in UnlockReqs, SendUnlockLog(u) PROVE EntryKept
    BY <1>8 DEF SendUnlockLog
  <1>9. ASSUME NEW u \in UnlockReqs, CreateEvent(u) PROVE EntryKept
    BY <1>9 DEF CreateEvent
  <1>10. ASSUME NEW s \in SensorReqs, ReceiveSensor(s) PROVE EntryKept
    BY <1>10 DEF ReceiveSensor, Arrive
  <1>11. ASSUME NEW s \in SensorReqs, FindEvent(s) PROVE EntryKept
    BY <1>11 DEF FindEvent
  <1>12. ASSUME NEW s \in SensorReqs, AskStatus(s) PROVE EntryKept
    BY <1>12 DEF AskStatus
  <1>13. ASSUME NEW s \in SensorReqs, FindRecent(s) PROVE EntryKept
    BY <1>13 DEF FindRecent
  <1>14. ASSUME NEW s \in SensorReqs, AskHistory(s) PROVE EntryKept
    BY <1>14 DEF AskHistory
  <1>15. ASSUME NEW s \in SensorReqs, LookUpSensorRoom(s) PROVE EntryKept
    BY <1>15 DEF LookUpSensorRoom, LookUpRoom
  <1>16. ASSUME NEW s \in SensorReqs, SendSensorTenant(s) PROVE EntryKept
    BY <1>16 DEF SendSensorTenant
  <1>17. ASSUME NEW s \in SensorReqs, ConfirmEvent(s) PROVE EntryKept
    BY <1>17, EventOfIsStored DEF ConfirmEvent
  <1>18. ASSUME NEW s \in SensorReqs, SendSensorLog(s) PROVE EntryKept
    BY <1>18 DEF SendSensorLog
  <1>19. ASSUME NEW s \in SensorReqs, CreateSensor(s) PROVE EntryKept
    BY <1>19 DEF CreateSensor
  <1>20. ASSUME NEW h \in Reqs, AddPeople(h) PROVE EntryKept
    BY <1>20 DEF AddPeople
  <1>21. ASSUME NEW h \in Reqs, CreateLog(h) PROVE EntryKept
    BY <1>21 DEF CreateLog
  <1>22. ASSUME NEW h \in Reqs, Fail(h) PROVE EntryKept
    BY <1>22 DEF Fail
  <1>23. ASSUME NEW r \in Rooms, UpdateRoom(r) PROVE EntryKept
    BY <1>23 DEF UpdateRoom
  <1>24. CASE UNCHANGED vars BY <1>24 DEF vars
  <1> HIDE DEF tables, rooms, locals, effects, history, At, Goto, TypeOK, AtRest, Shape,
          UnlockShape, SensorShape, LocalsShape, EntryKept
  <1> QED
    BY <1>1, <1>2, <1>3, <1>4, <1>5, <1>6, <1>7, <1>8, <1>9, <1>10, <1>11, <1>12,
       <1>13, <1>14, <1>15, <1>16, <1>17, <1>18, <1>19, <1>20, <1>21, <1>22, <1>23,
       <1>24
       DEF Next, UnlockStep, SensorStep, CloudStep, Quiet

-----------------------------------------------------------------------------
(* The steps of the camera's handler.                                      *)

LEMMA PassageStep ==
    ASSUME IInv, PassageInv, PassageNext, UNCHANGED vars
    PROVE  PassageInv'
  <1>0. PlatesTypeOK /\ Openers /\ Rows /\ Settled /\ RoomOfOpener BY DEF PassageInv
  <1>a. /\ event' = event /\ req' = req /\ pc' = pc /\ failed' = failed /\ edited' = edited
        /\ roomNumber' = roomNumber
    BY DEF vars, tables, rooms, locals, history
  <1>b. (\A h \in Reqs : AtRest(h)' <=> AtRest(h)) /\ \A user : RoomsOf(user)' = RoomsOf(user)
    BY <1>a DEF AtRest, RoomsOf
  <1> USE <1>0, <1>a, <1>b DEF PlatesTypeOK
  <1>1. ASSUME NEW p \in Passages, ReceivePassage(p) PROVE PassageInv'
    <2>1. PlatesTypeOK'
      BY <1>1, PassageAssumption, ReqsAssumption DEF ReceivePassage, Step, PassageSteps, Openers
    <2>2. Openers'
      BY <1>1, PassageAssumption DEF ReceivePassage, Step, Openers, PassageSteps, InWindow
    <2>3. Rows'
      BY <1>1, ReqsAssumption DEF ReceivePassage, Step, Rows, PassageSteps, Handled, Alarming, RoomNumberOpened
    <2>4. Settled'
      BY <1>1 DEF ReceivePassage, Step, Settled, Openers, PassageSteps, InWindow
    <2>5. RoomOfOpener'
      BY <1>1, ReqsAssumption DEF ReceivePassage, Step, RoomOfOpener, Openers, Rows, PassageSteps, Handled
    <2> QED BY <2>1, <2>2, <2>3, <2>4, <2>5 DEF PassageInv
  <1>2. ASSUME NEW p \in Passages, FindVehicle(p) PROVE PassageInv'
    <2>1. PlatesTypeOK'
      BY <1>2, PassageAssumption, ReqsAssumption DEF FindVehicle, Step, PassageSteps, Openers
    <2>2. Openers'
      BY <1>2, PassageAssumption DEF FindVehicle, Step, Openers, PassageSteps, InWindow
    <2>3. Rows'
      BY <1>2, ReqsAssumption DEF FindVehicle, Step, Rows, PassageSteps, Handled, Alarming, RoomNumberOpened
    <2>4. Settled'
      BY <1>2 DEF FindVehicle, Step, Settled, PassageSteps, InWindow
    <2>5. RoomOfOpener'
      BY <1>2, ReqsAssumption DEF FindVehicle, Step, RoomOfOpener, Openers, Rows, PassageSteps, Handled
    <2> QED BY <2>1, <2>2, <2>3, <2>4, <2>5 DEF PassageInv
  <1>3. ASSUME NEW p \in Passages, FindPending(p) PROVE PassageInv'
    <2>1. PlatesTypeOK'
      BY <1>3, PassageAssumption, ReqsAssumption DEF FindPending, Step, WindowEvents, PendingEvents, PassageSteps, Openers
    <2>2. Openers'
      BY <1>3, PassageAssumption DEF FindPending, Step, WindowEvents, PendingEvents, Openers, PassageSteps, InWindow
    <2>3. Rows'
      BY <1>3, ReqsAssumption DEF FindPending, Step, WindowEvents, PendingEvents, Rows, PassageSteps, Handled, Alarming, RoomNumberOpened
    <2>4. Settled'
      BY <1>3 DEF FindPending, Step, WindowEvents, PendingEvents, Settled, PassageSteps, InWindow
    <2>5. RoomOfOpener'
      <3> SUFFICES ASSUME edited = {}, NEW q \in Passages, gate'[q] # "unknown"
                   PROVE  /\ at'[q] \in {"createEntry", "sendEntry"} =>
                                entryRoom'[q] \in RoomsOf(req[opener'[q]].user)
                          /\ entryLog'[q] # None =>
                                entryLog'[q] \in RoomsOf(req[opener'[q]].user)
                          /\ Handled(q)' => \/ entryLog'[q] # None
                                            \/ RoomsOf(req[opener'[q]].user) = {}
          BY DEF RoomOfOpener
      <3>1. CASE q = p BY <1>3, <3>1 DEF FindPending, Step, Openers, Rows, Handled, PassageSteps
      <3>2. CASE q # p BY <1>3, <3>2 DEF FindPending, Step, RoomOfOpener, Handled
      <3> QED BY <3>1, <3>2
    <2> QED BY <2>1, <2>2, <2>3, <2>4, <2>5 DEF PassageInv
  <1>4. ASSUME NEW p \in Passages, AskGateStatus(p) PROVE PassageInv'
    <2>1. PlatesTypeOK'
      BY <1>4, PassageAssumption, ReqsAssumption DEF AskGateStatus, Step, PassageSteps, Openers
    <2>2. Openers'
      BY <1>4, PassageAssumption DEF AskGateStatus, Step, Openers, PassageSteps, InWindow
    <2>3. Rows'
      BY <1>4, ReqsAssumption DEF AskGateStatus, Step, Rows, PassageSteps, Handled, Alarming, RoomNumberOpened
    <2>4. Settled'
      BY <1>4 DEF AskGateStatus, Step, Settled, PassageSteps, InWindow
    <2>5. RoomOfOpener'
      <3> SUFFICES ASSUME edited = {}, NEW q \in Passages, gate'[q] # "unknown"
                   PROVE  /\ at'[q] \in {"createEntry", "sendEntry"} =>
                                entryRoom'[q] \in RoomsOf(req[opener'[q]].user)
                          /\ entryLog'[q] # None =>
                                entryLog'[q] \in RoomsOf(req[opener'[q]].user)
                          /\ Handled(q)' => \/ entryLog'[q] # None
                                            \/ RoomsOf(req[opener'[q]].user) = {}
          BY DEF RoomOfOpener
      <3>1. CASE q = p
        BY <1>4, <3>1, ReqsAssumption DEF AskGateStatus, Step, RoomOfOpener, Openers, Rows, Handled, PassageSteps
      <3>2. CASE q # p BY <1>4, <3>2 DEF AskGateStatus, Step, RoomOfOpener, Handled
      <3> QED BY <3>1, <3>2
    <2> QED BY <2>1, <2>2, <2>3, <2>4, <2>5 DEF PassageInv
  <1>5. ASSUME NEW p \in Passages, FindLast(p) PROVE PassageInv'
    <2>1. PlatesTypeOK'
      BY <1>5, PassageAssumption, ReqsAssumption DEF FindLast, Step, LatestEvents, PassageSteps, Openers
    <2>2. Openers'
      BY <1>5, PassageAssumption DEF FindLast, Step, LatestEvents, Openers, PassageSteps, InWindow
    <2>3. Rows'
      BY <1>5, ReqsAssumption DEF FindLast, Step, LatestEvents, Rows, PassageSteps, Handled, Alarming, RoomNumberOpened
    <2>4. Settled'
      BY <1>5 DEF FindLast, Step, LatestEvents, Settled, PassageSteps, Openers, InWindow
    <2>5. RoomOfOpener'
      <3> SUFFICES ASSUME edited = {}, NEW q \in Passages, gate'[q] # "unknown"
                   PROVE  /\ at'[q] \in {"createEntry", "sendEntry"} =>
                                entryRoom'[q] \in RoomsOf(req[opener'[q]].user)
                          /\ entryLog'[q] # None =>
                                entryLog'[q] \in RoomsOf(req[opener'[q]].user)
                          /\ Handled(q)' => \/ entryLog'[q] # None
                                            \/ RoomsOf(req[opener'[q]].user) = {}
          BY DEF RoomOfOpener
      <3>1. CASE q = p BY <1>5, <3>1 DEF FindLast, Step, Openers, Rows, Handled, PassageSteps
      <3>2. CASE q # p BY <1>5, <3>2 DEF FindLast, Step, RoomOfOpener, Handled
      <3> QED BY <3>1, <3>2
    <2> QED BY <2>1, <2>2, <2>3, <2>4, <2>5 DEF PassageInv
  <1>6. ASSUME NEW p \in Passages, LookUpOpenersRoom(p) PROVE PassageInv'
    <2>1. PlatesTypeOK'
      BY <1>6, PassageAssumption, ReqsAssumption DEF LookUpOpenersRoom, Step, PassageSteps, Openers, RoomsOf
    <2>2. Openers'
      BY <1>6, PassageAssumption DEF LookUpOpenersRoom, Step, Openers, PassageSteps, InWindow
    <2>3. Rows'
      BY <1>6, ReqsAssumption DEF LookUpOpenersRoom, Step, Rows, Openers, PassageSteps, Handled, Alarming,
       RoomNumberOpened
    <2>4. Settled'
      BY <1>6 DEF LookUpOpenersRoom, Step, Settled, PassageSteps, InWindow
    <2>5. RoomOfOpener'
      <3> SUFFICES ASSUME edited = {}, NEW q \in Passages, gate'[q] # "unknown"
                   PROVE  /\ at'[q] \in {"createEntry", "sendEntry"} =>
                                entryRoom'[q] \in RoomsOf(req[opener'[q]].user)
                          /\ entryLog'[q] # None =>
                                entryLog'[q] \in RoomsOf(req[opener'[q]].user)
                          /\ Handled(q)' => \/ entryLog'[q] # None
                                            \/ RoomsOf(req[opener'[q]].user) = {}
          BY DEF RoomOfOpener
      <3>1. CASE q = p BY <1>6, <3>1 DEF LookUpOpenersRoom, Step, Openers, Rows, Handled, PassageSteps
      <3>2. CASE q # p BY <1>6, <3>2 DEF LookUpOpenersRoom, Step, RoomOfOpener, Handled
      <3> QED BY <3>1, <3>2
    <2> QED BY <2>1, <2>2, <2>3, <2>4, <2>5 DEF PassageInv
  <1>7. ASSUME NEW p \in Passages, CreateEntry(p) PROVE PassageInv'
    <2>1. PlatesTypeOK'
      BY <1>7, PassageAssumption, ReqsAssumption DEF CreateEntry, Step, PassageSteps, Openers
    <2>2. Openers'
      BY <1>7, PassageAssumption DEF CreateEntry, Step, Openers, PassageSteps, InWindow
    <2>3. Rows'
      BY <1>7, ReqsAssumption DEF CreateEntry, Step, Rows, PassageSteps, Handled, Alarming, RoomNumberOpened
    <2>4. Settled'
      BY <1>7 DEF CreateEntry, Step, Settled, PassageSteps, InWindow
    <2>5. RoomOfOpener'
      <3> SUFFICES ASSUME edited = {}, NEW q \in Passages, gate'[q] # "unknown"
                   PROVE  /\ at'[q] \in {"createEntry", "sendEntry"} =>
                                entryRoom'[q] \in RoomsOf(req[opener'[q]].user)
                          /\ entryLog'[q] # None =>
                                entryLog'[q] \in RoomsOf(req[opener'[q]].user)
                          /\ Handled(q)' => \/ entryLog'[q] # None
                                            \/ RoomsOf(req[opener'[q]].user) = {}
          BY DEF RoomOfOpener
      <3>1. CASE q = p
        BY <1>7, <3>1, ReqsAssumption DEF CreateEntry, Step, RoomOfOpener, Openers, Rows, Handled, PassageSteps
      <3>2. CASE q # p BY <1>7, <3>2 DEF CreateEntry, Step, RoomOfOpener, Handled
      <3> QED BY <3>1, <3>2
    <2> QED BY <2>1, <2>2, <2>3, <2>4, <2>5 DEF PassageInv
  <1>8. ASSUME NEW p \in Passages, SendEntry(p) PROVE PassageInv'
    <2> DEFINE alert == [about |-> About(vehicle[p]), gate |-> gate[p],
                         room |-> RoomNumberOpened(p)]
    <2>a. told'[p] = IF Alarming(p) THEN alert ELSE None BY <1>8, Zenon DEF SendEntry
    <2>b. alert \in Alert
      <3>1. RoomNumberOpened(p) \in Numbers \cup {None}
        <4>1. gate[p] # "unknown" => req[opener[p]] \in UnlockPayload
          BY DEF Openers, IInv, Shape, UnlockShape
        <4> QED BY <4>1, PayloadAssumption DEF RoomNumberOpened, UnlockPayload
      <3>2. About(vehicle[p]) \in {"listed", "stolen", "unregistered", "known"} BY DEF About
      <3>3. gate[p] \in {"opened", "leftOpen", "unknown"} OBVIOUS
      <3> HIDE DEF PlatesTypeOK, About, RoomNumberOpened
      <3> QED BY <3>1, <3>2, <3>3 DEF Alert
    <2>c. entryLog[p] \in Rooms BY <1>8 DEF SendEntry, Step, Rows
    <2>d. Alarming(p) => told'[p] # None
      <3> HIDE DEF alert, PlatesTypeOK
      <3> QED BY <2>a, <2>b, AlertAssumption
    <2>0. told'[p] # None =>
             /\ told'[p] \in Alert /\ entryLog[p] \in Rooms
             /\ told'[p].gate = gate[p] /\ told'[p].room = RoomNumberOpened(p)
      <3>1. alert.gate = gate[p] /\ alert.room = RoomNumberOpened(p) OBVIOUS
      <3> HIDE DEF alert, PlatesTypeOK
      <3> QED BY <2>a, <2>b, <2>c, <3>1
    <2> HIDE DEF alert
    <2>1. PlatesTypeOK'
      BY <2>0, <1>8, PassageAssumption, ReqsAssumption DEF SendEntry, Step, PassageSteps, Openers
    <2>2. Openers'
      BY <1>8, PassageAssumption DEF SendEntry, Step, Openers, PassageSteps, InWindow
    <2>3. Rows'
      BY <2>0, <2>d, <1>8, ReqsAssumption DEF SendEntry, Step, Rows, PassageSteps, Handled, Alarming, RoomNumberOpened
    <2>4. Settled'
      BY <1>8 DEF SendEntry, Step, Settled, PassageSteps, InWindow
    <2>5. RoomOfOpener'
      <3> SUFFICES ASSUME edited = {}, NEW q \in Passages, gate'[q] # "unknown"
                   PROVE  /\ at'[q] \in {"createEntry", "sendEntry"} =>
                                entryRoom'[q] \in RoomsOf(req[opener'[q]].user)
                          /\ entryLog'[q] # None =>
                                entryLog'[q] \in RoomsOf(req[opener'[q]].user)
                          /\ Handled(q)' => \/ entryLog'[q] # None
                                            \/ RoomsOf(req[opener'[q]].user) = {}
          BY DEF RoomOfOpener
      <3>1. CASE q = p
        BY <1>8, <3>1, ReqsAssumption DEF SendEntry, Step, RoomOfOpener, Openers, Rows, Handled, PassageSteps
      <3>2. CASE q # p BY <1>8, <3>2 DEF SendEntry, Step, RoomOfOpener, Handled
      <3> QED BY <3>1, <3>2
    <2> QED BY <2>1, <2>2, <2>3, <2>4, <2>5 DEF PassageInv
  <1>9. ASSUME NEW p \in Passages, FailPassage(p) PROVE PassageInv'
    <2>1. PlatesTypeOK'
      BY <1>9, PassageAssumption, ReqsAssumption DEF FailPassage, PassageSteps, Openers
    <2>2. Openers'
      BY <1>9, PassageAssumption DEF FailPassage, Openers, PassageSteps, InWindow
    <2>3. Rows'
      BY <1>9, ReqsAssumption DEF FailPassage, Rows, PassageSteps, Handled, Alarming, RoomNumberOpened
    <2>4. Settled'
      BY <1>9 DEF FailPassage, Settled, PassageSteps, InWindow
    <2>5. RoomOfOpener'
      BY <1>9, ReqsAssumption DEF FailPassage, RoomOfOpener, Openers, Rows, PassageSteps, Handled
    <2> QED BY <2>1, <2>2, <2>3, <2>4, <2>5 DEF PassageInv
  <1> QED BY <1>1, <1>2, <1>3, <1>4, <1>5, <1>6, <1>7, <1>8, <1>9 DEF PassageNext

\* The entry handlers change the events under a passage, and keep what it rests on.
LEMMA EntryStepKeepsPassages ==
    ASSUME IInv, PassageInv, [Next]_vars, UNCHANGED plateVars
    PROVE  PassageInv'
  <1>0. PlatesTypeOK /\ Openers /\ Rows /\ Settled /\ RoomOfOpener BY DEF PassageInv
  <1>1. EntryKept BY EntryStep
  <1>2. /\ entryLog' = entryLog /\ entrySent' = entrySent /\ told' = told /\ at' = at
        /\ passage' = passage /\ vehicle' = vehicle /\ opener' = opener /\ gate' = gate
        /\ entryRoom' = entryRoom /\ errored' = errored /\ settled' = settled
    BY DEF plateVars
  <1>3. PlatesTypeOK' BY <1>0, <1>2 DEF PlatesTypeOK
  <1>4. Openers' BY <1>0, <1>1, <1>2 DEF Openers, EntryKept, InWindow
  <1>5. Rows'
    <2>1. ASSUME NEW p \in Passages PROVE RoomNumberOpened(p)' = RoomNumberOpened(p)
      BY <1>0, <1>1, <1>2 DEF RoomNumberOpened, Openers, EntryKept
    <2> HIDE DEF RoomNumberOpened
    <2> QED BY <1>0, <1>2, <2>1 DEF Rows, Handled, Alarming
  <1>6. Settled'
    <2>1. ASSUME NEW p \in Passages, at[p] # "idle", NEW h \in settled[p]
          PROVE  h \in Reqs /\ AtRest(h) /\ AtRest(h)' /\ req'[h] = req[h]
      BY <1>0, <1>1, <2>1 DEF PlatesTypeOK, Settled, EntryKept
    <2>2. ASSUME NEW p \in Passages, at[p] # "idle", NEW u \in UnlockReqs \cap settled[p],
                 event'[u] = "pending", InWindow(u, p)'
          PROVE  event[u] = "pending" /\ InWindow(u, p)
      BY <1>1, <1>2, <2>1, <2>2 DEF EntryKept, InWindow
    <2>3. ASSUME NEW p \in Passages, gate[p] = "leftOpen"
          PROVE  at[p] # "idle" /\ req'[opener[p]] = req[opener[p]]
      BY <1>0, <1>1, <2>3 DEF Openers, EntryKept
    <2>4. ASSUME NEW p \in Passages, gate[p] = "leftOpen", NEW u \in UnlockReqs \cap settled[p],
                 event'[u] # "none", req'[u].date < passage[p].ts
          PROVE  req'[u].date <= req'[opener[p]].date
      <3>1. event[u] # "none" /\ req'[u] = req[u]
        BY <1>1, <2>1, <2>3, <2>4 DEF EntryKept
      <3> QED BY <1>0, <2>3, <2>4, <3>1 DEF Settled
    <2> HIDE DEF InWindow
    <2> SUFFICES ASSUME NEW p \in Passages
                 PROVE  /\ at'[p] # "idle" => \A h \in settled'[p] : AtRest(h)'
                        /\ at'[p] \notin {"idle", "findVehicle", "findPending"} /\ p \notin errored' =>
                              \A u \in UnlockReqs \cap settled'[p] :
                                  event'[u] = "pending" /\ InWindow(u, p)' => gate'[p] = "opened"
                        /\ gate'[p] = "leftOpen" =>
                              \A u \in UnlockReqs \cap settled'[p] :
                                  event'[u] # "none" /\ req'[u].date < passage'[p].ts
                                      => req'[u].date <= req'[opener'[p]].date
      BY DEF Settled
    <2>5. at[p] # "idle" => \A h \in settled[p] : AtRest(h)' BY <2>1
    <2>6. at[p] \notin {"idle", "findVehicle", "findPending"} /\ p \notin errored =>
              \A u \in UnlockReqs \cap settled[p] :
                  event'[u] = "pending" /\ InWindow(u, p)' => gate[p] = "opened"
      BY <1>0, <2>2 DEF Settled
    <2> QED BY <1>2, <2>4, <2>5, <2>6
  <1>7. RoomOfOpener'
    <2> SUFFICES ASSUME edited' = {}, NEW p \in Passages, gate'[p] # "unknown"
                 PROVE  LET owned == RoomsOf(req[opener[p]].user)'
                        IN  /\ at'[p] \in {"createEntry", "sendEntry"} => entryRoom'[p] \in owned
                            /\ entryLog'[p] # None => entryLog'[p] \in owned
                            /\ Handled(p)' => entryLog'[p] # None \/ owned = {}
        BY DEF RoomOfOpener
    <2>1. edited = {} /\ roomNumber' = roomNumber BY <1>1 DEF EntryKept
    <2>2. gate[p] # "unknown" BY <1>2
    <2>3. req'[opener[p]] = req[opener[p]] BY <1>0, <1>1, <2>2 DEF EntryKept, Openers
    <2>4. RoomsOf(req[opener[p]].user)' = RoomsOf(req[opener[p]].user)
      BY <1>2, <2>1, <2>3 DEF RoomsOf
    <2> QED BY <1>0, <1>2, <2>1, <2>2, <2>4 DEF RoomOfOpener, Handled
  <1> QED BY <1>3, <1>4, <1>5, <1>6, <1>7 DEF PassageInv

LEMMA InitPassages == PlatesInit => IInv /\ PassageInv
  <1> SUFFICES ASSUME PlatesInit PROVE IInv /\ PassageInv OBVIOUS
  <1>1. Init BY DEF PlatesInit
  <1>2. IInv BY <1>1, InitType, InitMatch DEF IInv
  <1>3. PlatesTypeOK BY DEF PlatesInit, PlatesTypeOK
  <1>4. Openers /\ Rows /\ Settled /\ RoomOfOpener
    BY DEF PlatesInit, Openers, Rows, Settled, RoomOfOpener, Handled
  <1> QED BY <1>2, <1>3, <1>4 DEF PassageInv

\* A passage reads an event that is stored, its row and its alert agree, and what was at
\* rest before it still is.
THEOREM PassagesHold == PlatesSpec => [](IInv /\ PassageInv)
  <1>1. ASSUME IInv, PassageInv, [PlatesNext]_<<vars, plateVars>>
        PROVE  IInv' /\ PassageInv'
    <2>1. [Next]_vars BY <1>1 DEF PlatesNext
    <2>2. IInv' BY <1>1, <2>1, TypeNext, MatchNext DEF IInv
    <2>3. CASE PassageNext /\ UNCHANGED vars BY <1>1, <2>2, <2>3, PassageStep
    <2>4. CASE UNCHANGED plateVars BY <1>1, <2>1, <2>2, <2>4, EntryStepKeepsPassages
    <2> QED BY <1>1, <2>2, <2>3, <2>4 DEF PlatesNext
  <1> QED BY <1>1, InitPassages, PTL DEF PlatesSpec

\* The rows, alerts and locals of the camera's handler have their types.
THEOREM PlatesTypes == PlatesSpec => []PlatesTypeOK
  <1>1. PassageInv => PlatesTypeOK BY DEF PassageInv
  <1> QED BY <1>1, PassagesHold, PTL

\* The unlock a passage is put down to is a stored event of its window, or the gate was
\* left open by an earlier one.
THEOREM OpenersAreStored == PlatesSpec => []OpenerIsStored
  <1>1. PassageInv => OpenerIsStored BY DEF PassageInv, Openers, OpenerIsStored
  <1> QED BY <1>1, PassagesHold, PTL

\* An alert follows its row and, as long as no room is renamed, names its room; a row
\* that no unlock explains is on room 1, and its alert names none; a stolen or unknown
\* vehicle has an alert.
THEOREM AlertsFollowRows == PlatesSpec => []AlertsMatchLog
  <1>1. ASSUME PassageInv, NEW p \in Passages
        PROVE  /\ told[p] # None =>
                    /\ p \in entrySent
                    /\ told[p].gate = "unknown" => told[p].room = None /\ entryLog[p] = RoomOne
                    /\ told[p].gate # "unknown" /\ edited = {} =>
                          told[p].room = roomNumber[entryLog[p]]
               /\ (/\ Handled(p) /\ entryLog[p] # None
                   /\ vehicle[p] = None \/ vehicle[p].status = "STOLEN")
                  => told[p] # None
    <2>1. ASSUME told[p] # None, told[p].gate = "unknown"
          PROVE  told[p].room = None /\ entryLog[p] = RoomOne
      BY <1>1, <2>1, ReqsAssumption DEF PassageInv, Rows, RoomNumberOpened
    <2>2. ASSUME told[p] # None, told[p].gate # "unknown", edited = {}
          PROVE  told[p].room = roomNumber[entryLog[p]]
      <3>1. gate[p] # "unknown" /\ told[p].room = NumberOf[req[opener[p]].user]
        BY <1>1, <2>2 DEF PassageInv, Rows, RoomNumberOpened
      <3>2. entryLog[p] \in RoomsOf(req[opener[p]].user)
        BY <1>1, <2>2, <3>1, ReqsAssumption DEF PassageInv, Rows, RoomOfOpener
      <3> QED BY <3>1, <3>2 DEF RoomsOf
    <2>3. told[p] # None => p \in entrySent BY <1>1 DEF PassageInv, Rows
    <2>4. ASSUME Handled(p), entryLog[p] # None, vehicle[p] = None \/ vehicle[p].status = "STOLEN"
          PROVE  told[p] # None
      <3>1. Alarming(p) BY <2>4, PassageAssumption DEF Alarming, About, Blacklisted
      <3> QED BY <1>1, <2>4, <3>1 DEF PassageInv, Rows
    <2> QED BY <2>1, <2>2, <2>3, <2>4
  <1>2. PassageInv => AlertsMatchLog BY <1>1 DEF AlertsMatchLog
  <1> QED BY <1>2, PassagesHold, PTL

\* An alert that the gate was still open names the room of an unlock no earlier than any
\* that was handled before the passage: the handlers that go on meanwhile cannot make it
\* pass over one of those.
THEOREM LastOpenersBlamed == PlatesSpec => []LastOpenerBlamed
  <1>1. ASSUME IInv, PassageInv PROVE LastOpenerBlamed
    <2> SUFFICES ASSUME NEW p \in Passages, NEW u \in UnlockReqs,
                        told[p] # None, told[p].gate = "leftOpen",
                        u \in settled[p], event[u] # "none", req[u].date < passage[p].ts
                 PROVE  \E v \in UnlockReqs :
                           /\ event[v] # "none"
                           /\ req[v].date \in req[u].date..(passage[p].ts - 1)
                           /\ told[p].room = NumberOf[req[v].user]
        BY DEF LastOpenerBlamed
    <2>1. gate[p] = "leftOpen" /\ told[p].room = NumberOf[req[opener[p]].user]
      BY <1>1 DEF PassageInv, Rows, RoomNumberOpened
    <2>2. /\ opener[p] \in UnlockReqs /\ event[opener[p]] # "none"
          /\ req[opener[p]].date < passage[p].ts
      BY <1>1, <2>1 DEF PassageInv, Openers
    <2>3. req[u].date <= req[opener[p]].date BY <1>1, <2>1 DEF PassageInv, Settled
    <2>4. passage[p].ts \in Int
      <3>1. at[p] # "idle" BY <1>1 DEF PassageInv, Rows
      <3> QED BY <1>1, <3>1 DEF PassageInv, Openers, PassagePayload
    <2>5. req[u].date \in Int /\ req[opener[p]].date \in Int
      BY <1>1, <2>2 DEF IInv, Shape, UnlockShape, UnlockPayload
    <2> HIDE DEF LastOpenerBlamed
    <2> QED BY <2>1, <2>2, <2>3, <2>4, <2>5
  <1> QED BY <1>1, PassagesHold, PTL

\* A passage next to a handled and unclaimed unlock is logged on the room of an unlock of
\* the window.
THEOREM PassagesOfUnlocksLogged == PlatesSpec => []PassageOfUnlockLogged
  <1>1. ASSUME PassageInv PROVE PassageOfUnlockLogged
    <2> SUFFICES ASSUME NEW p \in Passages, NEW u \in UnlockReqs, Handled(p), u \in settled[p],
                        event[u] = "pending", InWindow(u, p), edited = {},
                        \A v \in UnlockReqs : event[v] # "none" => RoomsOf(req[v].user) # {}
                 PROVE  /\ gate[p] = "opened"
                        /\ \E v \in UnlockReqs :
                              /\ event[v] # "none" /\ InWindow(v, p)
                              /\ entryLog[p] \in RoomsOf(req[v].user)
        BY DEF PassageOfUnlockLogged
    <2>1. gate[p] = "opened" BY <1>1 DEF PassageInv, Settled, Handled
    <2>2. opener[p] \in UnlockReqs /\ event[opener[p]] # "none" /\ InWindow(opener[p], p)
      BY <1>1, <2>1 DEF PassageInv, Openers
    <2>3. entryLog[p] \in RoomsOf(req[opener[p]].user)
      BY <1>1, <2>1, <2>2 DEF PassageInv, RoomOfOpener
    <2> QED BY <2>1, <2>2, <2>3
  <1> QED BY <1>1, PassagesHold, PTL
=============================================================================
