----------------------- MODULE OccupancyScheduleProofs -----------------------
(***************************************************************************)
(* Type correctness of the settings and their schedule, and the distance   *)
(* of its ticks, for every interval and for hours of any length.           *)
(***************************************************************************)
EXTENDS OccupancySchedule, TLAPS

\* The number of minutes that remain when n is divided by i is counted on by one
\* from minute to minute, until the interval is full.
LEMMA NextRemainder ==
    ASSUME NEW n \in Nat, NEW i \in Nat \ {0}, (n + 1) % i # 0
    PROVE  (n + 1) % i = (n % i) + 1
  <1> DEFINE q == n \div i
             a == n % i
             k == (n + 1) \div i
             b == (n + 1) % i
  <1>1. q \in Nat /\ a \in 0..(i - 1) /\ n = i * q + a BY SMT
  <1>2. k \in Nat /\ b \in 1..(i - 1) /\ n + 1 = i * k + b BY SMT
  <1> HIDE DEF q, a, k, b
  <1>3. i * q + a + 1 = i * k + b BY <1>1, <1>2, SMT
  <1>4. ~(q < k) BY <1>1, <1>2, <1>3, SMT
  <1>5. ~(k < q) BY <1>1, <1>2, <1>3, SMT
  <1>6. q = k BY <1>1, <1>2, <1>4, <1>5, SMT
  <1> QED BY <1>1, <1>2, <1>3, <1>6, SMT DEF a, b

LEMMA RemainderBounds ==
    ASSUME NEW n \in Nat, NEW i \in Nat \ {0}
    PROVE  n % i \in 0..(i - 1)
  BY SMT

\* The schedule of a server that is up: its interval is a number, and the last minute
\* the interval divides is no more recent than the last tick or the start.
Scheduled ==
    server = "up" =>
        /\ started \in Minutes \cup {None}
        /\ sinceTick <= minute % Interval

IInv == TypeOK /\ Scheduled

LEMMA IntervalPositive ==
    ASSUME started \in Minutes \cup {None}
    PROVE  Interval \in Nat \ {0}
  BY ScheduleAssumption DEF Interval, Minutes

LEMMA InitIInv == Init => IInv
  <1> SUFFICES ASSUME Init PROVE IInv OBVIOUS
  <1>1. setting \in [Keys -> Values \cup {None}] BY DEF Init, Minutes
  <1>2. 0 \in 0..(MinutesPerHour - 1) BY ScheduleAssumption
  <1> QED BY <1>1, <1>2, ScheduleAssumption DEF Init, IInv, TypeOK, Scheduled

\* Every step of a request, of the server, of its clock and of a check keeps them.
LEMMA IInvNext ==
    ASSUME IInv, [Next]_vars
    PROVE  IInv'
  <1> USE DEF requests, clock, boot, check, Goto, IInv
  <1>1. ASSUME NEW p \in Puts, ReceivePut(p) PROVE IInv'
    <2>1. TypeOK'
      BY <1>1, SettingsAssumption, ScheduleAssumption DEF TypeOK, ReceivePut, Settled, Setting
    <2>2. Scheduled'
      BY <1>1 DEF Scheduled, Interval, ReceivePut, Settled, Setting
    <2> QED BY <2>1, <2>2
  <1>2. ASSUME NEW p \in Puts, NEW s \in open[p], SettleUpdate(p, s) PROVE IInv'
    <2>1. TypeOK'
      BY <1>2, SettingsAssumption, ScheduleAssumption DEF TypeOK, SettleUpdate, Setting
    <2>2. Scheduled'
      BY <1>2 DEF Scheduled, Interval, SettleUpdate, Setting
    <2> QED BY <2>1, <2>2
  <1>3. ASSUME NEW p \in Puts, NEW s \in open[p], RejectUpdate(p, s) PROVE IInv'
    <2>1. TypeOK'
      BY <1>3, SettingsAssumption, ScheduleAssumption DEF TypeOK, RejectUpdate, Setting
    <2>2. Scheduled'
      BY <1>3 DEF Scheduled, Interval, RejectUpdate, Setting
    <2> QED BY <2>1, <2>2
  <1>4. ASSUME NEW p \in Puts, ReadBack(p) PROVE IInv'
    <2>1. {[key |-> k, value |-> setting[k]] :
             k \in {s.key : s \in asked[p]} \cap {l \in Keys : setting[l] # None}}
            \in SUBSET Setting
      BY DEF TypeOK, Setting
    <2>2. reply' \in [Puts -> SUBSET Setting] BY <1>4, <2>1 DEF ReadBack, TypeOK
    <2>3. TypeOK' BY <1>4, <2>2 DEF ReadBack, TypeOK
    <2>4. Scheduled' BY <1>4 DEF ReadBack, Scheduled, Interval
    <2> QED BY <2>3, <2>4
  <1>5. CASE Start
    <2>1. TypeOK'
      BY <1>5, SettingsAssumption, ScheduleAssumption DEF TypeOK, Start
    <2>2. Scheduled'
      BY <1>5 DEF Scheduled, Interval, Start
    <2> QED BY <2>1, <2>2
  <1>6. CASE AddJob
    <2>1. TypeOK'
      BY <1>6, SettingsAssumption, ScheduleAssumption DEF TypeOK, AddJob, Settled
    <2>2. ASSUME server' = "up" PROVE sinceTick' <= minute' % Interval'
      <3>1. started' \in Minutes \cup {None} BY <1>6, <2>2 DEF AddJob
      <3>2. Interval' \in Nat \ {0} BY <3>1, ScheduleAssumption DEF Interval, Minutes
      <3>3. minute' \in Nat BY <2>1, ScheduleAssumption DEF TypeOK
      <3>4. minute' % Interval' \in 0..(Interval' - 1) BY <3>2, <3>3, RemainderBounds
      <3>5. sinceTick' = 0 BY <1>6 DEF AddJob
      <3> QED BY <3>2, <3>4, <3>5
    <2>3. server' = "up" => started' \in Minutes \cup {None} BY <1>6 DEF AddJob
    <2> QED BY <2>1, <2>2, <2>3 DEF Scheduled
  <1>7. CASE Stop
    <2>1. TypeOK'
      BY <1>7, SettingsAssumption, ScheduleAssumption DEF TypeOK, Stop
    <2>2. Scheduled'
      BY <1>7 DEF Scheduled, Interval, Stop
    <2> QED BY <2>1, <2>2
  <1>8. CASE Minute
    <2>1. minute' = (minute + 1) % MinutesPerHour /\ minute' \in 0..(MinutesPerHour - 1)
      BY <1>8, RemainderBounds, ScheduleAssumption DEF Minute, TypeOK
    <2>2. sinceTick' \in Nat /\ checks' \in 0..MaxChecks
      BY <1>8, ScheduleAssumption DEF Minute, TypeOK
    <2>3. TypeOK' BY <1>8, <2>1, <2>2 DEF Minute, TypeOK
    <2>4. minute \in Nat /\ minute' \in Nat /\ MinutesPerHour \in Nat \ {0}
      BY <2>1, ScheduleAssumption DEF TypeOK
    <2>5. ASSUME server = "up" PROVE sinceTick' <= minute' % Interval
      <3>1. Interval \in Nat \ {0} BY <2>5, IntervalPositive DEF Scheduled
      <3>2. CASE TickAt(minute')
        <4>1. sinceTick' = 0 BY <1>8, <2>5, <3>2 DEF Minute
        <4>2. minute' % Interval \in 0..(Interval - 1) BY <2>4, <3>1, RemainderBounds
        <4> QED BY <3>1, <4>1, <4>2
      <3>3. CASE ~TickAt(minute')
        <4>1. sinceTick' = sinceTick + 1 BY <1>8, <2>5, <3>3 DEF Minute
        <4>2. minute' = minute + 1
          <5>1. minute \in 0..(MinutesPerHour - 1) BY DEF TypeOK
          <5>2. 0 % Interval = 0 BY <3>1, SMT
          <5>3. minute' # 0 BY <3>3, <5>2 DEF TickAt
          <5>4. (minute + 1) % MinutesPerHour # 0 BY <2>1, <5>3
          <5>5. (minute + 1) % MinutesPerHour = (minute % MinutesPerHour) + 1
            BY <2>4, <5>4, NextRemainder
          <5>6. minute % MinutesPerHour = minute BY <5>1, ScheduleAssumption, SMT
          <5> QED BY <2>1, <5>5, <5>6
        <4>3. minute' % Interval = (minute % Interval) + 1
          BY <2>4, <3>1, <3>3, <4>2, NextRemainder DEF TickAt
        <4>4. sinceTick <= minute % Interval BY <2>5 DEF Scheduled
        <4>5. minute % Interval \in 0..(Interval - 1)
          BY <3>1, RemainderBounds, ScheduleAssumption DEF TypeOK
        <4> QED BY <3>1, <4>1, <4>3, <4>4, <4>5 DEF TypeOK
      <3> QED BY <3>2, <3>3
    <2>6. UNCHANGED <<server, started>> BY <1>8 DEF Minute
    <2> QED BY <2>3, <2>5, <2>6 DEF Scheduled, Interval
  <1>9. CASE CheckRooms
    <2>1. roomsExceedingThresold \subseteq Rooms BY DEF roomsExceedingThresold
    <2>2. TypeOK' BY <1>9, <2>1, ScheduleAssumption DEF TypeOK, CheckRooms
    <2>3. Scheduled' BY <1>9 DEF Scheduled, Interval, CheckRooms
    <2> QED BY <2>2, <2>3
  <1>10. CASE FailCheck
    <2>1. TypeOK'
      BY <1>10, SettingsAssumption, ScheduleAssumption DEF TypeOK, FailCheck
    <2>2. Scheduled'
      BY <1>10 DEF Scheduled, Interval, FailCheck
    <2> QED BY <2>1, <2>2
  <1>11. ASSUME NEW r \in Rooms, SetPeople(r) PROVE IInv'
    <2>1. TypeOK'
      BY <1>11, SettingsAssumption, ScheduleAssumption DEF TypeOK, SetPeople
    <2>2. Scheduled'
      BY <1>11 DEF Scheduled, Interval, SetPeople
    <2> QED BY <2>1, <2>2
  <1>12. CASE UNCHANGED vars BY <1>12 DEF vars, TypeOK, Scheduled, Interval
  <1> QED BY <1>1, <1>2, <1>3, <1>4, <1>5, <1>6, <1>7, <1>8, <1>9, <1>10, <1>11, <1>12 DEF Next

\* Settings, requests, server, clock and checks keep their types.
THEOREM ScheduleTypes == Spec => []TypeOK
  <1>1. IInv => TypeOK BY DEF IInv
  <1> QED BY <1>1, InitIInv, IInvNext, PTL DEF Spec

\* While the server is up no two ticks are further apart than the interval, whatever
\* the interval: one that does not divide the hour makes the last gap shorter.
THEOREM TicksComeInTime == Spec => []TicksWithinInterval
  <1>1. ASSUME IInv, server = "up" PROVE sinceTick < Interval
    <2>1. Interval \in Nat \ {0} BY <1>1, IntervalPositive DEF IInv, Scheduled
    <2>2. minute % Interval \in 0..(Interval - 1)
      BY <1>1, <2>1, RemainderBounds, ScheduleAssumption DEF IInv, TypeOK
    <2> QED BY <1>1, <2>1, <2>2 DEF IInv, Scheduled, TypeOK
  <1>2. IInv => TicksWithinInterval BY <1>1 DEF TicksWithinInterval
  <1> QED BY <1>2, InitIInv, IInvNext, PTL DEF Spec
-----------------------------------------------------------------------------
(* PUT /settings: what is under way, what has ended, what was written.     *)

\* An update under way is one that was asked for, and it belongs to a request that
\* still waits for it or has been refused.
UpdatesAsked ==
    \A p \in Puts :
        /\ open[p] \subseteq asked[p]
        /\ pc[p] \notin {"updating", "refused"} => open[p] = {}

\* A PUT that had come to an end has come to an end for good.
EndedForGood ==
    /\ \A p \in Puts : settled[p] \subseteq Settled
    /\ settledAt \subseteq Settled

\* Nothing a PUT asked for is lost while it is the only one that writes: each of its
\* keys has an update under way, or a value it asked for.
AloneNow(p) == Alone(p, {q \in Puts : pc[q] # "idle"})

Written ==
    \A p \in Puts :
        pc[p] \in {"updating", "reading", "ok"} /\ AloneNow(p) =>
            \A k \in KeysOf(asked[p]) :
                k \in KeysOf(open[p]) \/ [key |-> k, value |-> setting[k]] \in asked[p]

\* The answer was read from those values.
Answered ==
    \A p \in Puts :
        pc[p] = "ok" /\ AloneNow(p) =>
            reply[p] \subseteq asked[p] /\ KeysOf(reply[p]) = KeysOf(asked[p])

PutInv == UpdatesAsked /\ EndedForGood /\ Written /\ Answered /\ StartUsesAcceptedInterval

\* What a step keeps of the PUTs that have arrived, and of those that have ended.
Lasting ==
    /\ \A p \in Puts : pc[p] # "idle" =>
          pc'[p] # "idle" /\ asked'[p] = asked[p] /\ settled'[p] = settled[p]
    /\ \A p \in Settled : p \in Settled' /\ pc'[p] = pc[p]

\* A PUT that has ended stays as it is, and what has arrived stays asked for.
LEMMA StepsLast ==
    ASSUME IInv, UpdatesAsked, [Next]_vars
    PROVE  Lasting
  <1> USE DEF requests, clock, boot, check, Goto, Settled, Lasting
  <1>1. TypeOK BY DEF IInv
  <1>2. ASSUME NEW p \in Puts, ReceivePut(p) PROVE Lasting BY <1>1, <1>2 DEF ReceivePut, TypeOK
  <1>3. ASSUME NEW p \in Puts, ReadBack(p) PROVE Lasting BY <1>1, <1>3 DEF ReadBack, TypeOK
  <1>4. ASSUME NEW p \in Puts, NEW s \in open[p], SettleUpdate(p, s) PROVE Lasting
    BY <1>1, <1>4 DEF SettleUpdate, TypeOK
  <1>5. ASSUME NEW p \in Puts, NEW s \in open[p], RejectUpdate(p, s) PROVE Lasting
    <2>1. pc[p] # "idle" BY <1>1, <1>5 DEF UpdatesAsked
    <2> QED BY <1>1, <1>5, <2>1 DEF RejectUpdate, TypeOK
  <1>6. CASE Start BY <1>6 DEF Start
  <1>7. CASE AddJob BY <1>7 DEF AddJob
  <1>8. CASE Stop BY <1>1, <1>8 DEF Stop, TypeOK
  <1>9. CASE Minute BY <1>9 DEF Minute
  <1>10. CASE CheckRooms BY <1>10 DEF CheckRooms
  <1>11. CASE FailCheck BY <1>11 DEF FailCheck
  <1>12. ASSUME NEW r \in Rooms, SetPeople(r) PROVE Lasting BY <1>12 DEF SetPeople
  <1>13. CASE UNCHANGED vars BY <1>13 DEF vars
  <1> HIDE DEF Lasting
  <1> QED BY <1>2, <1>3, <1>4, <1>5, <1>6, <1>7, <1>8, <1>9, <1>10, <1>11, <1>12, <1>13 DEF Next

\* Who is alone after a step was alone before it.
LEMMA AloneBefore ==
    ASSUME Lasting, NEW p \in Puts, pc[p] # "idle", AloneNow(p)'
    PROVE  AloneNow(p)
  BY DEF Lasting, AloneNow, Alone

\* No other PUT has an update under way while p is alone.
LEMMA OthersAreDone ==
    ASSUME UpdatesAsked, EndedForGood, NEW p \in Puts, AloneNow(p),
           NEW q \in Puts \ {p}
    PROVE  open[q] = {}
  BY DEF UpdatesAsked, EndedForGood, AloneNow, Alone, Settled

LEMMA UpdatesAskedNext ==
    ASSUME IInv, UpdatesAsked, [Next]_vars
    PROVE  UpdatesAsked'
  <1> USE DEF requests, clock, boot, check, Goto, UpdatesAsked
  <1>1. TypeOK BY DEF IInv
  <1>2. ASSUME NEW p \in Puts, ReceivePut(p) PROVE UpdatesAsked'
    BY <1>1, <1>2 DEF ReceivePut, TypeOK
  <1>3. ASSUME NEW p \in Puts, ReadBack(p) PROVE UpdatesAsked'
    BY <1>1, <1>3 DEF ReadBack, TypeOK
  <1>4. ASSUME NEW p \in Puts, NEW s \in open[p], SettleUpdate(p, s) PROVE UpdatesAsked'
    BY <1>1, <1>4 DEF SettleUpdate, TypeOK
  <1>5. ASSUME NEW p \in Puts, NEW s \in open[p], RejectUpdate(p, s) PROVE UpdatesAsked'
    BY <1>1, <1>5 DEF RejectUpdate, TypeOK
  <1>6. CASE Start BY <1>6 DEF Start
  <1>7. CASE AddJob BY <1>7 DEF AddJob
  <1>8. CASE Stop BY <1>1, <1>8 DEF Stop, TypeOK
  <1>9. CASE Minute BY <1>9 DEF Minute
  <1>10. CASE CheckRooms BY <1>10 DEF CheckRooms
  <1>11. CASE FailCheck BY <1>11 DEF FailCheck
  <1>12. ASSUME NEW r \in Rooms, SetPeople(r) PROVE UpdatesAsked' BY <1>12 DEF SetPeople
  <1>13. CASE UNCHANGED vars BY <1>13 DEF vars
  <1> HIDE DEF UpdatesAsked
  <1> QED BY <1>2, <1>3, <1>4, <1>5, <1>6, <1>7, <1>8, <1>9, <1>10, <1>11, <1>12, <1>13 DEF Next

\* What a request sees of a step: it arrives, reads its settings back, an update of it
\* settles or rejects, the process ends; or it is left alone.
LEMMA PutSteps ==
    ASSUME [Next]_vars
    PROVE  \/ \E p \in Puts : ReceivePut(p) \/ ReadBack(p)
           \/ \E p \in Puts : \E s \in open[p] : SettleUpdate(p, s) \/ RejectUpdate(p, s)
           \/ Stop
           \/ UNCHANGED <<setting, requests>>
  BY DEF Next, vars, requests, Start, AddJob, Minute, CheckRooms, FailCheck, SetPeople

LEMMA EndedNext ==
    ASSUME IInv, UpdatesAsked, EndedForGood, [Next]_vars
    PROVE  EndedForGood'
  <1>1. Lasting BY StepsLast
  <1>2. Settled \subseteq Settled' BY <1>1 DEF Lasting
  <1>3. ASSUME NEW p \in Puts PROVE settled'[p] \subseteq Settled'
    <2>1. settled'[p] = settled[p] \/ settled'[p] = Settled
      <3>1. CASE \E q \in Puts : ReceivePut(q) BY <3>1 DEF ReceivePut, IInv, TypeOK
      <3>2. CASE \E q \in Puts : ReadBack(q) BY <3>2 DEF ReadBack
      <3>3. CASE \E q \in Puts : \E s \in open[q] : SettleUpdate(q, s) \/ RejectUpdate(q, s)
        BY <3>3 DEF SettleUpdate, RejectUpdate
      <3>4. CASE Stop BY <3>4 DEF Stop
      <3>5. CASE UNCHANGED <<setting, requests>> BY <3>5 DEF requests
      <3> QED BY <3>1, <3>2, <3>3, <3>4, <3>5, PutSteps
    <2> QED BY <1>2, <2>1 DEF EndedForGood
  <1>4. settledAt' = settledAt \/ settledAt' = Settled
    BY DEF Next, vars, boot, ReceivePut, ReadBack, SettleUpdate, RejectUpdate, Start, AddJob,
           Stop, Minute, CheckRooms, FailCheck, SetPeople
  <1> QED BY <1>2, <1>3, <1>4 DEF EndedForGood

LEMMA WrittenNext ==
    ASSUME IInv, UpdatesAsked, EndedForGood, Written, [Next]_vars
    PROVE  Written'
  <1> SUFFICES ASSUME NEW p \in Puts, pc'[p] \in {"updating", "reading", "ok"}, AloneNow(p)',
                      NEW k \in KeysOf(asked'[p]), k \notin KeysOf(open'[p])
               PROVE  [key |-> k, value |-> setting'[k]] \in asked'[p]
      BY DEF Written
  <1>1. TypeOK /\ Lasting BY StepsLast DEF IInv
  <1>2. CASE ReceivePut(p) BY <1>1, <1>2 DEF ReceivePut, TypeOK
  <1>3. CASE ~ReceivePut(p)
    <2>1. pc[p] \in {"updating", "reading", "ok"}
      <3>1. CASE \E q \in Puts : ReceivePut(q) BY <1>1, <1>3, <3>1 DEF ReceivePut, TypeOK, Goto
      <3>2. CASE \E q \in Puts : ReadBack(q) BY <1>1, <3>2 DEF ReadBack, TypeOK, Goto
      <3>3. CASE \E q \in Puts : \E s \in open[q] : SettleUpdate(q, s) \/ RejectUpdate(q, s)
        BY <1>1, <3>3 DEF SettleUpdate, RejectUpdate, TypeOK, Goto
      <3>4. CASE Stop BY <1>1, <3>4 DEF Stop, TypeOK
      <3>5. CASE UNCHANGED <<setting, requests>> BY <3>5 DEF requests
      <3> QED BY <3>1, <3>2, <3>3, <3>4, <3>5, PutSteps
    <2>2. AloneNow(p) BY <1>1, <2>1, AloneBefore
    <2>3. asked'[p] = asked[p] BY <1>1, <2>1 DEF Lasting
    <2>4. k \in KeysOf(open[p]) \/ [key |-> k, value |-> setting[k]] \in asked[p]
      BY <2>1, <2>2, <2>3 DEF Written
    <2>5. CASE \E q \in Puts : ReceivePut(q) \/ ReadBack(q)
      <3>1. setting' = setting /\ open'[p] = open[p]
        BY <1>1, <1>3, <2>5 DEF ReceivePut, ReadBack, TypeOK
      <3> QED BY <2>3, <2>4, <3>1
    <2>6. ASSUME NEW q \in Puts, NEW s \in open[q], SettleUpdate(q, s)
          PROVE  [key |-> k, value |-> setting'[k]] \in asked'[p]
      <3>1. q = p BY <2>2, <2>6, OthersAreDone
      <3>2. s \in asked[p] /\ s \in Setting BY <1>1, <3>1 DEF UpdatesAsked, TypeOK
      <3>3. open'[p] = open[p] \ {s} BY <1>1, <2>6, <3>1 DEF SettleUpdate, TypeOK
      <3>4. setting' = [setting EXCEPT ![s.key] = s.value] BY <2>6 DEF SettleUpdate
      <3>5. CASE k = s.key
        <4>1. setting'[k] = s.value BY <1>1, <3>2, <3>4, <3>5 DEF TypeOK, Setting
        <4>2. s = [key |-> k, value |-> s.value] BY <3>2, <3>5 DEF Setting
        <4> QED BY <2>3, <3>2, <4>1, <4>2
      <3>6. CASE k # s.key
        <4>1. k \notin KeysOf(open[p]) BY <3>3, <3>6 DEF KeysOf
        <4>2. setting'[k] = setting[k]
          <5>1. k \in Keys BY <1>1, <2>3 DEF KeysOf, TypeOK, Setting
          <5> QED BY <1>1, <3>4, <3>6, <5>1 DEF TypeOK
        <4> QED BY <2>3, <2>4, <4>1, <4>2
      <3> QED BY <3>5, <3>6
    <2>7. ASSUME NEW q \in Puts, NEW s \in open[q], RejectUpdate(q, s)
          PROVE  [key |-> k, value |-> setting'[k]] \in asked'[p]
      <3>1. q = p BY <2>2, <2>7, OthersAreDone
      <3> QED BY <1>1, <2>7, <3>1 DEF RejectUpdate, TypeOK, Goto
    <2>8. CASE Stop
      <3>1. pc[p] = "ok" BY <1>1, <2>8 DEF Stop, TypeOK
      <3>2. open[p] = {} BY <3>1 DEF UpdatesAsked
      <3> QED BY <2>3, <2>4, <2>8, <3>2 DEF Stop, KeysOf
    <2>9. CASE UNCHANGED <<setting, requests>> BY <2>4, <2>9 DEF requests
    <2> QED BY <2>5, <2>6, <2>7, <2>8, <2>9, PutSteps
  <1> QED BY <1>2, <1>3

\* What was asked for and is in the table is found and is a value.
LEMMA ReadsWhatWasAsked ==
    ASSUME TypeOK, UpdatesAsked, Written, NEW p \in Puts,
           pc[p] \in {"reading", "ok"}, AloneNow(p)
    PROVE  \A k \in KeysOf(asked[p]) :
              [key |-> k, value |-> setting[k]] \in asked[p] /\ setting[k] # None
  <1> SUFFICES ASSUME NEW k \in KeysOf(asked[p])
               PROVE  [key |-> k, value |-> setting[k]] \in asked[p] /\ setting[k] # None
      OBVIOUS
  <1>1. open[p] = {} BY DEF UpdatesAsked
  <1>2. [key |-> k, value |-> setting[k]] \in asked[p] BY <1>1 DEF Written, KeysOf
  <1>3. [key |-> k, value |-> setting[k]] \in Setting BY <1>2 DEF TypeOK
  <1>4. setting[k] \in Values BY <1>3 DEF Setting
  <1> QED BY <1>2, <1>4, SettingsAssumption

LEMMA AnsweredNext ==
    ASSUME IInv, UpdatesAsked, EndedForGood, Written, Answered, [Next]_vars
    PROVE  Answered'
  <1> SUFFICES ASSUME NEW p \in Puts, pc'[p] = "ok", AloneNow(p)'
               PROVE  reply'[p] \subseteq asked'[p] /\ KeysOf(reply'[p]) = KeysOf(asked'[p])
      BY DEF Answered
  <1>1. TypeOK /\ Lasting BY StepsLast DEF IInv
  <1>2. CASE ReadBack(p)
    <2>1. pc[p] = "reading" BY <1>2 DEF ReadBack
    <2>2. AloneNow(p) BY <1>1, <2>1, AloneBefore
    <2>3. asked'[p] = asked[p] BY <1>1, <2>1 DEF Lasting
    <2>4. \A k \in KeysOf(asked[p]) :
             [key |-> k, value |-> setting[k]] \in asked[p] /\ setting[k] # None
      BY <1>1, <2>1, <2>2, ReadsWhatWasAsked
    <2>5. KeysOf(asked[p]) \subseteq Keys BY <1>1 DEF TypeOK, Setting, KeysOf
    <2>6. reply'[p] = {[key |-> k, value |-> setting[k]] : k \in KeysOf(asked[p])}
      <3>1. reply'[p] = {[key |-> k, value |-> setting[k]] :
                           k \in KeysOf(asked[p]) \cap {l \in Keys : setting[l] # None}}
        BY <1>1, <1>2 DEF ReadBack, TypeOK, Goto, KeysOf
      <3>2. KeysOf(asked[p]) \cap {l \in Keys : setting[l] # None} = KeysOf(asked[p])
        BY <2>4, <2>5
      <3> QED BY <3>1, <3>2
    <2>7. KeysOf(reply'[p]) = KeysOf(asked[p])
      <3>1. \A r \in reply'[p] : r.key \in KeysOf(asked[p]) BY <2>6
      <3>2. \A k \in KeysOf(asked[p]) :
               [key |-> k, value |-> setting[k]] \in reply'[p] BY <2>6
      <3>3. \A k \in KeysOf(asked[p]) : \E r \in reply'[p] : r.key = k BY <3>2
      <3> QED BY <3>1, <3>3 DEF KeysOf
    <2> QED BY <2>3, <2>4, <2>6, <2>7
  <1>3. CASE ~ReadBack(p)
    <2>1. pc[p] = "ok" /\ reply'[p] = reply[p]
      <3>1. CASE \E q \in Puts : ReceivePut(q) BY <1>1, <3>1 DEF ReceivePut, TypeOK, Goto
      <3>2. CASE \E q \in Puts : ReadBack(q) BY <1>1, <1>3, <3>2 DEF ReadBack, TypeOK, Goto
      <3>3. CASE \E q \in Puts : \E s \in open[q] : SettleUpdate(q, s) \/ RejectUpdate(q, s)
        BY <1>1, <3>3 DEF SettleUpdate, RejectUpdate, TypeOK, Goto
      <3>4. CASE Stop BY <1>1, <3>4 DEF Stop, TypeOK
      <3>5. CASE UNCHANGED <<setting, requests>> BY <3>5 DEF requests
      <3> QED BY <3>1, <3>2, <3>3, <3>4, <3>5, PutSteps
    <2>2. AloneNow(p) BY <1>1, <2>1, AloneBefore
    <2> QED BY <1>1, <2>1, <2>2 DEF Answered, Lasting
  <1> QED BY <1>2, <1>3

\* A start reads the interval of an accepted PUT that was alone until then.
LEMMA StartNext ==
    ASSUME IInv, UpdatesAsked, EndedForGood, Written, StartUsesAcceptedInterval, [Next]_vars
    PROVE  StartUsesAcceptedInterval'
  <1> SUFFICES ASSUME NEW p \in settledAt', pc'[p] = "ok",
                      IntervalKey \in KeysOf(asked'[p]), Alone(p, arrivedAt)'
               PROVE  [key |-> IntervalKey, value |-> started'] \in asked'[p]
      BY DEF StartUsesAcceptedInterval
  <1>1. TypeOK /\ Lasting BY StepsLast DEF IInv
  <1>2. CASE AddJob
    <2>1. p \in Settled /\ p \in Puts BY <1>2 DEF AddJob, Settled
    <2>2. AloneNow(p) BY <1>2 DEF AddJob, AloneNow, Alone, requests
    <2>3. UNCHANGED <<pc, asked>> /\ started' = setting[IntervalKey]
      BY <1>2 DEF AddJob, requests
    <2> QED BY <1>1, <2>1, <2>2, <2>3, ReadsWhatWasAsked
  <1>3. CASE ~AddJob
    <2>1. UNCHANGED <<settledAt, arrivedAt, started>>
      BY <1>3 DEF Next, vars, boot, ReceivePut, ReadBack, SettleUpdate, RejectUpdate, Start,
                  Stop, Minute, CheckRooms, FailCheck, SetPeople
    <2>2. p \in Settled BY <2>1 DEF EndedForGood
    <2>3. p \in Puts /\ pc[p] # "idle" /\ pc'[p] = pc[p] BY <1>1, <2>2 DEF Settled, Lasting
    <2>4. asked'[p] = asked[p] /\ settled'[p] = settled[p] BY <1>1, <2>3 DEF Lasting
    <2>5. Alone(p, arrivedAt) BY <2>1, <2>4 DEF Alone
    <2> QED BY <2>1, <2>3, <2>4, <2>5 DEF StartUsesAcceptedInterval
  <1> QED BY <1>2, <1>3

LEMMA InitPutInv == Init => PutInv
  BY DEF Init, PutInv, UpdatesAsked, EndedForGood, Written, Answered,
         StartUsesAcceptedInterval

THEOREM PutsHold == Spec => [](IInv /\ PutInv)
  <1>1. ASSUME IInv, PutInv, [Next]_vars PROVE IInv' /\ PutInv'
    BY <1>1, IInvNext, UpdatesAskedNext, EndedNext, WrittenNext, AnsweredNext, StartNext
       DEF PutInv
  <1> QED BY <1>1, InitIInv, InitPutInv, PTL DEF Spec

\* A PUT that was accepted, and that no other one overlapped with, has written all its
\* settings and answers them.
THEOREM AcceptedPutsHold == Spec => []AcceptedPutHolds
  <1>1. ASSUME IInv, PutInv PROVE AcceptedPutHolds
    <2> SUFFICES ASSUME NEW p \in Puts, pc[p] = "ok", AloneNow(p)
                 PROVE  /\ \A k \in KeysOf(asked[p]) :
                              [key |-> k, value |-> setting[k]] \in asked[p]
                        /\ reply[p] \subseteq asked[p] /\ KeysOf(reply[p]) = KeysOf(asked[p])
        BY DEF AcceptedPutHolds, AloneNow
    <2> QED BY <1>1, ReadsWhatWasAsked DEF IInv, PutInv, Answered
  <1> QED BY <1>1, PutsHold, PTL

\* A start that follows an accepted PUT of the interval, with no other PUT beside it or
\* in between, schedules the check by that interval.
THEOREM StartsUseAcceptedInterval == Spec => []StartUsesAcceptedInterval
  <1>1. PutInv => StartUsesAcceptedInterval BY DEF PutInv
  <1> QED BY <1>1, PutsHold, PTL
=============================================================================
