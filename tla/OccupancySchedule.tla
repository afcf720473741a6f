-------------------------- MODULE OccupancySchedule --------------------------
(***************************************************************************)
(* The settings and the occupancy check they schedule: SettingService,     *)
(* TaskService and handleRoomOccupancyVerificationSuggested.               *)
(*                                                                         *)
(* PUT /settings updates the rows of its keys in parallel and answers when *)
(* all of them have settled or one has rejected.  The interval of the      *)
(* check is read from the table once, while the server starts, before it   *)
(* listens to HTTP.  Every tick of the cron job starts a check of the      *)
(* rooms, whose counts the entry handlers and the admins change meanwhile. *)
(* The server may be stopped, or crash, and start again at any moment.     *)
(***************************************************************************)
EXTENDS Integers, FiniteSets

CONSTANTS
    Puts,            \* PUT /settings requests
    Requests,        \* the lists of settings a request may ask for, as sets
    Keys,            \* settings.key
    IntervalKey,     \* NOTIFI_OCCUPANCY_RESET
    Values,          \* settings.value: minutes, or texts that are no number
    Default,         \* NOTIFI_OCCUPANCY_RESET_DEFAULT, 10 minutes
    MinutesPerHour,  \* 60
    Rooms,           \* ids of rooms
    Counts,          \* values of rooms.currentPeople
    DefaultMin,      \* -10 and 20, the thresholds NotificationListener falls
    DefaultMax,      \* back on when it finds none in the configuration
    BelowMin,        \* BELOW_MIN_OCCUPANCY and ABOVE_MAX_OCCUPANCY, the
    AboveMax,        \* thresholds of the environment
    MaxChecks,       \* bound: checks in flight before time goes on
    MaxFailures,     \* bound: checks whose query rejects
    MaxStarts,       \* bound: starts of the server
    None             \* no row, no value

\* The values `*/value` is a cron field for: positive numbers.
Minutes == {v \in Values : v \in Nat \ {0}}

ASSUME SettingsAssumption ==
    /\ IntervalKey \in Keys
    /\ Requests \subseteq (SUBSET [key : Keys, value : Values]) \ {{}}
    /\ None \notin Values

ASSUME ScheduleAssumption ==
    /\ Default \in Nat \ {0} /\ MinutesPerHour \in Nat \ {0}
    /\ Counts \subseteq Int /\ {DefaultMin, DefaultMax, BelowMin, AboveMax} \subseteq Int
    /\ {MaxChecks, MaxFailures, MaxStarts} \subseteq Nat

VARIABLES
    setting,    \* settings.value by key, None without a row
    pc,         \* where a PUT is
    asked,      \* the settings of its body
    open,       \* its updates that have not settled
    reply,      \* the settings it was answered
    server,     \* "down", "starting" or "up"
    started,    \* the value of the interval setting the last start has read
    minute,     \* the wall clock, within the hour
    sinceTick,  \* minutes since the last tick, or since the start
    checks,     \* occupancy checks in flight
    people,     \* rooms.currentPeople
    told,       \* history: rooms suggested to the admins since their last change
    failures,   \* bound: checks that failed so far
    starts,     \* bound: starts so far
    settled,    \* history: the PUTs that had come to an end when a PUT arrived
    settledAt,  \* history: those that had when the server last started
    arrivedAt   \* history: the PUTs that had arrived when the server last started

requests == <<pc, asked, open, reply, settled>>
clock    == <<minute, sinceTick>>
boot     == <<server, started, starts, settledAt, arrivedAt>>
check    == <<checks, people, told, failures>>
vars     == <<setting, requests, clock, boot, check>>

Setting == [key : Keys, value : Values]

TypeOK ==
    /\ setting \in [Keys -> Values \cup {None}]
    /\ pc \in [Puts -> {"idle", "updating", "reading", "ok", "refused", "dead"}]
    /\ asked \in [Puts -> SUBSET Setting]
    /\ open \in [Puts -> SUBSET Setting]
    /\ reply \in [Puts -> SUBSET Setting]
    /\ server \in {"down", "starting", "up"}
    /\ started \in Values \cup {None}
    /\ minute \in 0..(MinutesPerHour - 1) /\ sinceTick \in Nat
    /\ checks \in 0..MaxChecks
    /\ people \in [Rooms -> Counts]
    /\ told \subseteq Rooms
    /\ failures \in 0..MaxFailures /\ starts \in 0..MaxStarts
    /\ settled \in [Puts -> SUBSET Puts]
    /\ settledAt \subseteq arrivedAt /\ arrivedAt \subseteq Puts

\* A row of the interval setting need not exist; its value is a number at first.
Init ==
    /\ setting \in {f \in [Keys -> Minutes \cup {None}] :
                       \A k \in Keys \ {IntervalKey} : f[k] = None}
    /\ pc = [p \in Puts |-> "idle"]
    /\ asked = [p \in Puts |-> {}]
    /\ open = [p \in Puts |-> {}]
    /\ reply = [p \in Puts |-> {}]
    /\ server = "down"
    /\ started = None
    /\ minute = 0
    /\ sinceTick = 0
    /\ checks = 0
    /\ people \in [Rooms -> Counts]
    /\ told = {}
    /\ failures = 0 /\ starts = 0
    /\ settled = [p \in Puts |-> {}]
    /\ settledAt = {} /\ arrivedAt = {}

-----------------------------------------------------------------------------
(* PUT /settings.                                                          *)

Goto(p, step) == pc' = [pc EXCEPT ![p] = step]

\* Answered, or cut off, and none of its updates is still under way.
Settled == {p \in Puts : pc[p] \in {"ok", "refused", "dead"} /\ open[p] = {}}

\* updateSettings starts every update of the body at once.
ReceivePut(p) ==
    /\ server = "up"
    /\ pc[p] = "idle"
    /\ \E body \in Requests :
          /\ asked' = [asked EXCEPT ![p] = body]
          /\ open' = [open EXCEPT ![p] = body]
    /\ settled' = [settled EXCEPT ![p] = Settled]
    /\ Goto(p, "updating")
    /\ UNCHANGED <<setting, reply, clock, boot, check>>

\* Mutation: the answer waits for one update, not for all.
SettleAny(p, s) ==
    /\ s \in open[p]
    /\ setting[s.key] # None
    /\ setting' = [setting EXCEPT ![s.key] = s.value]
    /\ open' = [open EXCEPT ![p] = @ \ {s}]
    /\ Goto(p, IF pc[p] = "updating" THEN "reading" ELSE pc[p])
    /\ UNCHANGED <<asked, reply, settled, clock, boot, check>>

\* setting.update of one row; the last one to settle lets the request go on.
SettleUpdate(p, s) ==
    /\ s \in open[p]
    /\ setting[s.key] # None
    /\ setting' = [setting EXCEPT ![s.key] = s.value]
    /\ open' = [open EXCEPT ![p] = @ \ {s}]
    /\ Goto(p, IF pc[p] = "updating" /\ open[p] = {s} THEN "reading" ELSE pc[p])
    /\ UNCHANGED <<asked, reply, settled, clock, boot, check>>

\* It rejects, for want of a row or for an error, and so does Promise.all: the
\* client gets its error now, the other updates go on.
RejectUpdate(p, s) ==
    /\ s \in open[p]
    /\ open' = [open EXCEPT ![p] = @ \ {s}]
    /\ Goto(p, "refused")
    /\ UNCHANGED <<setting, asked, reply, settled, clock, boot, check>>

\* findMany of the keys asked for, and the answer.
ReadBack(p) ==
    /\ pc[p] = "reading"
    /\ \/ /\ Goto(p, "ok")
          /\ reply' = [reply EXCEPT ![p] =
                {[key |-> k, value |-> setting[k]] :
                    k \in {s.key : s \in asked[p]} \cap {l \in Keys : setting[l] # None}}]
       \/ Goto(p, "refused") /\ UNCHANGED reply
    /\ UNCHANGED <<setting, asked, open, settled, clock, boot, check>>

-----------------------------------------------------------------------------
(* The server and its cron job.                                            *)

Start ==
    /\ server = "down"
    /\ starts < MaxStarts
    /\ starts' = starts + 1
    /\ server' = "starting"
    /\ UNCHANGED <<setting, requests, clock, started, settledAt, arrivedAt, check>>

\* Mutation: the value of the previous start is kept.
KeepInterval ==
    /\ server = "starting"
    /\ started' = IF started # None THEN started ELSE setting[IntervalKey]
    /\ server' = IF started' \in Minutes \cup {None} THEN "up" ELSE "down"
    /\ sinceTick' = 0
    /\ settledAt' = Settled
    /\ arrivedAt' = {p \in Puts : pc[p] # "idle"}
    /\ UNCHANGED <<setting, requests, minute, starts, check>>

\* addDynamicOccupancyResetJob: getSettingByKey, then the CronJob.  Its constructor
\* throws for a value that is no cron field, and the server does not come up.
AddJob ==
    /\ server = "starting"
    /\ started' = setting[IntervalKey]
    /\ server' = IF started' \in Minutes \cup {None} THEN "up" ELSE "down"
    /\ sinceTick' = 0
    /\ settledAt' = Settled
    /\ arrivedAt' = {p \in Puts : pc[p] # "idle"}
    /\ UNCHANGED <<setting, requests, minute, starts, check>>

\* The process ends: requests are cut off, checks are forgotten.
Stop ==
    /\ server # "down"
    /\ server' = "down"
    /\ pc' = [p \in Puts |-> IF pc[p] \in {"updating", "reading"} THEN "dead" ELSE pc[p]]
    /\ open' = [p \in Puts |-> {}]
    /\ checks' = 0
    /\ UNCHANGED <<setting, asked, reply, settled, clock, started, starts, settledAt,
                   arrivedAt, people, told, failures>>

Interval == IF started = None THEN Default ELSE started

\* Mutation: the cron field is the number, without */.
TickAtMinute(m) == m = Interval

\* `0 */interval * * * *`: the minutes of the hour that the interval divides.
TickAt(m) == m % Interval = 0

\* A minute passes; at a tick ROOM_OCCUPANCY_VERIFICATION_SUGGESTED is published and
\* its listener called.
Minute ==
    /\ checks < MaxChecks
    /\ minute' = (minute + 1) % MinutesPerHour
    /\ IF server = "up" /\ TickAt(minute')
         THEN sinceTick' = 0 /\ checks' = checks + 1
         ELSE sinceTick' = (IF server = "up" THEN sinceTick + 1 ELSE 0) /\ UNCHANGED checks
    /\ UNCHANGED <<setting, requests, boot, people, told, failures>>

-----------------------------------------------------------------------------
(* The check of the rooms.                                                 *)

\* configuration.ts, and configService.get of a path that may not be there.
configuration ==
    [name \in {"belowMinOccupancy", "aboveMaxOccupancy"} |->
        IF name = "belowMinOccupancy" THEN BelowMin ELSE AboveMax]
configGet(name, default) ==
    IF name \in DOMAIN configuration THEN configuration[name] ELSE default

\* The listener asks for names that configuration.ts does not define: the thresholds
\* of the environment are never in force.
bellowMinOccupany == configGet("bellowMinOccupany", DefaultMin)
aboveMaxOccupany  == configGet("aboveMaxOccupany", DefaultMax)

\* Mutation: the conditions of OR are put into one object.
roomsBeyondBoth ==
    {r \in Rooms : people[r] >= aboveMaxOccupany /\ people[r] <= bellowMinOccupany}

roomsExceedingThresold ==
    {r \in Rooms : people[r] >= aboveMaxOccupany \/ people[r] <= bellowMinOccupany}

\* The query of the listener; each room it finds is sent to the admins.
CheckRooms ==
    /\ checks > 0
    /\ checks' = checks - 1
    /\ told' = told \cup roomsExceedingThresold
    /\ UNCHANGED <<setting, requests, clock, boot, people, failures>>

\* It rejects: this tick is lost.
FailCheck ==
    /\ checks > 0
    /\ failures < MaxFailures
    /\ checks' = checks - 1
    /\ failures' = failures + 1
    /\ UNCHANGED <<setting, requests, clock, boot, people, told>>

\* The entry handlers or an admin change the count of a room.
SetPeople(r) ==
    /\ \E n \in Counts \ {people[r]} : people' = [people EXCEPT ![r] = n]
    /\ told' = told \ {r}
    /\ UNCHANGED <<setting, requests, clock, boot, checks, failures>>

Next ==
    \/ \E p \in Puts : ReceivePut(p) \/ ReadBack(p)
    \/ \E p \in Puts : \E s \in open[p] : SettleUpdate(p, s) \/ RejectUpdate(p, s)
    \/ Start \/ AddJob \/ Stop \/ Minute
    \/ CheckRooms \/ FailCheck
    \/ \E r \in Rooms : SetPeople(r)

\* Time passes and MySQL answers; nothing obliges anyone to start the server.
Spec == Init /\ [][Next]_vars /\ WF_vars(Minute) /\ WF_vars(CheckRooms \/ FailCheck)

-----------------------------------------------------------------------------
(* Properties.                                                             *)

KeysOf(body) == {s.key : s \in body}

\* Everything else that was ever asked had come to an end before p arrived, or came
\* after the point in time that the set of arrivals stands for.
Alone(p, arrived) == \A q \in arrived \ {p} : q \in settled[p]

\* A PUT that was accepted has written every setting it was asked for and shows them
\* in its answer.  It must not have overlapped with another one: one still under way,
\* or one that was refused while updates of it went on.
AcceptedPutHolds ==
    \A p \in Puts :
        pc[p] = "ok" /\ Alone(p, {q \in Puts : pc[q] # "idle"}) =>
            /\ \A k \in KeysOf(asked[p]) : [key |-> k, value |-> setting[k]] \in asked[p]
            /\ reply[p] \subseteq asked[p] /\ KeysOf(reply[p]) = KeysOf(asked[p])

\* The start of the server after an accepted PUT of the interval uses that interval
\* (and fails if that is no number), unless another PUT overlapped with it or came
\* between the two.
StartUsesAcceptedInterval ==
    \A p \in settledAt :
        pc[p] = "ok" /\ IntervalKey \in KeysOf(asked[p]) /\ Alone(p, arrivedAt) =>
            [key |-> IntervalKey, value |-> started] \in asked[p]

\* While the server is up, no two ticks are further apart than the interval: the
\* hour's end, where the minutes start again from 0, makes a gap shorter, never longer.
TicksWithinInterval == server = "up" => sinceTick < Interval

\* A room whose count stays beyond a threshold of the listener is suggested to the
\* admins in the end, as long as the server stays up: a check that failed is made up
\* for by a later tick.  The thresholds are the ones written in the listener: those of
\* the environment are configured under other names.
OutOfRange(r) == people[r] >= DefaultMax \/ people[r] <= DefaultMin
OutOfRangeTold ==
    \A r \in Rooms :
        server = "up" /\ OutOfRange(r) ~> r \in told \/ ~OutOfRange(r) \/ server # "up"
=============================================================================
