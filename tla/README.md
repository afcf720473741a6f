# Verification of smart-room-entry-be

The backend counts who is in which room of a boarding house. A TTLock gate lock reports
unlocks, a sensor at the gate counts people in and out, a camera reads licence plates; the
backend matches these reports, keeps `rooms.currentPeople`, writes logs and tells the admins
over sockets and web push. This directory holds TLA+ modules of that logic, TLC runs on small
instances, and TLAPS proofs for every instance.

Paths below are relative to the repository root.

## 1. Inventory

The server is one Node process over MySQL (Prisma). No request uses a transaction, so every
`await` is a point where another request may run, or where this one may stop for good.

| Component | State | Operations | Hard part | What makes it correct | Modelled |
|---|---|---|---|---|---|
| Unlock events, `src/access-cards/access-card.service.ts` | `log_events`, `access_logs`, `rooms.currentPeople`, `log_sensors.status` | `handleUnlockEvent`: debounce, find room, read unmatched readings, confirm them, count, log, alert, store | ten awaits, no transaction, redelivery | each reading counted once; counted means confirmed and the reverse; logs explain the occupancy | `EntryMatching` |
| Gate sensor, `src/sensors/sensor.service.ts` | `log_sensors`, `log_events.status`, the rest as above | `handleSensorEvent`: match a pending event, or ask the lock cloud, then count or store for later | races with unlocks, cloud calls without timeout | each event claimed once; no reading lost; loitering picked up | `EntryMatching` |
| Rooms, `src/room/room.service.ts` | `rooms` | lookup, `updateRoom`, emission of the new count, listings | absolute write against increments; order of emissions | corrections and increments add up; screens show the count; every row on a page | `EntryMatching`, `Listings` |
| Access log, `src/access-logs/access-log.service.ts` | reads `access_logs` | `sendNewLog`, `getLogs` | rows stored between two queries or two pages | a screen misses and repeats nothing | `EntryMatching` (writes), `Listings` |
| Four socket gateways, `*gateway.ts` | `onlineUsers` per class | connect, disconnect, join, send | disconnect while the token is verified | open sockets reachable; closed ones forgotten | `SocketGateway` |
| Licence plates, `src/license-plate/license-plate.service.ts` | `vehicle_entry_logs` | `handleLicensePlate`, listing | reads the same pending events; branches that set no room | each passage logged, alerts consistent with the log | `LicensePlates`, `Listings` |
| Notifications, `src/notification/*` | `notifications`, `account_notifications` | listener, `create`, `markAsRead`, counts | two inserts that are not atomic; swallowed errors | no orphan; read flag monotone; emitted means stored; nobody left out | `Notifications` (what is published: `EntryMatching`, `LicensePlates`) |
| Web push, `src/push-notify/push-notify.service.ts` | `push_subscriptions` | subscribe, send, deactivate | check-then-create; deactivated for ever | one row per endpoint, kept by its owner; live endpoints tried and not deactivated | `Notifications` |
| Settings and schedule, `src/settings`, `src/schedule` | `settings`, cron job | `updateSettings`, cron tick, check of the rooms | parallel updates that go on after a refusal; interval read once; restarts | an accepted setting holds; the next start uses it; wrong counts reported in the end | `OccupancySchedule` |
| Auth, `src/auth`, `src/common/guards` | none | guards, login | a token expires between two requests | a screen that logs in again misses nothing | partly, `Listings`, `SocketGateway` |
| Accounts, `src/account` | `accounts` | create, `getMe`, `getAdmins` | an admin created while an alert is sent | he is told or came too late | `Notifications` |
| Pagination, `src/common/helpers/paginate.helper.ts` | none | `getPaginationData` | pages past the end, sizes of 0 | every row on exactly one page | `Paging` |
| Cache, logging, bootstrap | none | glue; `CacheService` is called by nothing | none | | no |

How they interact: both entry handlers call `RoomService`, `AccessLogService` and
`NotificationPublisher`; the publisher emits in-process events the listener turns into rows,
socket messages and pushes; the gateways hold the sockets everything is emitted to. The tables
`log_events` and `log_sensors` are the only way the two entry handlers see each other.

## 2. Plan

1. `EntryMatching` with `EntryInvariants`: the two entry handlers over the shared tables. Done, with
   proofs.
2. `SocketGateway`: the registry behind every emission. Done, with proofs.
3. `Notifications`: listener, non-atomic create, read flag, web push. Done, with proofs.
4. `LicensePlates`: a third reader of `log_events`, composed with both entry handlers. Done, with
   proofs.
5. `OccupancyLedger`: the abstract promise of the entry handlers, and `Inboxes`, that of the
   fan-out. Done, both refinements checked and proved.
6. `Paging` and `Listings`: the four paged listings, read while the tables change. Done, with proofs.
7. `OccupancySchedule`: settings, the cron job, restarts, the check of the rooms. Done, with proofs.

Every safety and action property of the passing runs is now also a theorem; what the runs alone
show is liveness (section 5).

Two abstract specifications are stated and implemented. `OccupancyLedger` has three steps:
`Book` (a handler changes one room by its passage, once), `Log` (it logs what it has booked) and
`Correct` (an admin changes a count, and the difference is known). `Inboxes` has `File` (an alert
is filed in the inboxes of all its addressees in one step), `Tell` (they are told of what is filed, once) and
`Read` (one account marks one row). `EntryMatching` and `Notifications` cut these into queries that
others come between and that fail; their `KeepsLedger` and `KeepsInboxes` are the abstract
specifications under `INSTANCE ... WITH`.

## 3. Modules and the code

**`EntryMatching`** models `handleUnlockEvent` and `handleSensorEvent`. A *request* is one
delivery; `pc[h]` says at which await its handler stands, and an action is the query of that
await with the code up to the next one. One request writes at most one row in each table, so
`event`, `sensor` and `accessLog` are functions of the request that wrote the row. `req`,
`found`, `room`, `status`, `updated` are the handler's local variables (payload, rows read,
`roomByRoomNumber`, the status it will write, `roomUpdated`). `currentPeople`, `capacity`,
`roomNumber` are the columns of `rooms`. `shown` is the count last emitted to the admins and
`published` what a handler handed to the publisher.

| Actions | Code |
|---|---|
| `ReceiveUnlock`, `DebounceUnlock`, `LookUpUnlockRoom` | access-card.service.ts 83-152 |
| `ReadUnconfirmed`, `ReadPending` | 153-200, rows within two minutes before or 15 s around |
| `ConfirmSensors`, `AddPeople`, `SendUnlockTenant`, `CreateLog`, `SendUnlockLog` | 200-268 |
| `CreateEvent` | 269-284 |
| `ReceiveSensor`, `FindEvent` | sensor.service.ts 79-98 |
| `AskStatus`, `FindRecent`, `AskHistory` | 98-127 and 186-202, with 277-344 for the cloud calls |
| `LookUpSensorRoom`, `AddPeople`, `SendSensorTenant`, `ConfirmEvent`, `CreateLog`, `SendSensorLog`, `CreateSensor` | 126-185 and 203-275, with 345-372 |
| `UpdateRoom` | room.service.ts 88-107, an admin's PATCH |
| `Fail` | a rejected await or a restart, at any step; what was written stays |

`before`, `edited` and `corrected` are history variables: what was at rest when a request
arrived, and what admins did. They let the properties say *overlapped* and *in order*.

Abstracted: texts of notes and messages, record identifiers, names, the socket delivery of an
emission. Users map to room numbers by `NumberOf` (the part of the user name before the dot,
`parse-unlock-event.ts`); a name without a number behaves as a number no room has.

**`EntryInvariants`** holds the inductive strengthening used by the proofs.

**`SocketGateway`** models one of the four identical gateways: `onlineUsers` as a function whose
domain is the users with an entry, `client.data.userId`, and the await of `verifyToken` as a
step of its own, so that `join`, a disconnection or an emission can come first.

**`Notifications`** models what becomes of a published alert. A *delivery* is one run of an
`@OnEvent` handler of `NotificationListener`, `topic` the event it listens to; the occupancy
suggestion, which loops over the rooms, counts as one delivery per room, and the admin's
`POST /push-notify/send-admins` as a delivery that begins at the push. `notification`, `row` and
`subscription` are the three tables, `registered` the accounts. `sending[d][e]` follows the
call of the push service for one endpoint: `Promise.all` starts them together, so each
settles on its own. `gone` are the endpoints their browsers gave up, which the server cannot see.

| Actions | Code |
|---|---|
| `Publish` | notification-publisher.ts, the `@OnEvent` methods of notification-listener.ts |
| `QueryAdmins`, `FailSend` | `sendNotificationToAdmins`, whose `try` catches every error of the rows below |
| `QueryReceivers`, `CreateNotification`, `CreateRows`, `ReadBack` | `NotificationService.create`, then the emissions |
| `QuerySubscriptions`, `FailSubscriptions`, `PushReaches`, `PushGone`, `PushFails`, `Deactivate` | `sendPushToRole` |
| `AskToRead`, `FindAccount`, `FindRow`, `UpdateRow` | `markAsRead` |
| `AskToSubscribe`, `FindAccount`, `FindSubscription`, `CreateSubscription` | `handleSubscribe` |
| `CreateAccount`, `GiveUp`, `Restart` | account creation, the browser, a restart of the process |

`adminsAt`, `activeAt`, `failedSend` and `failedPush` are history: who was there when the alert was
published, and where an error was swallowed.

**`LicensePlates`** extends `EntryMatching`: `PlatesSpec` interleaves `handleLicensePlate` with
both entry handlers over the same `event`. A *passage* is one POST of the camera, `at[p]` the await
its handler stands at. `FindVehicle` reads any row of the plate (`findFirst` without an order),
`FindPending` any pending event in the window of 180 s on either side, `AskGateStatus` the cloud,
`FindLast` the last event before the passage (room 1 without one), `LookUpOpenersRoom`,
`CreateEntry` and `SendEntry` the rest. The alert names `RoomNumberOpened`, the number of the room
that was looked up, and no room where the row is put on room 1.
`errored` are the passages that ended in the `catch`, `settled` (history) the entry requests at rest when the passage arrived.

**`Paging`** is `getPaginationData`, an operator for each of its lines. **`Listings`** composes it
with the four listings that use it. They share one shape (guard, count, `getPaginationData`,
`findMany`), so `kind` tells them apart: which rows there are, their order and their filter. One
client loads a screen: it walks the pages from the first, jumps to a page, or asks for the page of
a room (`find-pages`) and then for that page. Meanwhile handlers store rows of any date and emit
them, or die in between; an admin renames a room; the socket joins and disconnects; the token expires
and the client logs in again; queries fail and are asked again.

| Actions | Code |
|---|---|
| `Login`, `Expire`, `Admit` | auth.service.ts 21-76, auth.guard.ts 21-35; `GET /license-plates` is public, `RoleGuard` lets every route pass |
| `FindAccount`, `QueryCount`, `QueryPage` | `getLogs`, `getAllLicensePlate`, `getRooms`, `getMyNotification` |
| `FindRoom`, `CountBefore` | `getPageByRoomId` |
| `Insert`, `Emit`, `Drop`, `Join`, `Disconnect` | the handlers that store a row, `sendNewLog`, the gateway |
| `Rename`, `FailRequest`, `Begin` | `updateRoom`, an error, the client |

`Matches` is the `where` of a listing (a filter on the unlock method is one on a column that never
changes, like the dates), `Orders` all orders in which MySQL may return the matching rows: rows
that `orderBy` does not tell apart come in any order, and in another one the next time. `take` is the page
size as it was asked for, `skip` comes from the safe one; a negative `take`, which Prisma reads from
the end of the table, is left out.

**`OccupancySchedule`** models `PUT /settings` (`ReceivePut`, then `SettleUpdate` and
`RejectUpdate` for each update of `Promise.all`, `ReadBack`), the life of the server (`Start`, `AddJob`,
which reads the interval and builds the cron job before the server listens, `Stop`), the wall clock
(`Minute`, with `TickAt` for `*/n`) and the listener that checks the rooms (`CheckRooms`, `FailCheck`). A
`PUT` that was refused leaves updates under way (`open`), and so does one cut off. `SetPeople`
stands for all that changes a count. `told` are the rooms suggested since their last change. The
listener asks the configuration for `bellowMinOccupany` and `aboveMaxOccupany`
(notification-listener.ts 30-37) where configuration.ts 26-27 defines `belowMinOccupancy` and
`aboveMaxOccupancy`: `configGet` returns the defaults, and the thresholds of the environment are
never in force. `OutOfRangeTold` is stated with the thresholds that are.

**`OccupancyLedger`** and **`Inboxes`** are the abstract specifications of section 2.

`SumLemmas` proves what is needed of the community fold behind the sums; `MC*.tla` and `*.cfg`
are the instances.

## 4. Runs

| Run | Instance | Shows |
|---|---|---|
| `two_unlocks` | 2 unlocks, 1 reading, 2 rooms | `TypeOK`, `LedgerBalances`, `ConfirmedSensorCounted`, `ReadingCountedTwiceOnlyByOverlap`, `LoiteringPickedUp`, `SecondUnlockOnlyAfterConfirm` |
| `two_readings` | 1 unlock, 2 readings, 1 room recounted | `ConfirmedEventCounted`, `EventClaimedTwiceOnlyByOverlap`, `UnmatchedOnlyByOverlap`, `OverCapacityReported`, `ShownIsCurrent`, `ReadingStored`, `KeepsLedger` (refinement) |
| `debounce` | 2 unlocks, 1 reading | violation of `DuplicateLeavesNoEvent` |
| `gateway` | 2 users, 3 sockets | `TypeOK`, `OpenSocketsReachable`, `DeadSocketsOnlyByRace`, `OnlineHasSocket`, `OnlyOwnPayloads` |
| `notify_admins` | 1 alert, 2 readers, 2 admins | `EmittedHasRow`, `AdminsInformed`, `ReadByItsOwner`, `AlertsReachInboxes`, `KeepsInboxes` (refinement) |
| `notify_push` | 2 alerts, 2 subscriptions, 1 endpoint | `TypeOK`, `ActiveEndpointsTried`, `DeactivatedOnlyWhenGone`, `FirstOwnerKeepsEndpoint` |
| `gate_left_open` | as `notify_admins`, 1 reader | violation of `EveryAlertInformsAdmins` |
| `plates` | 1 unlock, 1 reading, 1 passage, 1 edit | `PlatesTypeOK`, `PassageOfUnlockLogged`, `OpenerIsStored`, `AlertsMatchLog` |
| `plates_two_unlocks` | 2 unlocks, 1 reading, 1 passage after them | `LastOpenerBlamed` |
| `blacklist` | as `plates` | violation of `BlacklistedReported` |
| `listings` | 4 listings, 3 rows and 1 to come, 3 rooms, 1 client | `WalkShowsEachRowOnce`, `ScreenComplete`, `FoundPageShowsRoom`, `NoEmptyPage` |
| `occupancy` | 2 `PUT`s, 2 starts, 1 room | `AcceptedPutHolds`, `StartUsesAcceptedInterval`, `TicksWithinInterval`, `OutOfRangeTold` |

What the properties about overlap mean. The code does not keep two overlapping handlers from
counting one reading twice, claiming one event twice or missing each other; the runs reach all of
these. The properties pin down that this is the *only* way: the `CONFIRMED` statuses protect any two
handlers of which one was at rest before the other arrived, in any order of deliveries and
after any failure. The exceptions a property names (a handler that died between two writes, rows
that cancel out) are the states the code really leaves behind.

The `debounce` run: the comment at `access-card.service.ts:115` says an event of the last 5 s
makes this one a duplicate. The query takes `lockDate < date` and `PENDING` rows only, so a
redelivery with the same date, or one after the first was confirmed, stores a second event.

The `gate_left_open` run: `SensorService` publishes `GATE_LEFT_OPEN`, and the listener's
`notification-title.enum.ts` has its title, but no method of the listener is decorated for it; the
event is emitted to nobody and no admin learns of the open gate.

The `blacklist` run: `handleLicensePlate` compares the status of the vehicle's link to its plate
(`VehicleLicensePlateStatus`) with `VehicleRoomStatus.BLACKLISTED`, a status of the link to the
room, which it never reads. The branch that logs "is blacklisted. Access denied." cannot be taken,
and a blacklisted vehicle passes as an ordinary one.

The `listings` run shows what a screen may miss or repeat, and that nothing else does it: a row
stored between `count` and `findMany` can push the last row off the last page (`raced`), a row stored between
two pages makes one come twice, a renamed room moves (`Moved`), and two notifications of one `sentAt`
have no order (`Tied`; the other listings have a second key). `ScreenComplete` adds the socket: a client
that joined before it loaded sees every row at last on a page or as an emission.

The `occupancy` run shows what an accepted `PUT` is worth: it holds, and the next start uses its
interval, unless it overlapped with another one. A refused `PUT` counts as overlapping for as long as updates of
it are under way, which may be after the answer. A value that is no number is accepted too; the next
start fails on it, and so will every other one, as the settings can only be changed while the server is up.

What is lost on an error is part of the code's contract and named by the properties: a failure
between `notification.create` and `createMany` leaves a notification nobody has (`failedSend`), the
push is sent all the same (`ActiveEndpointsTried`). `FirstOwnerKeepsEndpoint` has a reverse side: a
browser that changes its user, or subscribes again after a deactivation, is not taken over.

### Bounds

Times are in units of 5 s; the windows keep their proportions (1, 3, 24, 10 units for 5 s,
15 s, 2 min, 50 s). The payloads are the ones the windows tell apart: unlocks of two residents
at one time, a second one inside the debounce window, a refused one; readings of one person in
and one out next to the unlocks, and of two people in the loitering window. `Capacities = {1}`, so one
reading can reach the capacity and another exceed it. `Editable` bounds edits to one per
room. Every property relates at most two requests of one kind and one of the other, which
the two main instances contain; the third handler needed to disturb a pair (a second unlock, a second
reading) is in one of them. The recount of `two_readings` meets the room of the unlock or another
one, as the numbers of the rooms are not fixed; with one unlock a second resident adds nothing.
Deadlock is checked: a state where every request is at rest stutters explicitly (`Quiet`), any
other must have a step.

One alert is enough for storing and reading, as deliveries share no row: a row belongs to its
delivery. Pushes share the endpoints' rows, so there two deliveries and two subscriptions race for
one endpoint; further endpoints settle independently. A passage reads the tables of the entry
handlers and writes none of them, so two passages do not see each other. The instance of `plates` has an
unlock in the window or 400 s before it, a reading that may confirm the unlock, a vehicle of every
kind the code tells apart, and an edit that may rename the room in between. In
`plates_two_unlocks` the two residents' events differ in date, and the reading may confirm the later
one before the passage asks for the last; no room is edited and none has the id 1, which `plates` covers.

In `listings` the table grows to 4 rows, of two dates and two rooms, with pages of 0, 1 and 2
rows, so that a walk has up to four pages and a row can come before, on and after the page at hand; one
rename, to a free number on either side of the others. A client shares nothing with another, so one is
enough. In `occupancy` the hour has 6 units of ten minutes; intervals of 2 units divide it, 4 do not, and
`-1` stands for a text. Two `PUT`s and two starts are what an overlap and a stale interval need; one
check is in flight at a time (`MaxChecks`: time does not pass before its query has settled) and one fails. The
type invariants of these two modules are not among the checked properties: both are proved.

### Fairness

`EntryMatching` and `LicensePlates` have none: an answer of the TTLock cloud is not guaranteed
(`HttpModule` is registered without a timeout), and what is promised of the handlers is promised
wherever they stop. Arrivals, failures and edits are never forced. In `Notifications` each
`Deliver(d)` is weakly fair: Node resumes a handler whose query settled and MySQL settles every
query; the push service, like the cloud, gets no fairness, and `AlertsReachInboxes` asks nothing of it. In
`OccupancySchedule` time passes and the query of a check settles, well or badly; nobody is obliged to start the
server, and `OutOfRangeTold` asks nothing of one that is down.

## 5. Proofs

All hold for any values of the constants: requests, payloads, users, rooms, windows, intervals.

Assumptions on the constants, each checked by TLC on the instances: readings are finitely many
and no request is both kinds, `None` is no payload, row or room; payloads have the fields and integer counts the code reads; an
edited room exists; windows are natural numbers and `TwPending <= TwSensor` (15 s and the
literal 50 s; only `NoPairMissedInOrder` uses it, and it would not hold if `ttl.pending` were
configured above 50 s).

* `SumLemmas`: the sum of a function over a finite set (`FoldFunction`, a recursion over the
  subsets of its domain) is an integer (`TotalType`), grows by what is added to one term
  (`TotalAdd`) and is the sum of its two parts (`TotalSplit`). No theorem of induction can be
  cited, so the recursion is shown to have a solution on the subsets of at most `n` elements, and what
  it returns by a minimal set at which the claim would fail.
* `EntryMatchingProofs`: `IInv = TypeOK /\ Shape /\ Match`. `Shape` is needed because an
  increment is an integer only when every row a handler holds is a stored reading with a payload.
  `Match` ties the status a handler
  will write to its program counter (`UnlockStatus`, `SensorStatus`), says that whatever has been
  counted is `CONFIRMED` (`Protected`), that a request at rest when another arrived stays at
  rest (`RestBefore`), and hence that a later unlock does not hold a row counted before it came
  (`NotReadAgain`). `ConfirmedEventCounted`, `ConfirmedSensorCounted` and
  `ReadingCountedTwiceOnlyByOverlap` follow. `HandlersKeepLedger` is the refinement: every step but
  `AddPeople(h)` leaves what `h` has booked as it is (`BookedKept`, because a handler only counts rows
  that have been received and forgets none of them once it was answered), `AddPeople`, `CreateLog` and
  `UpdateRoom` are `Book`, `Log` and `Correct`, all other steps stutter. `OccupancyIsLogged`
  (`LedgerBalances`) is proved along that refinement: `Balanced`, one sum over what each handler has
  booked, is kept because `Book` adds one term (`TotalAdd`) and every other step changes none of
  them; as logs hold what was booked (`LoggedAsBooked`), the sum splits into logged and unlogged
  (`TotalSplit`). `ScreensShowCounts` (`ShownIsCurrent`) needs `ScreensFollow`: while the handlers
  that have added to a room did not overlap, only the last one can still have its
  emission ahead (`InOrder`), and unless it has, the screen shows the count.
* `EntryPairProofs`: `PairInv` adds what each query of a handler has seen of the requests at rest
  before it (`DebounceChecked`, `RowsRead`, `EventSeen`), who holds a claimed event
  (`ClaimedOnce`), and where the alert of an over-full room is (`ReportOnItsWay`). Six further
  properties of the runs follow.
* `SocketGatewayProofs`: the entries of `onlineUsers` agree with `client.data.userId` and the
  token; all five gateway properties follow.
* `NotificationsProofs`: `Placed` (every actor keeps to its own awaits and knows what it asks
  for), `Stored` and `OwnRow` (before `createMany` a delivery has no rows, a reader about to update
  was shown its own row), `OnTheirWay` (the admins of an alert's time are in the list its handler
  holds), `Addressed` and `Endpointed` (only rows that exist are sent to). Type correctness itself needs
  `Addressed`: a deactivation of a missing row would write one without owner. All safety properties
  of both runs follow, the two action properties included, for any numbers of deliveries, readers,
  subscribers, accounts and endpoints. It assumes that the three kinds of actors are disjoint,
  that admins are accounts and that the published topics are those of the code. `FanOutKeepsInboxes`
  is the refinement: `CreateRows`, `ReadBack` and `UpdateRow` are `File`, `Tell` and `Read` (or stutter, for a
  row that is read already); it needs that nothing is told before its handler reads the rows back.
* `LicensePlatesProofs`: `PassageInv` for the third handler, next to `IInv` of the other two, which
  take any steps between its queries (`EntryStepKeepsPassages`). `Openers` says what is known of the
  opener at each await, `Rows` orders row and alert, `Settled` carries the one delicate argument: an
  unlock of the window whose handler was at rest when the passage arrived, and that is still
  pending, was pending at `findPending` too, so the gate was found open. `Settled` also
  keeps that no unlock handled before the passage is later than the one a gate left open is put down
  to: a handler at rest stores nothing any more. `RoomOfOpener`, which ties the row to the room the
  alert names, holds as long as no room is edited. The five properties follow. It assumes that `None` is no
  alert.
* `ListingsProofs`: first `getPaginationData`, for any number of rows and any page and page size,
  negative ones too: the page answered is one of the pages, `skip` leaves at least one row of a
  table that has some, and every row lies on exactly one page. Then the orders: in each one MySQL
  may choose, a row without ties stands at `Rank(x) + 1`, `Rank(x)` being the number of rows in front
  of it (`PositionOfUntied`; the rows before it are in bijection with the positions before it), so a page
  shows the rows of its ranks (`WindowShows`). Then the steps: unless a room of the listing is renamed, ranks only grow
  (`RowsStay`), hence the pages before the one asked for have shown all rows of lower rank, and no
  other one if no row came (`PagesBefore`). With the count never above the rows there are
  (`Counted`) and no row unaccounted for (`Fed`) the four properties of the run follow.
* `OccupancyScheduleProofs`: `TypeOK`, and `TicksWithinInterval` from the invariant `Scheduled`:
  while the server is up its interval is a positive number and `sinceTick <= minute % Interval`, for any
  interval and any length of the hour. The remainder grows by one with each minute until the
  interval is full or the hour begins, and both are ticks. `AcceptedPutHolds` and
  `StartUsesAcceptedInterval` need that what has ended stays as it is (`EndedForGood`) and that
  nobody else has an update under way while a `PUT` is alone: then each of its keys has its update
  under way or its value in the table (`Written`), through any number of restarts.

Only model-checked: `AlertsReachInboxes` and `OutOfRangeTold` (liveness under
fairness is beyond the prover), and the three runs that expect a violation, which show one
counterexample each.

## 6. Not modelled

The `TTLock` cloud itself (its answers are nondeterministic), Prisma and MySQL beyond row-level
atomicity, hashing of passwords and signing of tokens, the Redis wrapper (`CacheService` is called by
nothing, so it has no protocol to model), logging, DTO validation, Swagger and bootstrap. Requests that
are a single read (`getMe`, `getSettings`, `countUnRead`) change nothing and have nothing to race with.
