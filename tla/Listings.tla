------------------------------ MODULE Listings ------------------------------
(***************************************************************************)
(* A client that reads a paged listing while the tables change.            *)
(*                                                                         *)
(* The four listings (access logs, vehicle entries, rooms, a user's        *)
(* notifications) share one shape: AuthGuard, count, getPaginationData,    *)
(* findMany with skip and take.  Every request is two or three queries     *)
(* without a transaction, and a walk through the pages is many requests:   *)
(* in between rows are stored, rooms are renamed by PATCH /rooms, the      *)
(* token expires, queries fail.  New rows are also emitted to the sockets  *)
(* that have joined, which is how a screen keeps up after it was loaded.   *)
(*                                                                         *)
(* Clients share no state, so one client is enough.                        *)
(***************************************************************************)
EXTENDS Paging, FiniteSets, Sequences, Functions

CONSTANTS
    Kinds,       \* listings, of "logs", "plates", "inbox", "rooms"
    Modes,       \* what the client does, of "walk", "jump", "find"
    Rows,        \* rows [date, room, text] a handler may store
    InitialLogs, \* contents of the listed table at the start
    InitialNumbers, \* and of the column rooms.roomNumber
    Rooms,       \* ids of rooms
    Numbers,     \* room numbers, integers in their collation order
    Hits,        \* the numbers that contain the text a client may search for
    Filters,     \* records [from, to, search] a client may ask with
    NoFilter,    \* the one of a request without filter
    PageSizes,   \* values of pageSize
    Pages,       \* pages a client may jump to
    MaxRows,     \* bound: rows a table may grow to
    None         \* no reply yet, no room looked for

ASSUME ListingsAssumption ==
    /\ Kinds \subseteq {"logs", "plates", "inbox", "rooms"}
    /\ Modes \subseteq {"walk", "jump", "find"}
    /\ Rows \subseteq [date : Int, room : Rooms, text : BOOLEAN]
    /\ InitialLogs \subseteq Seq(Rows)
    /\ InitialNumbers \subseteq Injection(Rooms, Numbers)
    /\ IsFiniteSet(Rooms) /\ Numbers \subseteq Int /\ Hits \subseteq Numbers
    /\ Filters \subseteq [from : Int, to : Int, search : BOOLEAN]
    /\ NoFilter \in Filters /\ ~NoFilter.search
    /\ PageSizes \subseteq Nat /\ Pages \subseteq Int /\ MaxRows \in Nat

VARIABLES
    kind, filter, size, mode,  \* what is listed, and how (never changed)
    log,       \* the listed table: rows in the order of their ids
    number,    \* rooms.roomNumber
    pc,        \* the await at which the request stands, or what the client does next
    token,     \* whether the client has an access token that verifies
    page,      \* the page asked for
    count,     \* what the count query returned
    shown,     \* the items of all replies
    repeated,  \* those that came in several replies
    reply,     \* the reply in hand
    target,    \* the room looked for with find-pages
    joined,    \* whether the client's socket has an entry in onlineUsers
    outbox,    \* rows stored and not emitted yet
    pushed,    \* rows emitted to the client
    lost,      \* rows whose handler died before the emission
    present,   \* history: the items that matched when the client began
    raced,     \* history: a row came between count and findMany of the last request
    inserted,  \* history: a row came since the client began
    renamed,   \* history and bound: a room was renamed since then
    watched    \* history: the socket has been joined since then

choices == <<kind, filter, size, mode>>
client  == <<page, count, shown, repeated, reply, target>>
feed    == <<joined, outbox, pushed, lost, watched>>
tables  == <<log, number>>
vars    == <<choices, tables, pc, token, client, feed, present, raced, inserted, renamed>>

Steps == {"account", "count", "findMany", "findRoom", "countBefore"}

Items == IF kind = "rooms" THEN Rooms ELSE DOMAIN log

TypeOK ==
    /\ kind \in Kinds /\ filter \in Filters /\ size \in PageSizes
    /\ mode \in Modes \cup {"show"}
    /\ log \in Seq(Rows)
    /\ number \in [Rooms -> Numbers]
    /\ pc \in {"off", "ask", "finished"} \cup Steps
    /\ token \in BOOLEAN
    /\ page \in Int /\ count \in Int
    /\ shown \subseteq Items /\ repeated \subseteq shown
    /\ reply \in [total : Nat, items : Nat] \cup {None}
    /\ target \in Rooms \cup {None}
    /\ joined \in BOOLEAN /\ watched \in BOOLEAN
    /\ outbox \subseteq DOMAIN log /\ pushed \subseteq DOMAIN log /\ lost \subseteq DOMAIN log
    /\ present \subseteq Items
    /\ raced \in BOOLEAN /\ inserted \in BOOLEAN /\ renamed \in BOOLEAN

\* The filters each listing takes; find-pages is about the unfiltered rooms.
FiltersOf(k) ==
    CASE k = "inbox" -> {NoFilter}
      [] k = "rooms" -> {f \in Filters : f = [NoFilter EXCEPT !.search = f.search]}
      [] OTHER       -> Filters

Init ==
    /\ kind \in Kinds /\ filter \in FiltersOf(kind) /\ size \in PageSizes /\ mode \in Modes
    /\ kind = "inbox" => size > 0
    /\ mode = "find" => kind = "rooms" /\ filter = NoFilter /\ size > 0
    /\ log \in IF kind = "rooms" THEN {<< >>} ELSE InitialLogs
    /\ number \in InitialNumbers
    /\ pc = "off"
    /\ token = FALSE
    /\ page \in IF mode = "jump" THEN Pages ELSE {1}
    /\ count = 0
    /\ shown = {} /\ repeated = {}
    /\ reply = None
    /\ target \in IF mode = "find" THEN Rooms ELSE {None}
    /\ joined = FALSE
    /\ outbox = {} /\ pushed = {} /\ lost = {}
    /\ present = {}
    /\ raced = FALSE /\ inserted = FALSE /\ renamed = FALSE /\ watched = FALSE

-----------------------------------------------------------------------------
(* The queries.                                                            *)

\* The where of each listing; a condition on columns that never change
\* (unlockMethod) is like the one on the dates.
Matches(x) ==
    LET searched == filter.search => \/ kind # "rooms" /\ log[x].text
                                     \/ number[IF kind = "rooms" THEN x ELSE log[x].room] \in Hits
    IN  CASE kind = "inbox" -> TRUE
          [] kind = "rooms" -> searched
          [] OTHER -> log[x].date \in filter.from .. filter.to /\ searched

Matching == {x \in Items : Matches(x)}

\* Mutation: the second key of orderBy is missing.
BeforeByDate(x, y) ==
    IF kind = "rooms" THEN number[x] < number[y] ELSE log[x].date > log[y].date

\* The orderBy of each listing; the inbox has no second key.
Before(x, y) ==
    CASE kind = "rooms" -> number[x] < number[y]
      [] kind = "inbox" -> log[x].date > log[y].date
      [] OTHER -> log[x].date > log[y].date \/ (log[x].date = log[y].date /\ x > y)

\* The orders in which the database may return the matching rows.
Orders ==
    LET n == Cardinality(Matching)
    IN  {s \in Bijection(1..n, Matching) : \A i, j \in 1..n : i < j => ~Before(s[j], s[i])}

\* findMany({skip, take}): take is the page size as it was asked for.
Window(s, skip, take) ==
    [i \in 1..AtLeast(AtMost(take, Cardinality(DOMAIN s) - skip), 0) |-> s[skip + i]]

-----------------------------------------------------------------------------
(* The client and its requests.                                            *)

\* AuthController.login and AuthService.login, with the right password.
Login ==
    /\ ~token /\ pc = "ask"
    /\ token' = TRUE
    /\ UNCHANGED <<choices, tables, pc, client, feed, present, raced, inserted, renamed>>

Expire ==
    /\ token
    /\ token' = FALSE
    /\ UNCHANGED <<choices, tables, pc, client, feed, present, raced, inserted, renamed>>

\* The screen is opened.
Begin ==
    /\ pc = "off"
    /\ pc' = "ask"
    /\ present' = Matching
    /\ watched' = joined
    /\ UNCHANGED <<choices, tables, token, client, joined, outbox, pushed, lost, raced,
                   inserted, renamed>>

\* The request passes AuthGuard: GET /license-plates is public, the others need a
\* token that verifies.  RoleGuard lets every route pass, none names a role.
Admit ==
    /\ pc = "ask"
    /\ kind = "plates" \/ token
    /\ pc' = CASE mode = "find"   -> "findRoom"
               [] kind = "inbox"  -> "account"
               [] OTHER           -> "count"
    /\ reply' = None
    /\ UNCHANGED <<choices, tables, token, page, count, shown, repeated, target, feed,
                   present, raced, inserted, renamed>>

\* getMyNotification: account.findUnique of the token's user; no account is deleted.
FindAccount ==
    /\ pc = "account"
    /\ pc' = "count"
    /\ UNCHANGED <<choices, tables, token, client, feed, present, raced, inserted, renamed>>

QueryCount ==
    /\ pc = "count"
    /\ count' = Cardinality(Matching)
    /\ raced' = FALSE
    /\ pc' = "findMany"
    /\ UNCHANGED <<choices, tables, token, page, shown, repeated, reply, target, feed,
                   present, inserted, renamed>>

\* The page is read and answered; who walks goes on until the last page.
QueryPage ==
    LET data == getPaginationData(count, page, size)
    IN  /\ pc = "findMany"
        /\ \E s \in Orders :
              LET items == Range(Window(s, data.skip, size))
              IN  /\ shown' = shown \cup items
                  /\ repeated' = repeated \cup (shown \cap items)
                  /\ reply' = [total |-> data.totalItems, items |-> Cardinality(items)]
        /\ count' = 0
        /\ IF mode = "walk" /\ data.safePage < data.totalPages
             THEN pc' = "ask" /\ page' = data.safePage + 1
             ELSE pc' = "finished" /\ UNCHANGED page
        /\ UNCHANGED <<choices, tables, token, target, feed, present, raced, inserted,
                       renamed>>

\* getPageByRoomId: room.findUnique of the room's number, kept in count ...
FindRoom ==
    /\ pc = "findRoom"
    /\ count' = number[target]
    /\ pc' = "countBefore"
    /\ UNCHANGED <<choices, tables, token, page, shown, repeated, reply, target, feed,
                   present, raced, inserted, renamed>>

\* Mutation: lte for lt.
CountUpTo ==
    /\ pc = "countBefore"
    /\ page' = Cardinality({r \in Rooms : number[r] <= count}) \div size + 1
    /\ mode' = "show"
    /\ pc' = "ask"
    /\ UNCHANGED <<kind, filter, size, tables, token, count, shown, repeated, reply,
                   target, feed, present, raced, inserted, renamed>>

\* ... and the rooms before it; the client then asks GET /rooms for that page.
CountBefore ==
    /\ pc = "countBefore"
    /\ page' = Cardinality({r \in Rooms : number[r] < count}) \div size + 1
    /\ mode' = "show"
    /\ pc' = "ask"
    /\ UNCHANGED <<kind, filter, size, tables, token, count, shown, repeated, reply,
                   target, feed, present, raced, inserted, renamed>>

\* A query rejects: the client gets an error and asks again.
FailRequest ==
    /\ pc \in Steps
    /\ pc' = "ask"
    /\ count' = 0
    /\ UNCHANGED <<choices, tables, token, page, shown, repeated, reply, target, feed,
                   present, raced, inserted, renamed>>

-----------------------------------------------------------------------------
(* What goes on meanwhile.                                                 *)

\* A handler stores a row of any date: deliveries come late and out of order.
Insert ==
    /\ kind # "rooms"
    /\ Len(log) < MaxRows
    /\ \E row \in Rows : log' = Append(log, row)
    /\ outbox' = outbox \cup {Len(log) + 1}
    /\ raced' = (raced \/ pc = "findMany")
    /\ inserted' = (inserted \/ pc # "off")
    /\ UNCHANGED <<choices, number, pc, token, client, joined, pushed, lost, watched,
                   present, renamed>>

\* Mutation: a row older than the newest one is not emitted.
EmitNewestOnly(x) ==
    /\ x \in outbox
    /\ outbox' = outbox \ {x}
    /\ pushed' = IF joined /\ \A y \in DOMAIN log : log[y].date <= log[x].date
                 THEN pushed \cup {x} ELSE pushed
    /\ UNCHANGED <<choices, tables, pc, token, client, joined, lost, watched, present,
                   raced, inserted, renamed>>

\* sendNewLog: the row goes to the sockets that are registered by then.
Emit(x) ==
    /\ x \in outbox
    /\ outbox' = outbox \ {x}
    /\ pushed' = IF joined THEN pushed \cup {x} ELSE pushed
    /\ UNCHANGED <<choices, tables, pc, token, client, joined, lost, watched, present,
                   raced, inserted, renamed>>

\* Its handler dies between the two.
Drop(x) ==
    /\ x \in outbox
    /\ outbox' = outbox \ {x}
    /\ lost' = lost \cup {x}
    /\ UNCHANGED <<choices, tables, pc, token, client, joined, pushed, watched, present,
                   raced, inserted, renamed>>

Join ==
    /\ ~joined /\ kind # "rooms"
    /\ joined' = TRUE
    /\ UNCHANGED <<choices, tables, pc, token, client, outbox, pushed, lost, watched,
                   present, raced, inserted, renamed>>

Disconnect ==
    /\ joined
    /\ joined' = FALSE
    /\ watched' = FALSE
    /\ UNCHANGED <<choices, tables, pc, token, client, outbox, pushed, lost, present,
                   raced, inserted, renamed>>

\* PATCH /rooms/:roomId; roomNumber is unique.
Rename(r) ==
    /\ pc # "off" /\ ~renamed
    /\ \E n \in Numbers \ Range(number) : number' = [number EXCEPT ![r] = n]
    /\ renamed' = TRUE
    /\ UNCHANGED <<choices, log, pc, token, client, feed, present, raced, inserted>>

\* The client has what it asked for.
Finished == pc = "finished" /\ UNCHANGED vars

Next ==
    \/ Login \/ Expire \/ Begin \/ Admit \/ FindAccount \/ QueryCount \/ QueryPage
    \/ FindRoom \/ CountBefore \/ FailRequest
    \/ Insert \/ (\E x \in outbox : Emit(x) \/ Drop(x))
    \/ Join \/ Disconnect
    \/ \E r \in Rooms : Rename(r)
    \/ Finished

Spec == Init /\ [][Next]_vars

-----------------------------------------------------------------------------
(* Properties.                                                             *)

\* Renaming a room moves rows of a listing that is ordered or filtered by numbers.
Moved == renamed /\ (kind = "rooms" \/ filter.search)

\* sentAt alone does not order notifications of the same moment.
Tied(x) == kind = "inbox" /\ \E y \in DOMAIN log \ {x} : log[y].date = log[x].date

\* Walking the pages shows each row that was there from the start, and shows it once.
\* One is left out only if a row was stored between the two queries of the last page,
\* one comes twice only if a row was stored meanwhile; a renamed room, or two
\* notifications of the same moment, may do both.
WalkShowsEachRowOnce ==
    (pc = "finished" /\ mode = "walk" /\ size > 0) =>
        \A x \in present :
            /\ x \notin shown => raced \/ Moved \/ Tied(x)
            /\ x \in repeated => inserted \/ Moved \/ Tied(x)

\* A screen that joined before it was loaded misses nothing: a row is on a page, has
\* been pushed or is on its way, unless the handler that stored it died, the socket
\* was disconnected, or the page walk lost it as above.
ScreenComplete ==
    (pc = "finished" /\ mode = "walk" /\ size > 0 /\ watched) =>
        \A x \in Matching :
            \/ x \in shown
            \/ kind # "rooms" /\ x \in pushed \cup outbox \cup lost
            \/ x \in present /\ (raced \/ Tied(x))
            \/ Moved

\* The page find-pages answers shows the room, when no room is renamed in between.
FoundPageShowsRoom ==
    (pc = "finished" /\ mode = "show" /\ ~renamed) => target \in shown

\* Whatever page is asked for, an empty one means that there is nothing to show, or
\* that the client asked for pages of size 0 (take is not the safe page size).
NoEmptyPage ==
    (reply # None /\ reply.items = 0) => reply.total = 0 \/ size = 0 \/ Moved
=============================================================================
