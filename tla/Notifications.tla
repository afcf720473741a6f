---------------------------- MODULE Notifications ----------------------------
(***************************************************************************)
(* What becomes of a published alert: NotificationListener,                *)
(* NotificationService and PushNotifyService.  A delivery is the run of    *)
(* one @OnEvent handler: it stores a notification and one row per admin,   *)
(* emits the rows to the sockets and then asks the push service to reach   *)
(* every active endpoint of an admin.  Between the awaits of a delivery    *)
(* other deliveries run, users mark rows as read, browsers subscribe,      *)
(* accounts are created and browsers give an endpoint up.                  *)
(*                                                                         *)
(* As in EntryMatching an action is one query (or call of the push         *)
(* service) with the code up to the next await.  The occupancy suggestion  *)
(* runs one delivery per room; each of them is a delivery of its own.      *)
(***************************************************************************)
EXTENDS FiniteSets

CONSTANTS
    Deliveries,   \* one per published alert
    Readers,      \* PATCH /notifications/:id/read requests
    Subscribers,  \* POST /push-notify/subscribe requests
    Accounts,     \* account ids
    Admins,       \* the ones with the role ADMIN, which the code never changes
    Endpoints,    \* endpoints of browsers
    Published,    \* the topics that are published (bounds a run)
    None          \* no owner

\* The topics with an @OnEvent handler that ends in pushSubscriptionToAdmins,
\* the one whose handler only notifies, the one nobody listens to, and the
\* direct call of sendPushToRole by POST /push-notify/send-admins.
Pushing == {"ROOM_CAPACITY_EXCEEDED", "UNAUTHORIZED_ACCESS",
            "VEHICLE_UNAUTHORIZED_ACCESS", "ROOM_OCCUPANCY_VERIFICATION_SUGGESTED"}
Handled == Pushing \cup {"FREQUENT_GATE_ACCESS_FOR_OTHERS"}
Topics == Handled \cup {"GATE_LEFT_OPEN", "SEND_ADMINS"}

ASSUME ActorsAssumption ==
    /\ Deliveries \cap Readers = {}
    /\ Deliveries \cap Subscribers = {}
    /\ Readers \cap Subscribers = {}
ASSUME AccountsAssumption == Admins \subseteq Accounts /\ None \notin Accounts
ASSUME PublishedAssumption == Published \subseteq Topics

Actors == Deliveries \cup Readers \cup Subscribers
DeliverySteps ==
    {"admins", "receivers", "notification", "rows", "readBack", "subscriptions"}
RequestSteps == {"account", "find", "update", "create"}

VARIABLES
    registered,    \* accounts
    notification,  \* notifications: the deliveries that stored theirs
    row,           \* account_notifications, by delivery and account
    subscription,  \* push_subscriptions, by endpoint
    pc,            \* the await at which an actor stands
    topic,         \* the event of a delivery
    receivers,     \* the admins a delivery writes rows for
    emitted,       \* the accounts a delivery's rows were emitted to
    sending,       \* how far the push of a delivery to an endpoint is
    asked,         \* what a request asks for
    gone,          \* endpoints their browser has given up
    adminsAt,      \* history: the admins when the alert was published
    activeAt,      \* history: the active admin endpoints at that time
    failedSend,    \* history: deliveries with an error in sendNotificationToAdmins
    failedPush     \* history: deliveries with an error in sendPushToRole

tables == <<registered, notification, row, subscription>>
history == <<adminsAt, activeAt, failedSend, failedPush>>
vars == <<tables, pc, topic, receivers, emitted, sending, asked, gone, history>>

NoRow == [owner |-> None, status |-> "NONE"]
Subscription ==
    {NoRow} \cup [owner : Accounts, status : {"ACTIVE", "INACTIVE"}]
Nothing == [account |-> None]
Asked ==
    {Nothing} \cup [account : Accounts, delivery : Deliveries, addressee : Accounts]
              \cup [account : Accounts, endpoint : Endpoints]

TypeOK ==
    /\ registered \subseteq Accounts
    /\ notification \subseteq Deliveries
    /\ row \in [Deliveries -> [Accounts -> {"none", "unread", "read"}]]
    /\ subscription \in [Endpoints -> Subscription]
    /\ pc \in [Actors -> {"idle", "done", "refused", "dead"}
                            \cup DeliverySteps \cup RequestSteps]
    /\ topic \in [Deliveries -> Topics \cup {None}]
    /\ receivers \in [Deliveries -> SUBSET Accounts]
    /\ emitted \in [Deliveries -> SUBSET Accounts]
    /\ sending \in [Deliveries -> [Endpoints ->
                       {"none", "sending", "gone", "reached", "failed", "deactivated"}]]
    /\ asked \in [Readers \cup Subscribers -> Asked]
    /\ gone \subseteq Endpoints
    /\ adminsAt \in [Deliveries -> SUBSET Accounts]
    /\ activeAt \in [Deliveries -> SUBSET Endpoints]
    /\ failedSend \subseteq Deliveries
    /\ failedPush \subseteq Deliveries

Init ==
    /\ registered \in SUBSET Accounts
    /\ notification = {}
    /\ row = [d \in Deliveries |-> [a \in Accounts |-> "none"]]
    /\ subscription = [e \in Endpoints |-> NoRow]
    /\ pc = [x \in Actors |-> "idle"]
    /\ topic = [d \in Deliveries |-> None]
    /\ receivers = [d \in Deliveries |-> {}]
    /\ emitted = [d \in Deliveries |-> {}]
    /\ sending = [d \in Deliveries |-> [e \in Endpoints |-> "none"]]
    /\ asked = [x \in Readers \cup Subscribers |-> Nothing]
    /\ gone = {}
    /\ adminsAt = [d \in Deliveries |-> {}]
    /\ activeAt = [d \in Deliveries |-> {}]
    /\ failedSend = {}
    /\ failedPush = {}

-----------------------------------------------------------------------------

Goto(x, step) == pc' = [pc EXCEPT ![x] = step]

\* accountService.getAdmins; every account is created ACTIVE and stays so.
getAdmins == registered \cap Admins

\* The rows sendPushToRole selects.
ActiveEndpoints ==
    {e \in Endpoints : subscription[e].status = "ACTIVE" /\ subscription[e].owner \in Admins}

\* What follows sendNotificationToAdmins in the handler, whether it failed or not.
AfterSend(d) == IF topic[d] \in Pushing THEN "subscriptions" ELSE "done"

\* eventEmitter.emit with the handler up to its first query; without a listener
\* nothing happens.
Publish(d) ==
    /\ pc[d] = "idle"
    /\ \E t \in Published :
          /\ topic' = [topic EXCEPT ![d] = t]
          /\ Goto(d, CASE t \in Handled -> "admins"
                       [] t = "SEND_ADMINS" -> "subscriptions"
                       [] t = "GATE_LEFT_OPEN" -> "done")
    /\ adminsAt' = [adminsAt EXCEPT ![d] = getAdmins]
    /\ activeAt' = [activeAt EXCEPT ![d] = ActiveEndpoints]
    /\ UNCHANGED <<tables, receivers, emitted, sending, asked, gone, failedSend, failedPush>>

\* Mutation: findFirst in place of findMany.
QueryOneAdmin(d) ==
    /\ pc[d] = "admins"
    /\ \E a \in getAdmins : receivers' = [receivers EXCEPT ![d] = {a}]
    /\ Goto(d, "receivers")
    /\ UNCHANGED <<tables, topic, emitted, sending, asked, gone, history>>

\* getAdmins; without admins nothing is created.
QueryAdmins(d) ==
    /\ pc[d] = "admins"
    /\ receivers' = [receivers EXCEPT ![d] = getAdmins]
    /\ Goto(d, IF getAdmins = {} THEN AfterSend(d) ELSE "receivers")
    /\ UNCHANGED <<tables, topic, emitted, sending, asked, gone, history>>

\* Mutation: the test of receivers.length is negated.
NegatedReceivers(d) ==
    /\ pc[d] = "receivers"
    /\ receivers' = [receivers EXCEPT ![d] = @ \cap registered]
    /\ Goto(d, IF receivers'[d] = {} THEN "notification" ELSE AfterSend(d))
    /\ UNCHANGED <<tables, topic, emitted, sending, asked, gone, history>>

\* create: the accounts with these ids.
QueryReceivers(d) ==
    /\ pc[d] = "receivers"
    /\ receivers' = [receivers EXCEPT ![d] = @ \cap registered]
    /\ Goto(d, IF receivers'[d] = {} THEN AfterSend(d) ELSE "notification")
    /\ UNCHANGED <<tables, topic, emitted, sending, asked, gone, history>>

\* Mutation: the sockets are told as soon as the notification is stored.
EmitAtOnce(d) ==
    /\ pc[d] = "notification"
    /\ notification' = notification \cup {d}
    /\ emitted' = [emitted EXCEPT ![d] = receivers[d]]
    /\ Goto(d, "rows")
    /\ UNCHANGED <<registered, row, subscription, topic, receivers, sending, asked, gone,
                   history>>

CreateNotification(d) ==
    /\ pc[d] = "notification"
    /\ notification' = notification \cup {d}
    /\ Goto(d, "rows")
    /\ UNCHANGED <<registered, row, subscription, topic, receivers, emitted, sending,
                   asked, gone, history>>

\* Mutation: a create per admin, in a loop.
CreateRowsOneByOne(d) ==
    /\ pc[d] = "rows"
    /\ \E a \in receivers[d] :
          /\ row[d][a] = "none"
          /\ row' = [row EXCEPT ![d][a] = "unread"]
          /\ Goto(d, IF \A b \in receivers[d] : row'[d][b] # "none"
                     THEN "readBack" ELSE "rows")
    /\ UNCHANGED <<registered, notification, subscription, topic, receivers, emitted,
                   sending, asked, gone, history>>

\* accountNotification.createMany
CreateRows(d) ==
    /\ pc[d] = "rows"
    /\ row' = [row EXCEPT ![d] = [a \in Accounts |->
                  IF a \in receivers[d] THEN "unread" ELSE @[a]]]
    /\ Goto(d, "readBack")
    /\ UNCHANGED <<registered, notification, subscription, topic, receivers, emitted,
                   sending, asked, gone, history>>

\* The rows are read back and each is emitted to its account.
ReadBack(d) ==
    /\ pc[d] = "readBack"
    /\ emitted' = [emitted EXCEPT ![d] = {a \in Accounts : row[d][a] # "none"}]
    /\ Goto(d, AfterSend(d))
    /\ UNCHANGED <<tables, topic, receivers, sending, asked, gone, history>>

\* Mutation: the error is not caught and ends the handler.
RejectHandler(d) ==
    /\ pc[d] \in DeliverySteps \ {"subscriptions"}
    /\ failedSend' = failedSend \cup {d}
    /\ Goto(d, "done")
    /\ UNCHANGED <<tables, topic, receivers, emitted, sending, asked, gone, adminsAt,
                   activeAt, failedPush>>

\* A query of sendNotificationToAdmins rejects: the error is caught there.
FailSend(d) ==
    /\ pc[d] \in DeliverySteps \ {"subscriptions"}
    /\ failedSend' = failedSend \cup {d}
    /\ Goto(d, AfterSend(d))
    /\ UNCHANGED <<tables, topic, receivers, emitted, sending, asked, gone, adminsAt,
                   activeAt, failedPush>>

-----------------------------------------------------------------------------

\* sendPushToRole: all selected endpoints are sent to at once; nothing else waits
\* for the delivery after that.
QuerySubscriptions(d) ==
    /\ pc[d] = "subscriptions"
    /\ sending' = [sending EXCEPT ![d] = [e \in Endpoints |->
                      IF e \in ActiveEndpoints THEN "sending" ELSE "none"]]
    /\ Goto(d, "done")
    /\ UNCHANGED <<tables, topic, receivers, emitted, asked, gone, history>>

FailSubscriptions(d) ==
    /\ pc[d] = "subscriptions"
    /\ failedPush' = failedPush \cup {d}
    /\ Goto(d, "done")
    /\ UNCHANGED <<tables, topic, receivers, emitted, sending, asked, gone, adminsAt,
                   activeAt, failedSend>>

SetSending(d, e, how) == sending' = [sending EXCEPT ![d][e] = how]

\* The push service accepts the message.
PushReaches(d, e) ==
    /\ sending[d][e] = "sending"
    /\ e \notin gone
    /\ SetSending(d, e, "reached")
    /\ UNCHANGED <<tables, pc, topic, receivers, emitted, asked, gone, history>>

\* It answers 404 or 410: the row is to be deactivated.
PushGone(d, e) ==
    /\ sending[d][e] = "sending"
    /\ e \in gone
    /\ SetSending(d, e, "gone")
    /\ UNCHANGED <<tables, pc, topic, receivers, emitted, asked, gone, history>>

\* Mutation: every error deactivates the subscription.
AnyErrorIsGone(d, e) ==
    /\ sending[d][e] = "sending"
    /\ SetSending(d, e, "gone")
    /\ UNCHANGED <<tables, pc, topic, receivers, emitted, asked, gone, history>>

\* Any other error is logged.
PushFails(d, e) ==
    /\ sending[d][e] = "sending"
    /\ SetSending(d, e, "failed")
    /\ UNCHANGED <<tables, pc, topic, receivers, emitted, asked, gone, history>>

\* Mutation: the status of the log line, which the enum does not have.
DeactivateMisspelt(d, e) ==
    /\ sending[d][e] = "gone"
    /\ subscription' = [subscription EXCEPT ![e].status = "DEACTIVE"]
    /\ SetSending(d, e, "deactivated")
    /\ UNCHANGED <<registered, notification, row, pc, topic, receivers, emitted, asked,
                   gone, history>>

\* pushSubscription.update of the row.
Deactivate(d, e) ==
    /\ sending[d][e] = "gone"
    /\ \/ /\ subscription' = [subscription EXCEPT ![e].status = "INACTIVE"]
          /\ SetSending(d, e, "deactivated")
       \/ /\ SetSending(d, e, "failed")  \* the update rejects
          /\ UNCHANGED subscription
    /\ UNCHANGED <<registered, notification, row, pc, topic, receivers, emitted, asked,
                   gone, history>>

-----------------------------------------------------------------------------

\* markAsRead(notifyId, user)
AskToRead(r) ==
    /\ pc[r] = "idle"
    /\ \E a \in Accounts, d \in Deliveries, b \in Accounts :
          asked' = [asked EXCEPT ![r] = [account |-> a, delivery |-> d, addressee |-> b]]
    /\ Goto(r, "account")
    /\ UNCHANGED <<tables, topic, receivers, emitted, sending, gone, history>>

AskedRow(r) == row[asked[r].delivery][asked[r].addressee]

\* Mutation: the owner of the row is not checked.
FindAnyRow(r) ==
    /\ r \in Readers
    /\ pc[r] = "find"
    /\ Goto(r, CASE AskedRow(r) = "none" -> "refused"
                 [] AskedRow(r) = "read" -> "done"
                 [] AskedRow(r) = "unread" -> "update")
    /\ UNCHANGED <<tables, topic, receivers, emitted, sending, asked, gone, history>>

\* findUnique of the row and the checks that follow it.
FindRow(r) ==
    /\ r \in Readers
    /\ pc[r] = "find"
    /\ Goto(r, IF AskedRow(r) = "none" \/ asked[r].addressee # asked[r].account
               THEN "refused"
               ELSE IF AskedRow(r) = "read" THEN "done" ELSE "update")
    /\ UNCHANGED <<tables, topic, receivers, emitted, sending, asked, gone, history>>

UpdateRow(r) ==
    /\ pc[r] = "update"
    /\ row' = [row EXCEPT ![asked[r].delivery][asked[r].addressee] = "read"]
    /\ Goto(r, "done")
    /\ UNCHANGED <<registered, notification, subscription, topic, receivers, emitted,
                   sending, asked, gone, history>>

\* handleSubscribe(currentUser, subscription)
AskToSubscribe(s) ==
    /\ pc[s] = "idle"
    /\ \E a \in Accounts, e \in Endpoints \ gone :
          asked' = [asked EXCEPT ![s] = [account |-> a, endpoint |-> e]]
    /\ Goto(s, "account")
    /\ UNCHANGED <<tables, topic, receivers, emitted, sending, gone, history>>

\* Both requests begin with account.findUnique of the token's user.
FindAccount(x) ==
    /\ pc[x] = "account"
    /\ Goto(x, IF asked[x].account \in registered THEN "find" ELSE "refused")
    /\ UNCHANGED <<tables, topic, receivers, emitted, sending, asked, gone, history>>

\* A known endpoint is left as it is, whoever asks.
FindSubscription(s) ==
    /\ s \in Subscribers
    /\ pc[s] = "find"
    /\ Goto(s, IF subscription[asked[s].endpoint] = NoRow THEN "create" ELSE "done")
    /\ UNCHANGED <<tables, topic, receivers, emitted, sending, asked, gone, history>>

\* Mutation: upsert in place of create.
UpsertSubscription(s) ==
    /\ pc[s] = "create"
    /\ subscription' = [subscription EXCEPT ![asked[s].endpoint] =
                           [owner |-> asked[s].account, status |-> "ACTIVE"]]
    /\ Goto(s, "done")
    /\ UNCHANGED <<registered, notification, row, topic, receivers, emitted, sending,
                   asked, gone, history>>

\* pushSubscription.create; endpoint is unique and the second create rejects.
CreateSubscription(s) ==
    /\ pc[s] = "create"
    /\ LET e == asked[s].endpoint IN
       \/ /\ subscription[e] = NoRow
          /\ subscription' = [subscription EXCEPT ![e] =
                                 [owner |-> asked[s].account, status |-> "ACTIVE"]]
          /\ Goto(s, "done")
       \/ /\ subscription[e] # NoRow
          /\ Goto(s, "refused")
          /\ UNCHANGED subscription
    /\ UNCHANGED <<registered, notification, row, topic, receivers, emitted, sending,
                   asked, gone, history>>

\* A query of a request rejects: the client gets an error.
FailRequest(x) ==
    /\ x \in Readers \cup Subscribers
    /\ pc[x] \in RequestSteps
    /\ Goto(x, "refused")
    /\ UNCHANGED <<tables, topic, receivers, emitted, sending, asked, gone, history>>

-----------------------------------------------------------------------------

\* AccountService.create
CreateAccount(a) ==
    /\ a \notin registered
    /\ registered' = registered \cup {a}
    /\ UNCHANGED <<notification, row, subscription, pc, topic, receivers, emitted,
                   sending, asked, gone, history>>

\* A browser gives its endpoint up; the server is not told.
GiveUp(e) ==
    /\ subscription[e] # NoRow
    /\ e \notin gone
    /\ gone' = gone \cup {e}
    /\ UNCHANGED <<tables, pc, topic, receivers, emitted, sending, asked, history>>

\* The process restarts: whatever was in flight is forgotten, the tables stay.
Restart ==
    /\ \/ \E x \in Actors : pc[x] \in DeliverySteps \cup RequestSteps
       \/ \E d \in Deliveries, e \in Endpoints : sending[d][e] \in {"sending", "gone"}
    /\ pc' = [x \in Actors |->
                 IF pc[x] \in DeliverySteps \cup RequestSteps THEN "dead" ELSE pc[x]]
    /\ sending' = [d \in Deliveries |-> [e \in Endpoints |->
                 IF sending[d][e] \in {"sending", "gone"} THEN "failed" ELSE sending[d][e]]]
    /\ UNCHANGED <<tables, topic, receivers, emitted, asked, gone, history>>

\* Nothing is in flight: the server may stay as it is.
Quiet ==
    /\ \A x \in Actors : pc[x] \notin DeliverySteps \cup RequestSteps
    /\ \A d \in Deliveries, e \in Endpoints : sending[d][e] \notin {"sending", "gone"}
    /\ UNCHANGED vars

Deliver(d) ==
    \/ QueryAdmins(d) \/ QueryReceivers(d) \/ CreateNotification(d) \/ CreateRows(d)
    \/ ReadBack(d) \/ FailSend(d) \/ QuerySubscriptions(d) \/ FailSubscriptions(d)

Push(d, e) ==
    PushReaches(d, e) \/ PushGone(d, e) \/ PushFails(d, e) \/ Deactivate(d, e)

Request(x) ==
    \/ FindAccount(x) \/ FindRow(x) \/ UpdateRow(x)
    \/ FindSubscription(x) \/ CreateSubscription(x) \/ FailRequest(x)

Next ==
    \/ \E d \in Deliveries : Publish(d) \/ Deliver(d)
    \/ \E d \in Deliveries, e \in Endpoints : Push(d, e)
    \/ \E r \in Readers : AskToRead(r) \/ Request(r)
    \/ \E s \in Subscribers : AskToSubscribe(s) \/ Request(s)
    \/ \E a \in Accounts : CreateAccount(a)
    \/ \E e \in Endpoints : GiveUp(e)
    \/ Restart
    \/ Quiet

Spec == Init /\ [][Next]_vars

\* Node resumes a handler whose query has settled, by an answer or by an error.
FairSpec == Spec /\ \A d \in Deliveries : WF_vars(Deliver(d))

-----------------------------------------------------------------------------

\* What a socket is told of can be found again: emissions only concern rows
\* that are stored, whatever failed before or after.
EmittedHasRow ==
    \A d \in Deliveries : \A a \in emitted[d] : d \in notification /\ row[d][a] # "none"

\* A delivery that ran through leaves nobody out: each account that was an admin
\* when the alert was published has the row and was told of it.  Only an error
\* or a restart can lose it, or leave it half stored.
AdminsInformed ==
    \A d \in Deliveries :
        topic[d] \in Handled /\ pc[d] \in {"subscriptions", "done"} /\ d \notin failedSend
            => \A a \in adminsAt[d] : row[d][a] # "none" /\ a \in emitted[d]

\* The push does not depend on the rest: if storing the notification failed, each
\* endpoint that was active when the alert was published is still sent to, unless
\* it was deactivated meanwhile.
ActiveEndpointsTried ==
    \A d \in Deliveries :
        topic[d] \in Pushing \cup {"SEND_ADMINS"} /\ pc[d] = "done" /\ d \notin failedPush
            => \A e \in activeAt[d] :
                  sending[d][e] # "none" \/ subscription[e].status = "INACTIVE"

\* A subscription is deactivated for good, so it must not happen to an endpoint
\* that can still be reached.
DeactivatedOnlyWhenGone ==
    \A e \in Endpoints : subscription[e].status = "INACTIVE" => e \in gone

\* The fan-out implements the inboxes: no interleaving of deliveries, readers, errors
\* and restarts leaves an alert with some of its receivers only, tells a socket of an
\* alert that its user cannot find, or tells it twice.
Inbox == INSTANCE Inboxes WITH
    Alerts <- Deliveries, Users <- Accounts, inbox <- row, told <- emitted
KeepsInboxes == Inbox!Spec

\* Only the account a row belongs to marks it as read, and it stays read.
ReadByItsOwner ==
    [][\A d \in Deliveries, a \in Accounts :
          row[d][a] # "none" /\ row'[d][a] # row[d][a]
              => /\ row'[d][a] = "read"
                 /\ \E r \in Readers : pc[r] = "update" /\ asked[r].account = a]_vars

\* Whatever requests race for one endpoint, its first owner keeps it.
FirstOwnerKeepsEndpoint ==
    [][\A e \in Endpoints :
          subscription[e] # NoRow => subscription'[e].owner = subscription[e].owner]_vars

\* A handled alert reaches the rows of all admins of its time, unless a query
\* fails or the process restarts.
AlertsReachInboxes ==
    \A d \in Deliveries :
        pc[d] = "admins" ~> \/ \A a \in adminsAt[d] : row[d][a] # "none"
                            \/ d \in failedSend
                            \/ pc[d] = "dead"

\* What the titles say: every alert that is published becomes a notification of
\* the admins, the one of a gate left open too (notification-title.enum.ts).
EveryAlertInformsAdmins ==
    \A d \in Deliveries :
        topic[d] \in Topics \ {"SEND_ADMINS"} /\ pc[d] = "done" /\ d \notin failedSend
            => \A a \in adminsAt[d] : row[d][a] # "none"
=============================================================================
