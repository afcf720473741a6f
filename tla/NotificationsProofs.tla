------------------------- MODULE NotificationsProofs -------------------------
(***************************************************************************)
(* Alerts reach the admins, and subscriptions their first owner, for any   *)
(* number of deliveries, accounts, requests and endpoints.                 *)
(***************************************************************************)
EXTENDS Notifications, TLAPS

\* A delivery, a reader and a subscriber each keep to their own awaits, and a request
\* that has begun knows what it asks for.
Placed ==
    /\ \A d \in Deliveries : pc[d] \in {"idle", "done", "dead"} \cup DeliverySteps
    /\ \A r \in Readers :
          /\ pc[r] \in {"idle", "done", "refused", "dead", "account", "find", "update"}
          /\ pc[r] # "idle" =>
                asked[r] \in [account : Accounts, delivery : Deliveries, addressee : Accounts]
    /\ \A s \in Subscribers :
          /\ pc[s] \in {"idle", "done", "refused", "dead", "account", "find", "create"}
          /\ pc[s] # "idle" => asked[s] \in [account : Accounts, endpoint : Endpoints]

\* A push is only sent to an endpoint that has a row, which no code deletes.
Addressed ==
    \A d \in Deliveries, e \in Endpoints :
        sending[d][e] # "none" => subscription[e] # NoRow

\* Before createMany a delivery has no rows; every row has its notification.
Stored ==
    \A d \in Deliveries :
        /\ pc[d] \in {"idle", "admins", "receivers", "notification", "rows"} =>
              \A a \in Accounts : row[d][a] = "none"
        /\ pc[d] \in {"rows", "readBack"} => d \in notification
        /\ \A a \in Accounts : row[d][a] # "none" => d \in notification

\* A reader about to update was shown its own row.
OwnRow ==
    \A r \in Readers :
        pc[r] = "update" => AskedRow(r) # "none" /\ asked[r].addressee = asked[r].account

\* The admins of an alert are still in the list its handler holds.
OnTheirWay ==
    \A d \in Deliveries :
        /\ adminsAt[d] \subseteq registered \cap Admins
        /\ pc[d] \in DeliverySteps \ {"subscriptions"} => topic[d] \in Handled
        /\ d \notin failedSend =>
              /\ pc[d] \in {"receivers", "notification", "rows"} =>
                    adminsAt[d] \subseteq receivers[d]
              /\ pc[d] = "readBack" => \A a \in adminsAt[d] : row[d][a] # "none"

\* Rows of endpoints that were active stay, and so does what makes an endpoint gone.
Endpointed ==
    /\ \A d \in Deliveries : \A e \in activeAt[d] :
          subscription[e] # NoRow /\ subscription[e].owner \in Admins
    /\ \A d \in Deliveries, e \in Endpoints : sending[d][e] = "gone" => e \in gone

IInv ==
    /\ TypeOK /\ Placed /\ Addressed
    /\ Stored /\ OwnRow /\ EmittedHasRow
    /\ OnTheirWay /\ AdminsInformed
    /\ Endpointed /\ ActiveEndpointsTried /\ DeactivatedOnlyWhenGone

-----------------------------------------------------------------------------

\* How far the push of a delivery to an endpoint may be.
Pushes == {"none", "sending", "gone", "reached", "failed", "deactivated"}

\* Settling one push leaves the others as they were.
LEMMA OnePush ==
    ASSUME sending \in [Deliveries -> [Endpoints -> Pushes]],
           NEW d \in Deliveries, NEW e \in Endpoints, NEW how \in Pushes,
           SetSending(d, e, how)
    PROVE  /\ sending' \in [Deliveries -> [Endpoints -> Pushes]]
           /\ sending'[d][e] = how
           /\ \A c \in Deliveries, f \in Endpoints :
                 c # d \/ f # e => sending'[c][f] = sending[c][f]
  BY DEF SetSending

\* Deactivating the row of an endpoint changes its status and no other row.
LEMMA OneDeactivation ==
    ASSUME subscription \in [Endpoints -> Subscription], NEW e \in Endpoints,
           subscription[e] # NoRow,
           subscription' = [subscription EXCEPT ![e].status = "INACTIVE"]
    PROVE  /\ subscription' \in [Endpoints -> Subscription]
           /\ subscription'[e] # NoRow
           /\ subscription'[e].owner = subscription[e].owner
           /\ subscription'[e].status = "INACTIVE"
           /\ \A f \in Endpoints \ {e} : subscription'[f] = subscription[f]
  <1>1. subscription[e] \in [owner : Accounts, status : {"ACTIVE", "INACTIVE"}]
    BY DEF Subscription
  <1>2. subscription'[e] = [owner |-> subscription[e].owner, status |-> "INACTIVE"]
    BY <1>1
  <1>3. subscription[e].owner # None BY <1>1, AccountsAssumption
  <1> QED BY <1>1, <1>2, <1>3 DEF Subscription, NoRow

\* A publication starts the handler of its topic, if it has one.
LEMMA PublishStep ==
    ASSUME NEW d \in Deliveries, Publish(d)
    PROVE  \E t \in Topics, step \in {"admins", "subscriptions", "done"} :
              /\ topic' = [topic EXCEPT ![d] = t]
              /\ pc' = [pc EXCEPT ![d] = step]
              /\ step = "admins" <=> t \in Handled
              /\ step = "done" => t = "GATE_LEFT_OPEN"
  <1>1. PICK t \in Published :
          /\ topic' = [topic EXCEPT ![d] = t]
          /\ pc' = [pc EXCEPT ![d] = CASE t \in Handled -> "admins"
                                        [] t = "SEND_ADMINS" -> "subscriptions"
                                        [] t = "GATE_LEFT_OPEN" -> "done"]
    BY DEF Publish, Goto
  <1>2. t \in Topics BY PublishedAssumption
  <1>3. CASE t \in Handled
    <2>1. t # "SEND_ADMINS" /\ t # "GATE_LEFT_OPEN" BY <1>3 DEF Handled, Pushing
    <2> QED BY <1>1, <1>2, <1>3, <2>1
  <1>4. CASE t = "SEND_ADMINS"
    <2>1. t \notin Handled BY <1>4 DEF Handled, Pushing
    <2> QED BY <1>1, <1>2, <1>4, <2>1
  <1>5. CASE t = "GATE_LEFT_OPEN"
    <2>1. t \notin Handled BY <1>5 DEF Handled, Pushing
    <2> QED BY <1>1, <1>2, <1>5, <2>1
  <1> QED BY <1>2, <1>3, <1>4, <1>5 DEF Topics

\* An endpoint to which a push is on its way has a row, so settling it may only
\* deactivate one.
LEMMA PushDeactivates ==
    ASSUME TypeOK, Addressed, NEW d \in Deliveries, NEW e \in Endpoints, Push(d, e)
    PROVE  /\ subscription' \in [Endpoints -> Subscription]
           /\ \A f \in Endpoints : subscription[f] # NoRow =>
                 /\ subscription'[f] # NoRow
                 /\ subscription'[f].owner = subscription[f].owner
                 /\ subscription[f].status = "INACTIVE" => subscription'[f].status = "INACTIVE"
           /\ \A f \in Endpoints :
                 subscription'[f].status = "INACTIVE" =>
                    \/ subscription[f].status = "INACTIVE"
                    \/ f = e /\ sending[d][e] = "gone"
  <1>1. CASE subscription' = subscription BY <1>1 DEF TypeOK
  <1>2. CASE /\ subscription' = [subscription EXCEPT ![e].status = "INACTIVE"]
             /\ sending[d][e] = "gone"
    <2>1. subscription[e] # NoRow BY <1>2 DEF Addressed
    <2> QED BY <1>2, <2>1, OneDeactivation DEF TypeOK
  <1> QED BY <1>1, <1>2 DEF Push, PushReaches, PushGone, PushFails, Deactivate, tables

\* The tables, locals and histories keep their types and every actor its place.
LEMMA TypeNext ==
    ASSUME TypeOK, Placed, Addressed, [Next]_vars
    PROVE  TypeOK' /\ Placed'
  <1> USE ActorsAssumption, AccountsAssumption, PublishedAssumption
      DEF TypeOK, Placed, Actors, DeliverySteps, RequestSteps, Goto, tables, history
  <1>1. ASSUME NEW d \in Deliveries, Publish(d) PROVE TypeOK' /\ Placed'
    <2>1. PICK t \in Topics, step \in {"admins", "subscriptions", "done"} :
            topic' = [topic EXCEPT ![d] = t] /\ pc' = [pc EXCEPT ![d] = step]
      BY <1>1, PublishStep
    <2>2. getAdmins \subseteq Accounts /\ ActiveEndpoints \subseteq Endpoints
      BY DEF getAdmins, ActiveEndpoints
    <2>3. /\ adminsAt' = [adminsAt EXCEPT ![d] = getAdmins]
          /\ activeAt' = [activeAt EXCEPT ![d] = ActiveEndpoints]
          /\ UNCHANGED <<tables, receivers, emitted, sending, asked, gone, failedSend,
                         failedPush>>
      BY <1>1 DEF Publish
    <2>4. TypeOK' BY <2>1, <2>2, <2>3
    <2>5. Placed' BY <2>1, <2>3
    <2> QED BY <2>4, <2>5
  <1>2. ASSUME NEW d \in Deliveries, QueryAdmins(d) PROVE TypeOK' /\ Placed'
    BY <1>2 DEF QueryAdmins, AfterSend, getAdmins
  <1>3. ASSUME NEW d \in Deliveries, QueryReceivers(d) PROVE TypeOK' /\ Placed'
    BY <1>3 DEF QueryReceivers, AfterSend
  <1>4. ASSUME NEW d \in Deliveries, CreateNotification(d) PROVE TypeOK' /\ Placed'
    BY <1>4 DEF CreateNotification
  <1>5. ASSUME NEW d \in Deliveries, CreateRows(d) PROVE TypeOK' /\ Placed'
    BY <1>5 DEF CreateRows
  <1>6. ASSUME NEW d \in Deliveries, ReadBack(d) PROVE TypeOK' /\ Placed'
    BY <1>6 DEF ReadBack, AfterSend
  <1>7. ASSUME NEW d \in Deliveries, FailSend(d) PROVE TypeOK' /\ Placed'
    BY <1>7 DEF FailSend, AfterSend
  <1>8. ASSUME NEW d \in Deliveries, QuerySubscriptions(d) PROVE TypeOK' /\ Placed'
    BY <1>8 DEF QuerySubscriptions
  <1>9. ASSUME NEW d \in Deliveries, FailSubscriptions(d) PROVE TypeOK' /\ Placed'
    BY <1>9 DEF FailSubscriptions
  <1>10. ASSUME NEW d \in Deliveries, NEW e \in Endpoints, Push(d, e)
         PROVE  TypeOK' /\ Placed'
    <2>1. \E how \in Pushes : SetSending(d, e, how)
      BY <1>10 DEF Push, PushReaches, PushGone, PushFails, Deactivate, Pushes
    <2>2. sending' \in [Deliveries -> [Endpoints -> Pushes]]
      BY <2>1, OnePush DEF Pushes
    <2>3. subscription' \in [Endpoints -> Subscription]
      BY <1>10, PushDeactivates
    <2>4. UNCHANGED <<registered, notification, row, pc, topic, receivers, emitted, asked,
                      gone, history>>
      BY <1>10 DEF Push, PushReaches, PushGone, PushFails, Deactivate
    <2> QED BY <2>2, <2>3, <2>4 DEF Pushes
  <1>11. ASSUME NEW r \in Readers, AskToRead(r) PROVE TypeOK' /\ Placed'
    BY <1>11 DEF AskToRead, Asked
  <1>12. ASSUME NEW s \in Subscribers, AskToSubscribe(s) PROVE TypeOK' /\ Placed'
    BY <1>12 DEF AskToSubscribe, Asked
  <1>13. ASSUME NEW x \in Readers \cup Subscribers, FindAccount(x) PROVE TypeOK' /\ Placed'
    BY <1>13 DEF FindAccount
  <1>14. ASSUME NEW x \in Readers \cup Subscribers, FindRow(x) PROVE TypeOK' /\ Placed'
    BY <1>14 DEF FindRow
  <1>15. ASSUME NEW x \in Readers \cup Subscribers, UpdateRow(x) PROVE TypeOK' /\ Placed'
    BY <1>15 DEF UpdateRow
  <1>16. ASSUME NEW x \in Readers \cup Subscribers, FindSubscription(x)
         PROVE  TypeOK' /\ Placed'
    BY <1>16 DEF FindSubscription
  <1>17. ASSUME NEW x \in Readers \cup Subscribers, CreateSubscription(x)
         PROVE  TypeOK' /\ Placed'
    <2>1. asked[x].account \in Accounts /\ asked[x].endpoint \in Endpoints
      BY <1>17 DEF CreateSubscription
    <2>2. subscription' \in [Endpoints -> Subscription]
      BY <1>17, <2>1 DEF CreateSubscription, Subscription
    <2>3. PICK step \in {"done", "refused"} : pc[x] = "create" /\ pc' = [pc EXCEPT ![x] = step]
      BY <1>17 DEF CreateSubscription
    <2>4. UNCHANGED <<registered, notification, row, topic, receivers, emitted, sending,
                      asked, gone, history>>
      BY <1>17 DEF CreateSubscription
    <2>5. TypeOK' BY <2>2, <2>3, <2>4
    <2>6. Placed' BY <2>3, <2>4
    <2> QED BY <2>5, <2>6
  <1>18. ASSUME NEW x \in Readers \cup Subscribers, FailRequest(x) PROVE TypeOK' /\ Placed'
    BY <1>18 DEF FailRequest
  <1>19. ASSUME NEW a \in Accounts, CreateAccount(a) PROVE TypeOK' /\ Placed'
    BY <1>19 DEF CreateAccount
  <1>20. ASSUME NEW e \in Endpoints, GiveUp(e) PROVE TypeOK' /\ Placed'
    BY <1>20 DEF GiveUp
  <1>21. ASSUME Restart PROVE TypeOK' /\ Placed'
    BY <1>21 DEF Restart
  <1>22. CASE UNCHANGED vars
    BY <1>22 DEF vars
  <1> QED
    BY <1>1, <1>2, <1>3, <1>4, <1>5, <1>6, <1>7, <1>8, <1>9, <1>10, <1>11, <1>12, <1>13,
       <1>14, <1>15, <1>16, <1>17, <1>18, <1>19, <1>20, <1>21, <1>22
       DEF Next, Deliver, Request, Quiet

\* Nothing deletes a row of push_subscriptions, and none is sent to before it is there.
LEMMA AddressedNext ==
    ASSUME TypeOK, Placed, Addressed, [Next]_vars
    PROVE  Addressed'
  <1>1. ASSUME NEW d \in Deliveries, QuerySubscriptions(d) PROVE Addressed'
    <2>1. \A e \in ActiveEndpoints : subscription[e] # NoRow
      BY DEF ActiveEndpoints, NoRow
    <2>2. /\ sending' = [sending EXCEPT ![d] = [e \in Endpoints |->
                            IF e \in ActiveEndpoints THEN "sending" ELSE "none"]]
          /\ subscription' = subscription
      BY <1>1 DEF QuerySubscriptions, tables
    <2> QED BY <2>1, <2>2 DEF Addressed, TypeOK
  <1>2. ASSUME NEW d \in Deliveries, NEW e \in Endpoints, Push(d, e) PROVE Addressed'
    <2>1. \E how \in Pushes : SetSending(d, e, how)
      BY <1>2 DEF Push, PushReaches, PushGone, PushFails, Deactivate, Pushes
    <2>2. sending[d][e] # "none"
      BY <1>2 DEF Push, PushReaches, PushGone, PushFails, Deactivate
    <2>3. \A f \in Endpoints : subscription[f] # NoRow => subscription'[f] # NoRow
      BY <1>2, PushDeactivates
    <2>4. \A c \in Deliveries, f \in Endpoints :
             sending'[c][f] # "none" => sending[c][f] # "none"
      <3>1. sending \in [Deliveries -> [Endpoints -> Pushes]] BY DEF TypeOK, Pushes
      <3>2. \A c \in Deliveries, f \in Endpoints :
               c # d \/ f # e => sending'[c][f] = sending[c][f]
        BY <2>1, <3>1, OnePush
      <3> QED BY <2>2, <3>2
    <2> QED BY <2>3, <2>4 DEF Addressed
  <1>3. ASSUME NEW s \in Readers \cup Subscribers, CreateSubscription(s) PROVE Addressed'
    <2>1. asked[s].account \in Accounts /\ asked[s].endpoint \in Endpoints
      BY <1>3, ActorsAssumption DEF CreateSubscription, Placed
    <2>2. [owner |-> asked[s].account, status |-> "ACTIVE"] # NoRow
      BY DEF NoRow
    <2> QED BY <1>3, <2>1, <2>2 DEF CreateSubscription, Addressed, TypeOK
  <1>4. ASSUME Restart PROVE Addressed'
    BY <1>4 DEF Restart, Addressed, TypeOK, tables
  <1>5. CASE UNCHANGED <<sending, subscription>>
    BY <1>5 DEF Addressed
  <1> QED
    BY <1>1, <1>2, <1>3, <1>4, <1>5
       DEF Next, Deliver, Request, Quiet, vars, tables, Publish, QueryAdmins, QueryReceivers,
           CreateNotification, CreateRows, ReadBack, FailSend, FailSubscriptions, AskToRead,
           AskToSubscribe, FindAccount, FindRow, UpdateRow, FindSubscription, FailRequest,
           CreateAccount, GiveUp

-----------------------------------------------------------------------------

\* Rows are written once, after their notification, and by nobody else but the reader
\* they belong to; sockets are told of stored rows only.
LEMMA StoredNext ==
    ASSUME TypeOK, Placed, Stored, OwnRow, EmittedHasRow, [Next]_vars
    PROVE  Stored' /\ OwnRow' /\ EmittedHasRow'
  <1> DEFINE Kept == Stored' /\ OwnRow' /\ EmittedHasRow'
  <1> USE ActorsAssumption
      DEF TypeOK, Placed, Stored, OwnRow, EmittedHasRow, AskedRow, Actors, DeliverySteps,
          RequestSteps, Goto, tables, AfterSend
  <1>1. ASSUME NEW d \in Deliveries, Publish(d) PROVE Kept
    <2>1. PICK step \in {"admins", "subscriptions", "done"} : pc' = [pc EXCEPT ![d] = step]
      BY <1>1, PublishStep
    <2>2. pc[d] = "idle" /\ UNCHANGED <<notification, row, emitted, asked>>
      BY <1>1 DEF Publish
    <2> QED BY <2>1, <2>2
  <1>2. ASSUME NEW d \in Deliveries, QueryAdmins(d) PROVE Kept
    BY <1>2 DEF QueryAdmins
  <1>3. ASSUME NEW d \in Deliveries, QueryReceivers(d) PROVE Kept
    BY <1>3 DEF QueryReceivers
  <1>4. ASSUME NEW d \in Deliveries, CreateNotification(d) PROVE Kept
    BY <1>4 DEF CreateNotification
  <1>5. ASSUME NEW d \in Deliveries, CreateRows(d) PROVE Kept
    <2>1. /\ pc[d] = "rows" /\ pc' = [pc EXCEPT ![d] = "readBack"]
          /\ UNCHANGED <<notification, emitted, asked>>
          /\ row' = [row EXCEPT ![d] = [a \in Accounts |->
                        IF a \in receivers[d] THEN "unread" ELSE row[d][a]]]
      BY <1>5 DEF CreateRows
    <2>2. \A a \in Accounts : row'[d][a] = IF a \in receivers[d] THEN "unread" ELSE row[d][a]
      BY <2>1
    <2>3. \A c \in Deliveries \ {d} : row'[c] = row[c] BY <2>1
    <2>4. \A c \in Deliveries, a \in Accounts : row[c][a] # "none" => row'[c][a] # "none"
      <3>1. \A a \in Accounts : row[d][a] = "none" BY <2>1
      <3> QED BY <2>3, <3>1
    <2>5. Stored' BY <2>1, <2>2, <2>3
    <2>6. OwnRow' BY <2>1, <2>4
    <2>7. EmittedHasRow' BY <2>1, <2>4
    <2> QED BY <2>5, <2>6, <2>7
  <1>6. ASSUME NEW d \in Deliveries, ReadBack(d) PROVE Kept
    BY <1>6 DEF ReadBack
  <1>7. ASSUME NEW d \in Deliveries, FailSend(d) PROVE Kept
    BY <1>7 DEF FailSend
  <1>8. ASSUME NEW d \in Deliveries, QuerySubscriptions(d) PROVE Kept
    BY <1>8 DEF QuerySubscriptions
  <1>9. ASSUME NEW d \in Deliveries, FailSubscriptions(d) PROVE Kept
    BY <1>9 DEF FailSubscriptions
  <1>10. ASSUME NEW d \in Deliveries, NEW e \in Endpoints, Push(d, e) PROVE Kept
    BY <1>10 DEF Push, PushReaches, PushGone, PushFails, Deactivate
  <1>11. ASSUME NEW r \in Readers, AskToRead(r) PROVE Kept
    <2>1. /\ \A x \in Readers \ {r} : asked'[x] = asked[x] /\ pc'[x] = pc[x]
          /\ pc'[r] = "account"
          /\ \A d \in Deliveries : pc'[d] = pc[d]
          /\ UNCHANGED <<notification, row, emitted>>
      BY <1>11 DEF AskToRead
    <2>2. Stored' BY <2>1
    <2>3. EmittedHasRow' BY <2>1
    <2>4. ASSUME NEW x \in Readers, pc'[x] = "update"
          PROVE  AskedRow(x)' # "none" /\ asked'[x].addressee = asked'[x].account
      <3>1. asked'[x] = asked[x] /\ pc[x] = "update" BY <2>1, <2>4
      <3> QED BY <2>1, <3>1
    <2>5. OwnRow' BY <2>4
    <2> QED BY <2>2, <2>3, <2>5
  <1>12. ASSUME NEW s \in Subscribers, AskToSubscribe(s) PROVE Kept
    <2>1. /\ \A x \in Readers : asked'[x] = asked[x] /\ pc'[x] = pc[x]
          /\ \A d \in Deliveries : pc'[d] = pc[d]
          /\ UNCHANGED <<notification, row, emitted>>
      BY <1>12 DEF AskToSubscribe
    <2> QED BY <2>1
  <1>13. ASSUME NEW x \in Readers \cup Subscribers,
                FindAccount(x) \/ FindSubscription(x) \/ CreateSubscription(x) \/ FailRequest(x)
         PROVE  Kept
    <2>1. /\ \A y \in Readers : pc'[y] = "update" => pc[y] = "update"
          /\ \A d \in Deliveries : pc'[d] = pc[d]
          /\ UNCHANGED <<notification, row, emitted, asked>>
      BY <1>13 DEF FindAccount, FindSubscription, CreateSubscription, FailRequest
    <2> QED BY <2>1
  <1>14. ASSUME NEW x \in Readers \cup Subscribers, FindRow(x) PROVE Kept
    BY <1>14 DEF FindRow
  <1>15. ASSUME NEW x \in Readers \cup Subscribers, UpdateRow(x) PROVE Kept
    <2>1. /\ x \in Readers /\ pc[x] = "update" /\ pc' = [pc EXCEPT ![x] = "done"]
          /\ UNCHANGED <<notification, emitted, asked>>
          /\ row' = [row EXCEPT ![asked[x].delivery][asked[x].addressee] = "read"]
      BY <1>15 DEF UpdateRow
    <2>2. /\ asked[x].delivery \in Deliveries /\ asked[x].addressee \in Accounts
          /\ row[asked[x].delivery][asked[x].addressee] # "none"
      BY <2>1
    <2>3. \A c \in Deliveries, a \in Accounts : row'[c][a] # "none" <=> row[c][a] # "none"
      BY <2>1, <2>2
    <2>4. \A d \in Deliveries : pc'[d] = pc[d] BY <2>1
    <2>5. Stored' BY <2>1, <2>3, <2>4
    <2>6. OwnRow' BY <2>1, <2>3
    <2>7. EmittedHasRow' BY <2>1, <2>3
    <2> QED BY <2>5, <2>6, <2>7
  <1>16. ASSUME Restart PROVE Kept
    <2>1. /\ \A x \in Actors : pc'[x] \in {pc[x], "dead"}
          /\ UNCHANGED <<notification, row, emitted, asked>>
      BY <1>16 DEF Restart
    <2> QED BY <2>1
  <1>17. CASE UNCHANGED <<pc, notification, row, emitted, asked>>
    BY <1>17
  <1> QED
    BY <1>1, <1>2, <1>3, <1>4, <1>5, <1>6, <1>7, <1>8, <1>9, <1>10, <1>11, <1>12, <1>13,
       <1>14, <1>15, <1>16, <1>17
       DEF Next, Deliver, Request, Quiet, vars, CreateAccount, GiveUp

-----------------------------------------------------------------------------

\* The handler of an alert carries the admins of its time from query to query.
LEMMA InformedNext ==
    ASSUME TypeOK, Placed, Stored, OwnRow, OnTheirWay, AdminsInformed, [Next]_vars
    PROVE  OnTheirWay' /\ AdminsInformed'
  <1> DEFINE Kept == OnTheirWay' /\ AdminsInformed'
  <1> USE ActorsAssumption
      DEF TypeOK, Placed, OnTheirWay, AdminsInformed, Actors, DeliverySteps, RequestSteps, Goto,
          tables, history
  <1>1. ASSUME NEW d \in Deliveries, Publish(d) PROVE Kept
    <2>1. PICK t \in Topics, step \in {"admins", "subscriptions", "done"} :
            /\ topic' = [topic EXCEPT ![d] = t]
            /\ pc' = [pc EXCEPT ![d] = step]
            /\ step = "admins" <=> t \in Handled
      BY <1>1, PublishStep
    <2>2. /\ adminsAt' = [adminsAt EXCEPT ![d] = registered \cap Admins]
          /\ UNCHANGED <<registered, row, receivers, emitted, failedSend>>
      BY <1>1 DEF Publish, getAdmins
    <2>3. \A c \in Deliveries \ {d} :
             adminsAt'[c] = adminsAt[c] /\ topic'[c] = topic[c] /\ pc'[c] = pc[c]
      BY <2>1, <2>2
    <2>4. topic'[d] = t /\ pc'[d] = step /\ adminsAt'[d] = registered \cap Admins
      BY <2>1, <2>2
    <2>5. OnTheirWay' BY <2>1, <2>2, <2>3, <2>4
    <2>6. AdminsInformed' BY <2>1, <2>2, <2>3, <2>4
    <2> QED BY <2>5, <2>6
  <1>2. ASSUME NEW d \in Deliveries, QueryAdmins(d) PROVE Kept
    BY <1>2 DEF QueryAdmins, getAdmins, AfterSend
  <1>3. ASSUME NEW d \in Deliveries, QueryReceivers(d) PROVE Kept
    BY <1>3 DEF QueryReceivers, AfterSend
  <1>4. ASSUME NEW d \in Deliveries, CreateNotification(d) PROVE Kept
    BY <1>4 DEF CreateNotification
  <1>5. ASSUME NEW d \in Deliveries, CreateRows(d) PROVE Kept
    <2>1. /\ pc[d] = "rows" /\ pc' = [pc EXCEPT ![d] = "readBack"]
          /\ UNCHANGED <<registered, topic, receivers, emitted, adminsAt, failedSend>>
          /\ row' = [row EXCEPT ![d] = [a \in Accounts |->
                        IF a \in receivers[d] THEN "unread" ELSE row[d][a]]]
      BY <1>5 DEF CreateRows
    <2>2. \A a \in receivers[d] : row'[d][a] = "unread" BY <2>1
    <2>3. \A c \in Deliveries \ {d} : row'[c] = row[c] /\ pc'[c] = pc[c] BY <2>1
    <2>4. OnTheirWay' BY <2>1, <2>2, <2>3
    <2>5. AdminsInformed' BY <2>1, <2>3
    <2> QED BY <2>4, <2>5
  <1>6. ASSUME NEW d \in Deliveries, ReadBack(d) PROVE Kept
    BY <1>6 DEF ReadBack, AfterSend
  <1>7. ASSUME NEW d \in Deliveries, FailSend(d) PROVE Kept
    BY <1>7 DEF FailSend, AfterSend
  <1>8. ASSUME NEW d \in Deliveries, QuerySubscriptions(d) \/ FailSubscriptions(d) PROVE Kept
    <2>1. /\ pc[d] = "subscriptions" /\ pc' = [pc EXCEPT ![d] = "done"]
          /\ UNCHANGED <<registered, row, topic, receivers, emitted, adminsAt, failedSend>>
      BY <1>8 DEF QuerySubscriptions, FailSubscriptions
    <2>2. OnTheirWay' BY <2>1
    <2>3. AdminsInformed' BY <2>1
    <2> QED BY <2>2, <2>3
  <1>9. ASSUME NEW d \in Deliveries, NEW e \in Endpoints, Push(d, e) PROVE Kept
    <2>1. UNCHANGED <<registered, row, pc, topic, receivers, emitted, adminsAt, failedSend>>
      BY <1>9 DEF Push, PushReaches, PushGone, PushFails, Deactivate
    <2> QED BY <2>1
  <1>10. ASSUME NEW x \in Readers \cup Subscribers, UpdateRow(x) PROVE Kept
    <2>1. /\ x \in Readers /\ pc[x] = "update" /\ pc' = [pc EXCEPT ![x] = "done"]
          /\ UNCHANGED <<registered, topic, receivers, emitted, adminsAt, failedSend>>
          /\ row' = [row EXCEPT ![asked[x].delivery][asked[x].addressee] = "read"]
      BY <1>10 DEF UpdateRow
    <2>2. \A d \in Deliveries, a \in Accounts : row[d][a] # "none" => row'[d][a] # "none"
      BY <2>1
    <2>3. \A d \in Deliveries : pc'[d] = pc[d] BY <2>1
    <2>4. OnTheirWay' BY <2>1, <2>2, <2>3
    <2>5. AdminsInformed' BY <2>1, <2>2, <2>3
    <2> QED BY <2>4, <2>5
  <1>11. ASSUME NEW x \in Readers \cup Subscribers,
                \/ AskToRead(x) \/ AskToSubscribe(x) \/ FindAccount(x) \/ FindRow(x)
                \/ FindSubscription(x) \/ CreateSubscription(x) \/ FailRequest(x)
         PROVE  Kept
    <2>1. /\ \A d \in Deliveries : pc'[d] = pc[d]
          /\ UNCHANGED <<registered, row, topic, receivers, emitted, adminsAt, failedSend>>
      BY <1>11
         DEF AskToRead, AskToSubscribe, FindAccount, FindRow, FindSubscription,
             CreateSubscription, FailRequest
    <2> QED BY <2>1
  <1>12. ASSUME NEW a \in Accounts, CreateAccount(a) PROVE Kept
    BY <1>12 DEF CreateAccount
  <1>13. ASSUME Restart PROVE Kept
    <2>1. /\ \A d \in Deliveries : pc'[d] # "dead" => pc'[d] = pc[d]
          /\ UNCHANGED <<registered, row, topic, receivers, emitted, adminsAt, failedSend>>
      BY <1>13 DEF Restart
    <2> HIDE DEF TypeOK, Placed
    <2>2. OnTheirWay' BY <2>1
    <2>3. AdminsInformed' BY <2>1
    <2> QED BY <2>2, <2>3
  <1>14. CASE UNCHANGED <<registered, row, pc, topic, receivers, emitted, adminsAt, failedSend>>
    BY <1>14
  <1> QED
    BY <1>1, <1>2, <1>3, <1>4, <1>5, <1>6, <1>7, <1>8, <1>9, <1>10, <1>11, <1>12, <1>13, <1>14
       DEF Next, Deliver, Request, Quiet, vars, GiveUp

-----------------------------------------------------------------------------

\* An endpoint that was active when an alert was published is sent to or was
\* deactivated, and only endpoints the push service calls gone are.
LEMMA PushNext ==
    ASSUME TypeOK, Placed, Addressed, OnTheirWay, Endpointed, ActiveEndpointsTried,
           DeactivatedOnlyWhenGone, [Next]_vars
    PROVE  Endpointed' /\ ActiveEndpointsTried' /\ DeactivatedOnlyWhenGone'
  <1> DEFINE Kept == Endpointed' /\ ActiveEndpointsTried' /\ DeactivatedOnlyWhenGone'
  <1> USE ActorsAssumption
      DEF TypeOK, Placed, Endpointed, ActiveEndpointsTried, DeactivatedOnlyWhenGone, Actors,
          DeliverySteps, RequestSteps, Goto, tables, history
  <1>1. ASSUME NEW d \in Deliveries, Publish(d) PROVE Kept
    <2>1. PICK t \in Topics, step \in {"admins", "subscriptions", "done"} :
            /\ topic' = [topic EXCEPT ![d] = t]
            /\ pc' = [pc EXCEPT ![d] = step]
            /\ step = "admins" <=> t \in Handled
            /\ step = "done" => t = "GATE_LEFT_OPEN"
      BY <1>1, PublishStep
    <2>2. /\ activeAt' = [activeAt EXCEPT ![d] = ActiveEndpoints]
          /\ UNCHANGED <<subscription, sending, gone, failedPush>>
      BY <1>1 DEF Publish
    <2>3. \A e \in ActiveEndpoints : subscription[e] # NoRow /\ subscription[e].owner \in Admins
      BY DEF ActiveEndpoints, NoRow
    <2>4. \A c \in Deliveries \ {d} :
             activeAt'[c] = activeAt[c] /\ topic'[c] = topic[c] /\ pc'[c] = pc[c]
      BY <2>1, <2>2
    <2>5. topic'[d] = t /\ pc'[d] = step /\ activeAt'[d] = ActiveEndpoints
      BY <2>1, <2>2
    <2>6. Endpointed' BY <2>2, <2>3, <2>4, <2>5
    <2>7. step # "done" \/ t \notin Pushing \cup {"SEND_ADMINS"} BY <2>1 DEF Pushing
    <2>8. ActiveEndpointsTried' BY <2>2, <2>4, <2>5, <2>7
    <2>9. DeactivatedOnlyWhenGone' BY <2>2
    <2> QED BY <2>6, <2>8, <2>9
  <1>2. ASSUME NEW d \in Deliveries,
               \/ QueryAdmins(d) \/ QueryReceivers(d) \/ CreateNotification(d)
               \/ CreateRows(d) \/ ReadBack(d) \/ FailSend(d)
        PROVE  Kept
    <2>1. topic[d] \in Handled /\ "SEND_ADMINS" \notin Handled
      BY <1>2
         DEF OnTheirWay, QueryAdmins, QueryReceivers, CreateNotification, CreateRows, ReadBack,
             FailSend, Handled, Pushing
    <2>2. pc'[d] # "done" \/ topic[d] \notin Pushing
      BY <1>2
         DEF QueryAdmins, QueryReceivers, CreateNotification, CreateRows, ReadBack, FailSend,
             AfterSend
    <2>3. /\ \A c \in Deliveries \ {d} : pc'[c] = pc[c]
          /\ UNCHANGED <<subscription, topic, sending, gone, activeAt, failedPush>>
      BY <1>2
         DEF QueryAdmins, QueryReceivers, CreateNotification, CreateRows, ReadBack, FailSend
    <2> QED BY <2>1, <2>2, <2>3
  <1>3. ASSUME NEW d \in Deliveries, QuerySubscriptions(d) PROVE Kept
    <2>1. /\ sending' = [sending EXCEPT ![d] = [e \in Endpoints |->
                            IF e \in ActiveEndpoints THEN "sending" ELSE "none"]]
          /\ pc' = [pc EXCEPT ![d] = "done"]
          /\ UNCHANGED <<subscription, topic, gone, activeAt, failedPush>>
      BY <1>3 DEF QuerySubscriptions
    <2>2. \A e \in Endpoints :
             sending'[d][e] = IF e \in ActiveEndpoints THEN "sending" ELSE "none"
      BY <2>1
    <2>3. \A c \in Deliveries \ {d} : sending'[c] = sending[c] /\ pc'[c] = pc[c]
      BY <2>1
    <2>4. ASSUME NEW e \in activeAt[d]
          PROVE  e \in ActiveEndpoints \/ subscription[e].status = "INACTIVE"
      BY DEF ActiveEndpoints, Subscription
    <2>5. Endpointed' BY <2>1, <2>2, <2>3
    <2>6. ActiveEndpointsTried' BY <2>1, <2>2, <2>3, <2>4
    <2>7. DeactivatedOnlyWhenGone' BY <2>1
    <2> QED BY <2>5, <2>6, <2>7
  <1>4. ASSUME NEW d \in Deliveries, FailSubscriptions(d) PROVE Kept
    BY <1>4 DEF FailSubscriptions
  <1>5. ASSUME NEW d \in Deliveries, NEW e \in Endpoints, Push(d, e) PROVE Kept
    <2>1. PICK how \in Pushes \ {"none"} :
            SetSending(d, e, how) /\ (how = "gone" => e \in gone)
      <3>1. CASE PushReaches(d, e) BY <3>1 DEF PushReaches, Pushes
      <3>2. CASE PushGone(d, e) BY <3>2 DEF PushGone, Pushes
      <3>3. CASE PushFails(d, e) BY <3>3 DEF PushFails, Pushes
      <3>4. CASE Deactivate(d, e) BY <3>4 DEF Deactivate, Pushes
      <3> QED BY <1>5, <3>1, <3>2, <3>3, <3>4 DEF Push
    <2>2. /\ sending'[d][e] = how
          /\ \A c \in Deliveries, f \in Endpoints :
                c # d \/ f # e => sending'[c][f] = sending[c][f]
      BY <2>1, OnePush DEF Pushes
    <2>3. /\ \A f \in Endpoints : subscription[f] # NoRow =>
                /\ subscription'[f] # NoRow
                /\ subscription'[f].owner = subscription[f].owner
                /\ subscription[f].status = "INACTIVE" => subscription'[f].status = "INACTIVE"
          /\ \A f \in Endpoints :
                subscription'[f].status = "INACTIVE" =>
                   \/ subscription[f].status = "INACTIVE"
                   \/ f = e /\ sending[d][e] = "gone"
      BY <1>5, PushDeactivates
    <2>4. UNCHANGED <<pc, topic, gone, activeAt, failedPush>>
      BY <1>5 DEF Push, PushReaches, PushGone, PushFails, Deactivate
    <2>5. \A c \in Deliveries, f \in Endpoints :
             /\ sending'[c][f] = "gone" => f \in gone
             /\ sending[c][f] # "none" => sending'[c][f] # "none"
      <3> SUFFICES ASSUME NEW c \in Deliveries, NEW f \in Endpoints
                   PROVE  /\ sending'[c][f] = "gone" => f \in gone
                          /\ sending[c][f] # "none" => sending'[c][f] # "none"
        OBVIOUS
      <3>1. CASE c = d /\ f = e BY <2>1, <2>2, <3>1
      <3>2. CASE c # d \/ f # e
        <4>1. sending'[c][f] = sending[c][f] BY <2>2, <3>2
        <4> QED BY <4>1
      <3> QED BY <3>1, <3>2
    <2>6. Endpointed' BY <2>3, <2>4, <2>5
    <2>7. ActiveEndpointsTried' BY <2>3, <2>4, <2>5
    <2>8. DeactivatedOnlyWhenGone' BY <2>3, <2>4
    <2> QED BY <2>6, <2>7, <2>8
  <1>6. ASSUME NEW x \in Readers \cup Subscribers, CreateSubscription(x) PROVE Kept
    <2>1. asked[x].endpoint \in Endpoints
      BY <1>6 DEF CreateSubscription
    <2>2. \/ subscription' = subscription
          \/ /\ subscription[asked[x].endpoint] = NoRow
             /\ subscription' = [subscription EXCEPT ![asked[x].endpoint] =
                                    [owner |-> asked[x].account, status |-> "ACTIVE"]]
      BY <1>6 DEF CreateSubscription
    <2>3. \A f \in Endpoints :
             /\ subscription[f] # NoRow => subscription'[f] = subscription[f]
             /\ subscription'[f].status = "INACTIVE" => subscription'[f] = subscription[f]
      BY <2>1, <2>2
    <2>4. /\ \A d \in Deliveries : pc'[d] = pc[d]
          /\ UNCHANGED <<topic, sending, gone, activeAt, failedPush>>
      BY <1>6 DEF CreateSubscription
    <2> QED BY <2>3, <2>4
  <1>7. ASSUME NEW x \in Readers \cup Subscribers,
               \/ AskToRead(x) \/ AskToSubscribe(x) \/ FindAccount(x) \/ FindRow(x)
               \/ UpdateRow(x) \/ FindSubscription(x) \/ FailRequest(x)
        PROVE  Kept
    <2>1. /\ \A d \in Deliveries : pc'[d] = pc[d]
          /\ UNCHANGED <<subscription, topic, sending, gone, activeAt, failedPush>>
      BY <1>7
         DEF AskToRead, AskToSubscribe, FindAccount, FindRow, UpdateRow, FindSubscription,
             FailRequest
    <2> QED BY <2>1
  <1>8. ASSUME NEW e \in Endpoints, GiveUp(e) PROVE Kept
    BY <1>8 DEF GiveUp
  <1>9. ASSUME Restart PROVE Kept
    <2>1. /\ \A d \in Deliveries : pc'[d] # "dead" => pc'[d] = pc[d]
          /\ \A d \in Deliveries, e \in Endpoints :
                /\ sending'[d][e] # "gone"
                /\ sending[d][e] # "none" => sending'[d][e] # "none"
          /\ UNCHANGED <<subscription, topic, gone, activeAt, failedPush>>
      BY <1>9 DEF Restart
    <2>2. Endpointed' BY <2>1
    <2>3. ActiveEndpointsTried' BY <2>1
    <2>4. DeactivatedOnlyWhenGone' BY <2>1
    <2> QED BY <2>2, <2>3, <2>4
  <1>10. CASE UNCHANGED <<subscription, pc, topic, sending, gone, activeAt, failedPush>>
    BY <1>10
  <1> QED
    BY <1>1, <1>2, <1>3, <1>4, <1>5, <1>6, <1>7, <1>8, <1>9, <1>10
       DEF Next, Deliver, Request, Quiet, vars, CreateAccount

-----------------------------------------------------------------------------

\* Nothing is published, stored, asked for or given up.
LEMMA InitNothing == Init => IInv
  <1> SUFFICES ASSUME Init PROVE IInv OBVIOUS
  <1>1. TypeOK
    BY DEF Init, TypeOK, Subscription, Asked, Actors
  <1>2. Placed /\ Addressed
    BY DEF Init, Placed, Addressed, Actors
  <1>3. Stored /\ OwnRow /\ EmittedHasRow
    BY DEF Init, Stored, OwnRow, EmittedHasRow, Actors
  <1>4. OnTheirWay /\ AdminsInformed
    BY DEF Init, OnTheirWay, AdminsInformed, Actors, DeliverySteps
  <1>5. Endpointed /\ ActiveEndpointsTried /\ DeactivatedOnlyWhenGone
    BY DEF Init, Endpointed, ActiveEndpointsTried, DeactivatedOnlyWhenGone, NoRow, Actors
  <1> QED BY <1>1, <1>2, <1>3, <1>4, <1>5 DEF IInv

\* The invariant is inductive: what a delivery, a reader and a subscriber know when they
\* are resumed still fits the tables.
THEOREM FanOutInvariant == Spec => []IInv
  <1>1. ASSUME IInv, [Next]_vars PROVE IInv'
    BY <1>1, TypeNext, AddressedNext, StoredNext, InformedNext, PushNext DEF IInv
  <1> QED BY <1>1, InitNothing, PTL DEF Spec

\* Tables, locals and histories of the fan-out keep their types.
THEOREM FanOutTypeCorrect == Spec => []TypeOK
  <1>1. IInv => TypeOK BY DEF IInv
  <1> QED BY <1>1, FanOutInvariant, PTL

\* Sockets are told of stored rows only, whatever fails in between.
THEOREM EmissionsAreStored == Spec => []EmittedHasRow
  <1>1. IInv => EmittedHasRow BY DEF IInv
  <1> QED BY <1>1, FanOutInvariant, PTL

\* A handler that met no error left no admin of its time without row and emission.
THEOREM NobodyLeftOut == Spec => []AdminsInformed
  <1>1. IInv => AdminsInformed BY DEF IInv
  <1> QED BY <1>1, FanOutInvariant, PTL

\* Every endpoint that was active at publication is sent to, or was deactivated.
THEOREM EndpointsTried == Spec => []ActiveEndpointsTried
  <1>1. IInv => ActiveEndpointsTried BY DEF IInv
  <1> QED BY <1>1, FanOutInvariant, PTL

\* No subscription that can be reached is deactivated.
THEOREM OnlyGoneDeactivated == Spec => []DeactivatedOnlyWhenGone
  <1>1. IInv => DeactivatedOnlyWhenGone BY DEF IInv
  <1> QED BY <1>1, FanOutInvariant, PTL

\* The owner of an endpoint's row never changes: a second subscription is ignored by the
\* look-up or rejected by the unique index.
THEOREM OwnerKept == Spec => FirstOwnerKeepsEndpoint
  <1>1. ASSUME IInv, [Next]_vars, NEW e \in Endpoints, subscription[e] # NoRow
        PROVE  subscription'[e].owner = subscription[e].owner
    <2>1. TypeOK /\ Placed /\ Addressed BY <1>1 DEF IInv
    <2>2. ASSUME NEW d \in Deliveries, NEW f \in Endpoints, Push(d, f)
          PROVE  subscription'[e].owner = subscription[e].owner
      BY <1>1, <2>1, <2>2, PushDeactivates
    <2>3. ASSUME NEW x \in Readers \cup Subscribers, CreateSubscription(x)
          PROVE  subscription'[e].owner = subscription[e].owner
      BY <1>1, <2>1, <2>3 DEF CreateSubscription, TypeOK
    <2>4. CASE UNCHANGED subscription BY <2>4
    <2> QED
      BY <1>1, <2>2, <2>3, <2>4
         DEF Next, Deliver, Request, Quiet, vars, tables, Publish, QueryAdmins, QueryReceivers,
             CreateNotification, CreateRows, ReadBack, FailSend, QuerySubscriptions,
             FailSubscriptions, AskToRead, AskToSubscribe, FindAccount, FindRow, UpdateRow,
             FindSubscription, FailRequest, CreateAccount, GiveUp, Restart
  <1>2. IInv /\ [Next]_vars =>
          [\A e \in Endpoints :
              subscription[e] # NoRow => subscription'[e].owner = subscription[e].owner]_vars
    BY <1>1
  <1> QED BY <1>2, FanOutInvariant, PTL DEF Spec, FirstOwnerKeepsEndpoint

\* A row that is stored is changed by its own account alone, and only to read: createMany
\* never meets a row of its delivery.
THEOREM RowsReadByOwner == Spec => ReadByItsOwner
  <1>1. ASSUME IInv, [Next]_vars, NEW d \in Deliveries, NEW a \in Accounts,
               row[d][a] # "none", row'[d][a] # row[d][a]
        PROVE  /\ row'[d][a] = "read"
               /\ \E r \in Readers : pc[r] = "update" /\ asked[r].account = a
    <2>1. TypeOK /\ Placed /\ Stored /\ OwnRow BY <1>1 DEF IInv
    <2>2. ASSUME NEW c \in Deliveries, CreateRows(c) PROVE FALSE
      <3>1. pc[c] = "rows" /\ row'[d] # row[d] BY <1>1, <2>2 DEF CreateRows
      <3>2. c = d BY <2>1, <2>2, <3>1 DEF CreateRows, TypeOK
      <3> QED BY <1>1, <2>1, <3>1, <3>2 DEF Stored
    <2>3. ASSUME NEW x \in Readers \cup Subscribers, UpdateRow(x)
          PROVE  /\ row'[d][a] = "read"
                 /\ \E r \in Readers : pc[r] = "update" /\ asked[r].account = a
      <3>1. x \in Readers /\ pc[x] = "update" BY <2>1, <2>3, ActorsAssumption DEF UpdateRow, Placed
      <3>2. /\ asked[x].delivery \in Deliveries /\ asked[x].addressee \in Accounts
            /\ asked[x].addressee = asked[x].account
        BY <2>1, <3>1 DEF Placed, OwnRow
      <3>3. row' = [row EXCEPT ![asked[x].delivery][asked[x].addressee] = "read"]
        BY <2>3 DEF UpdateRow
      <3>4. asked[x].delivery = d /\ asked[x].addressee = a /\ row'[d][a] = "read"
        BY <1>1, <2>1, <3>2, <3>3 DEF TypeOK
      <3> QED BY <3>1, <3>2, <3>4
    <2>4. CASE UNCHANGED row BY <1>1, <2>4
    <2> QED
      BY <1>1, <2>2, <2>3, <2>4
         DEF Next, Deliver, Push, Request, Quiet, vars, tables, Publish, QueryAdmins,
             QueryReceivers, CreateNotification, ReadBack, FailSend, QuerySubscriptions,
             FailSubscriptions, PushReaches, PushGone, PushFails, Deactivate, AskToRead,
             AskToSubscribe, FindAccount, FindRow, FindSubscription, CreateSubscription,
             FailRequest, CreateAccount, GiveUp, Restart
  <1>2. IInv /\ [Next]_vars =>
          [\A d \in Deliveries, a \in Accounts :
              row[d][a] # "none" /\ row'[d][a] # row[d][a]
                  => /\ row'[d][a] = "read"
                     /\ \E r \in Readers : pc[r] = "update" /\ asked[r].account = a]_vars
    BY <1>1
  <1> QED BY <1>2, FanOutInvariant, PTL DEF Spec, ReadByItsOwner

-----------------------------------------------------------------------------
(* The fan-out implements the inboxes.                                     *)

\* No socket is told of a delivery before its rows have been read back.
Untold ==
    \A d \in Deliveries :
        pc[d] \in {"idle", "admins", "receivers", "notification", "rows", "readBack"}
            => emitted[d] = {}

\* Only the handler of a delivery emits it, and goes on from there.
LEMMA UntoldNext ==
    ASSUME IInv, Untold, [Next]_vars
    PROVE  Untold'
  <1> USE DEF Untold, Goto, Actors
  <1>1. TypeOK /\ Placed BY DEF IInv
  <1>2. ASSUME NEW d \in Deliveries, Publish(d) PROVE Untold'
    BY <1>1, <1>2 DEF Publish, TypeOK
  <1>3. ASSUME NEW d \in Deliveries, Deliver(d) PROVE Untold'
    <2>1. CASE ReadBack(d)
      BY <1>1, <2>1 DEF ReadBack, AfterSend, TypeOK
    <2> QED
      BY <1>1, <1>3, <2>1
         DEF Deliver, QueryAdmins, QueryReceivers, CreateNotification, CreateRows, FailSend,
             AfterSend, QuerySubscriptions, FailSubscriptions, TypeOK, DeliverySteps
  <1>4. ASSUME NEW d \in Deliveries, NEW e \in Endpoints, Push(d, e) PROVE Untold'
    BY <1>4 DEF Push, PushReaches, PushGone, PushFails, Deactivate
  <1>5. ASSUME NEW x \in Readers \cup Subscribers,
               AskToRead(x) \/ AskToSubscribe(x) \/ Request(x)
        PROVE  Untold'
    BY <1>1, <1>5, ActorsAssumption
       DEF AskToRead, AskToSubscribe, Request, FindAccount, FindRow, UpdateRow,
           FindSubscription, CreateSubscription, FailRequest, TypeOK
  <1>6. CASE Restart BY <1>1, <1>6 DEF Restart, TypeOK
  <1>7. CASE UNCHANGED <<pc, emitted>> BY <1>7
  <1> QED
    BY <1>2, <1>3, <1>4, <1>5, <1>6, <1>7
       DEF Next, CreateAccount, GiveUp, Quiet, vars

\* A step of the fan-out files an alert, tells of it, marks it as read for one receiver,
\* or leaves rows and emissions alone.
LEMMA InboxStep ==
    ASSUME IInv, Untold, [Next]_vars
    PROVE  [Inbox!Next]_<<row, emitted>>
  <1>1. TypeOK /\ Placed /\ Stored /\ OwnRow BY DEF IInv
  <1>2. ASSUME NEW d \in Deliveries, CreateRows(d) PROVE Inbox!File(d)
    <2>1. pc[d] = "rows" /\ receivers[d] \in SUBSET Accounts BY <1>1, <1>2 DEF CreateRows, TypeOK
    <2>2. \A a \in Accounts : row[d][a] = "none" BY <1>1, <2>1 DEF Stored
    <2>3. [a \in Accounts |-> IF a \in receivers[d] THEN "unread" ELSE row[d][a]]
            = [a \in Accounts |-> IF a \in receivers[d] THEN "unread" ELSE "none"]
      BY <2>2
    <2>4. row' = [row EXCEPT ![d] =
                    [a \in Accounts |-> IF a \in receivers[d] THEN "unread" ELSE "none"]]
      BY <1>1, <1>2, <2>3 DEF CreateRows, TypeOK
    <2>5. UNCHANGED emitted BY <1>2 DEF CreateRows
    <2> QED BY <2>1, <2>2, <2>4, <2>5 DEF Inbox!File, Inbox!Filed
  <1>3. ASSUME NEW d \in Deliveries, ReadBack(d) PROVE Inbox!Tell(d)
    BY <1>3 DEF ReadBack, Untold, tables, Inbox!Tell, Inbox!Filed
  <1>4. ASSUME NEW x \in Readers \cup Subscribers, UpdateRow(x)
        PROVE  (\E d \in Deliveries, a \in Accounts : Inbox!Read(d, a))
                  \/ UNCHANGED <<row, emitted>>
    <2>1. x \in Readers /\ pc[x] = "update" BY <1>1, <1>4, ActorsAssumption DEF UpdateRow, Placed
    <2>2. asked[x].delivery \in Deliveries /\ asked[x].addressee \in Accounts
      BY <1>1, <2>1 DEF Placed
    <2>3. AskedRow(x) \in {"unread", "read"}
      BY <1>1, <2>1, <2>2 DEF OwnRow, AskedRow, TypeOK
    <2>4. row' = [row EXCEPT ![asked[x].delivery][asked[x].addressee] = "read"]
            /\ UNCHANGED emitted
      BY <1>4 DEF UpdateRow
    <2>5. CASE AskedRow(x) = "unread"
      BY <2>2, <2>4, <2>5 DEF Inbox!Read, AskedRow
    <2>6. CASE AskedRow(x) = "read"
      <3>1. row' = row BY <1>1, <2>2, <2>4, <2>6 DEF AskedRow, TypeOK
      <3> QED BY <2>4, <3>1
    <2> QED BY <2>3, <2>5, <2>6
  <1>5. CASE UNCHANGED <<row, emitted>> BY <1>5
  <1> QED
    BY <1>2, <1>3, <1>4, <1>5
       DEF Next, Deliver, Push, Request, Quiet, vars, tables, Publish, QueryAdmins,
           QueryReceivers, CreateNotification, FailSend, QuerySubscriptions,
           FailSubscriptions, PushReaches, PushGone, PushFails, Deactivate, AskToRead,
           AskToSubscribe, FindAccount, FindRow, FindSubscription, CreateSubscription,
           FailRequest, CreateAccount, GiveUp, Restart, Inbox!Next

\* Storing, emitting and reading, cut into queries that others may come between, do what
\* the inboxes promise: an alert is filed for all or nobody, told once and read one by one.
THEOREM FanOutKeepsInboxes == Spec => KeepsInboxes
  <1>1. Init => Untold BY DEF Init, Untold
  <1>2. Init => Inbox!Init BY DEF Init, Inbox!Init
  <1>3. IInv /\ Untold /\ [Next]_vars => Untold' BY UntoldNext
  <1>4. IInv /\ Untold /\ [Next]_vars => [Inbox!Next]_<<row, emitted>> BY InboxStep
  <1>5. Inbox!Spec <=> Inbox!Init /\ [][Inbox!Next]_<<row, emitted>>
    BY DEF Inbox!Spec, Inbox!inboxes
  <1> QED BY <1>1, <1>2, <1>3, <1>4, <1>5, FanOutInvariant, PTL DEF Spec, KeepsInboxes
=============================================================================
