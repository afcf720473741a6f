------------------------------- MODULE Inboxes -------------------------------
(***************************************************************************)
(* What the notification fan-out promises of an alert: it is filed in the  *)
(* inboxes of all its receivers in one step or in none; the sockets of     *)
(* exactly these receivers are told of it, once, after that; and all that  *)
(* happens to a filed alert is that it is marked as read, for one receiver *)
(* at a time and for good.                                                 *)
(***************************************************************************)
CONSTANTS Alerts, Users

VARIABLES
    inbox,  \* the state of an alert in the inbox of a user
    told    \* the users whose sockets were told of an alert

inboxes == <<inbox, told>>

Init ==
    /\ inbox = [d \in Alerts |-> [a \in Users |-> "none"]]
    /\ told = [d \in Alerts |-> {}]

Filed(d) == {a \in Users : inbox[d][a] # "none"}

File(d) ==
    /\ Filed(d) = {}
    /\ \E S \in SUBSET Users :
          inbox' = [inbox EXCEPT ![d] = [a \in Users |-> IF a \in S THEN "unread" ELSE "none"]]
    /\ UNCHANGED told

Tell(d) ==
    /\ told[d] = {}
    /\ told' = [told EXCEPT ![d] = Filed(d)]
    /\ UNCHANGED inbox

Read(d, a) ==
    /\ inbox[d][a] = "unread"
    /\ inbox' = [inbox EXCEPT ![d][a] = "read"]
    /\ UNCHANGED told

Next ==
    \E d \in Alerts : File(d) \/ Tell(d) \/ \E a \in Users : Read(d, a)

Spec == Init /\ [][Next]_inboxes
=============================================================================
