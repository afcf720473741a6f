--------------------------- MODULE MCNotifications ---------------------------
(***************************************************************************)
(* Two admins and two readers of one alert; or an admin, another account   *)
(* and their one browser, with two alerts.                                 *)
(***************************************************************************)
EXTENDS Notifications, TLC

CONSTANTS ann, bob, eve, d1, d2, r1, r2, s1, s2, e1

PushSymmetry == Permutations(Deliveries) \cup Permutations(Subscribers)
=============================================================================
