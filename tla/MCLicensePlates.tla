--------------------------- MODULE MCLicensePlates ---------------------------
(***************************************************************************)
(* Unlocks of two residents, a reading and a passage.  Times are in units  *)
(* of 5 s: the window of a passage is 36 units.                            *)
(***************************************************************************)
EXTENDS LicensePlates, TLC

CONSTANTS u1, u2, s1, p1, ann, bob, r1, r2, r3, n1, n2, n3, plain, stolen, stranger

MCNumberOf == (ann :> n1) @@ (bob :> n2)

\* An unlock next to the passage, or one long before it.
MCUnlockPayloads ==
    {[user |-> bob, date |-> 100, kind |-> "card"],
     [user |-> ann, date |-> 20, kind |-> "card"]}
MCSensorPayloads == {[in |-> 1, out |-> 0, ts |-> 100]}

\* Before and after the unlock; a plate that is stolen, one that is blacklisted for
\* its room, one that is not registered.
MCPassagePayloads ==
    {[plate |-> plain, ts |-> 99, elec |-> FALSE],
     [plate |-> stolen, ts |-> 101, elec |-> FALSE],
     [plate |-> stranger, ts |-> 99, elec |-> TRUE]}
MCLatePassages == {[plate |-> stolen, ts |-> 101, elec |-> FALSE]}
MCVehicles ==
    {[plate |-> plain, status |-> "ACTIVE", link |-> "ACTIVE", roomLink |-> "BLACKLISTED"],
     [plate |-> stolen, status |-> "STOLEN", link |-> "ACTIVE", roomLink |-> "ACTIVE"]}

\* For the instance without a room of id 1.
Symmetry == Permutations(UnlockReqs) \cup Permutations(Rooms)
=============================================================================
