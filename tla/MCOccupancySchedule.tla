------------------------- MODULE MCOccupancySchedule -------------------------
(***************************************************************************)
(* Two PUTs, of which one may name a key without a row, one room, and an   *)
(* hour of six units of ten minutes: intervals of 20 and 40 minutes, one   *)
(* that divides the hour and one that does not.                            *)
(***************************************************************************)
EXTENDS OccupancySchedule

CONSTANTS p1, p2, r1

Pair(key, value) == [key |-> key, value |-> value]

\* A change next to one of a key without a row; one key twice, once with a text.
MCRequests ==
    {{Pair("interval", 2), Pair("other", 2)},
     {Pair("interval", 4), Pair("interval", -1)}}

MCValues     == {2, 4, -1}
MCDefaultMin == -10
MCBelowMin   == -5
=============================================================================
