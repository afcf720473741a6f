----------------------------- MODULE MCListings -----------------------------
(***************************************************************************)
(* Three rows to start with, of two dates and two rooms, and one or two    *)
(* more to come; pages of one and two rows.                                *)
(***************************************************************************)
EXTENDS Listings, TLC

CONSTANTS r1, r2, r3

Row(date, room, text) == [date |-> date, room |-> room, text |-> text]

\* Two rows of one date, one of an earlier date; one that matches by its own text.
MCRows == {Row(1, r1, FALSE), Row(2, r2, FALSE), Row(2, r1, TRUE)}
MCInitialLogs ==
    {<<Row(2, r2, FALSE), Row(1, r1, FALSE), Row(2, r1, TRUE)>>}

MCInitialNumbers == {(r1 :> 1) @@ (r2 :> 2) @@ (r3 :> 3)}

\* No filter, the date 2 only, a search.
MCNoFilter == [from |-> 0, to |-> 9, search |-> FALSE]
MCFilters ==
    {MCNoFilter,
     [from |-> 2, to |-> 2, search |-> FALSE],
     [from |-> 0, to |-> 9, search |-> TRUE]}
=============================================================================
