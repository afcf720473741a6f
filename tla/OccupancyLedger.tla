--------------------------- MODULE OccupancyLedger ---------------------------
(***************************************************************************)
(* What the entry matching promises of the occupancy it keeps: rooms are   *)
(* accounts and handlers book passages on them.  A handler books one       *)
(* passage at most, changing one account by it in one step; the entry it   *)
(* makes in the log, if it gets that far, is of the passage it booked; and *)
(* everything else that changes an account is a correction that is known.  *)
(***************************************************************************)
EXTENDS Integers

CONSTANTS
    Handlers,  \* requests that may let people in or out
    Rooms,     \* the accounts
    None       \* no passage, no entry

Passage == [room : Rooms, in : Int, out : Int]

VARIABLES
    people,    \* the count of a room
    passage,   \* the passage a handler has booked
    entry,     \* the log entry it has made
    corrected  \* the sum of the corrections of a room

books == <<people, passage, entry, corrected>>

Init ==
    /\ people = [r \in Rooms |-> 0]
    /\ passage = [h \in Handlers |-> None]
    /\ entry = [h \in Handlers |-> None]
    /\ corrected = [r \in Rooms |-> 0]

\* h books a passage; no other passage and no other room changes.
Book(h) ==
    /\ passage[h] = None
    /\ passage'[h] \in Passage
    /\ passage' = [passage EXCEPT ![h] = passage'[h]]
    /\ people' = [people EXCEPT ![passage'[h].room] = @ + passage'[h].in - passage'[h].out]
    /\ UNCHANGED <<entry, corrected>>

\* h logs the passage it has booked, once.
Log(h) ==
    /\ passage[h] # None
    /\ entry[h] = None
    /\ entry' = [entry EXCEPT ![h] = passage[h]]
    /\ UNCHANGED <<people, passage, corrected>>

\* The count of r is set to another value, and the difference accounted for.
Correct(r) ==
    /\ people'[r] \in Int
    /\ people' = [people EXCEPT ![r] = people'[r]]
    /\ corrected' = [corrected EXCEPT ![r] = @ + people'[r] - people[r]]
    /\ UNCHANGED <<passage, entry>>

Next ==
    \/ \E h \in Handlers : Book(h) \/ Log(h)
    \/ \E r \in Rooms : Correct(r)

Spec == Init /\ [][Next]_books
=============================================================================
