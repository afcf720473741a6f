--------------------------- MODULE MCEntryMatching ---------------------------
(***************************************************************************)
(* Small instances of EntryMatching.  The unit of time is 5 s, so the      *)
(* windows keep their real proportions: 1, 3, 24 and 10 units.             *)
(***************************************************************************)
EXTENDS EntryInvariants, TLC

CONSTANTS u1, u2, s1, s2, ann, bob, r1, r2, n1, n2, n3

MCNumberOf == (ann :> n1) @@ (bob :> n2)

Unlock(user, date) == [user |-> user, date |-> date, kind |-> "card"]
Reading(in, out, ts) == [in |-> in, out |-> out, ts |-> ts]

\* Two residents at once, a duplicate inside the debounce window, a refusal.
MCUnlockPayloads ==
    {Unlock(ann, 20), Unlock(ann, 21), Unlock(bob, 20),
     [user |-> ann, date |-> 20, kind |-> "failed"]}

\* With one unlock there is no duplicate and one room only.
MCOneUnlock ==
    {Unlock(ann, 20), [user |-> ann, date |-> 20, kind |-> "failed"]}

\* In and out next to the unlocks; loitering before them.
MCSensorPayloads == {Reading(1, 0, 19), Reading(0, 1, 19), Reading(2, 0, 9)}

Symmetry == Permutations(UnlockReqs) \cup Permutations(SensorReqs)
=============================================================================
