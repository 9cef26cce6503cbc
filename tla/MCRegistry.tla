----------------------------- MODULE MCRegistry -----------------------------
(***************************************************************************)
(* Registry with a few requests, the rooms all asked for under one name.   *)
(***************************************************************************)
EXTENDS Registry, TLC

CONSTANT t1

MCTitleOf == [r \in Rooms |-> t1]

\* Rooms, and requests to remove one, are interchangeable.
MCSymmetry == Permutations(Rooms) \cup Permutations(Removes)
=============================================================================
