---------------------------- MODULE MCRoomThreads ----------------------------
(***************************************************************************)
(* RoomThreads on two threads: two connections of one name, two workers.   *)
(***************************************************************************)
EXTENDS RoomThreads

CONSTANTS n1, s1

MCNameOf == [c \in Conns |-> n1]
MCShardOf == [n \in Names |-> s1]
=============================================================================
