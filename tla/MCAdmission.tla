---------------------------- MODULE MCAdmission ----------------------------
(***************************************************************************)
(* Admission on a few clients of one room.                                 *)
(***************************************************************************)
EXTENDS Admission

CONSTANT r1

MCWantOf == [c \in Clients |-> r1]
=============================================================================
