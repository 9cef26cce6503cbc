------------------------------- MODULE MCRoom -------------------------------
(***************************************************************************)
(* Room on a few connections that log in under one name, so that each      *)
(* newcomer supersedes the one before.                                     *)
(***************************************************************************)
EXTENDS Room

CONSTANTS n1, s1

MCNameOf == [c \in Conns |-> n1]
MCShardOf == [n \in Names |-> s1]
=============================================================================
