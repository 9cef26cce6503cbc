----------------------------- MODULE MCDispatch -----------------------------
(***************************************************************************)
(* Dispatch with a client a whose request of two frames is answered by b,  *)
(* and a second connection of b that supersedes the first and answers in   *)
(* a channel that the other worker serves.  A channel holds one task: it   *)
(* is full while its worker is busy.                                       *)
(***************************************************************************)
EXTENDS Dispatch

CONSTANTS a, b, a1, b1, b2, ch1, ch2

MCNameOf == [c \in Conns |-> IF c = a1 THEN a ELSE b]
MCHash == [ch \in Channels |-> IF ch = ch1 THEN 4 ELSE 7]

Part(ch, last) == [chan |-> ch, from |-> a, to |-> b,
                   flags |-> MessageFlags(last, TRUE, FALSE)]
Answer(ch) == [chan |-> ch, from |-> b, to |-> a,
               flags |-> MessageFlags(TRUE, TRUE, TRUE)]

MCScript == [c \in Conns |->
    CASE c = a1 -> <<Part(ch1, FALSE), Part(ch1, TRUE)>>
      [] c = b1 -> <<Answer(ch1)>>
      [] c = b2 -> <<Answer(ch2)>>]
=============================================================================
