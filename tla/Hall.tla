-------------------------------- MODULE Hall --------------------------------
(***************************************************************************)
(* What a room is to the node that hands connections to it and closes it:  *)
(* it lets guests in while it is open, each of them once, and is closed    *)
(* when the last of them has gone.  How listeners, workers and the         *)
(* heartbeat bring this about is the business of Room; Admission takes     *)
(* each of its rooms for a hall.                                           *)
(***************************************************************************)
CONSTANT Guests    (* the connections that may come to the room *)

VARIABLES phase,   (* "open", "closing" or "closed"             *)
          guest    (* where each guest is                       *)

hallVars == <<phase, guest>>

Init == /\ phase = "open"
        /\ guest = [c \in Guests |-> "outside"]

Enter(c) == /\ phase = "open"
            /\ guest[c] = "outside"
            /\ guest' = [guest EXCEPT ![c] = "inside"]
            /\ UNCHANGED phase

\* A guest leaves, or is turned away, there or on its way; it does not return.
Leave(c) == /\ guest[c] # "gone"
            /\ guest' = [guest EXCEPT ![c] = "gone"]
            /\ UNCHANGED phase

\* A hall that was closed may be closed again; it opens no more.
BeginClose == /\ phase # "closing"
              /\ phase' = "closing"
              /\ UNCHANGED guest

EndClose == /\ phase = "closing"
            /\ \A c \in Guests : guest[c] # "inside"
            /\ phase' = "closed"
            /\ UNCHANGED guest

Next == \/ \E c \in Guests : Enter(c) \/ Leave(c)
        \/ BeginClose \/ EndClose

Spec == Init /\ [][Next]_hallVars
=============================================================================
