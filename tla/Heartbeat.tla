----------------------------- MODULE Heartbeat -----------------------------
(***************************************************************************)
(* fernqd/src/server/room.rs lines 359-415, with the counters of conn.rs   *)
(* lines 290-304: the heartbeat of an open room pings every connection at  *)
(* each tick, counts the pings that were written, and closes a connection  *)
(* with too many; the listener of a connection resets its counter, after a *)
(* pong at once, after a message when a channel has taken it.  They, and   *)
(* whoever else closes a connection, are not synchronised.                 *)
(* Time is left out: ticks may follow each other at once, which they do    *)
(* when a round took longer than the interval (tokio makes up for missed   *)
(* ticks in a burst).  How the room closes is in Room.                     *)
(* A definition marked "variant" is a plausible slip in the one after it.  *)
(***************************************************************************)
EXTENDS Naturals

CONSTANTS Conns,
          MaxPending,  (* max_pending_heartbeats, 5 in the server          *)
          NoConn

ASSUME HeartbeatAssumption == MaxPending \in Nat /\ NoConn \notin Conns

VARIABLES lis,         (* each listener; "handling" waits for a channel    *)
          present,     (* the connections that are in the map              *)
          shut,        (* TcpConn.closed: a close() has begun              *)
          token,       (* TcpConn.cancel_token                             *)
          pending,     (* TcpConn.pending_heartbeats                       *)
          unanswered,  (* pings written since the last reset; nobody's     *)
          hb,          (* where the heartbeat is ...                       *)
          todo,        (* ... what is left of its snapshot ...             *)
          cur          (* ... and the connection it is busy with           *)

connVars == <<present, shut, token>>
counters == <<pending, unanswered>>
hbVars   == <<hb, todo, cur>>
vars     == <<lis, connVars, counters, hbVars>>

Init == /\ lis = [c \in Conns |-> "new"]
        /\ present = {}
        /\ shut = [c \in Conns |-> FALSE]
        /\ token = [c \in Conns |-> FALSE]
        /\ pending = [c \in Conns |-> 0]
        /\ unanswered = [c \in Conns |-> 0]
        /\ hb = "waiting"
        /\ todo = {}
        /\ cur = NoConn

-----------------------------------------------------------------------------
(* The listeners, and what becomes of the connections *)

Goto(c, from, to) == lis[c] = from /\ lis' = [lis EXCEPT ![c] = to]

Join(c) == /\ Goto(c, "new", "reading")
           /\ present' = present \cup {c}
           /\ UNCHANGED <<shut, token, counters, hbVars>>

Reset(c) == /\ pending' = [pending EXCEPT ![c] = 0]
            /\ unanswered' = [unanswered EXCEPT ![c] = 0]

PongTaken(c) == /\ lis[c] = "reading" /\ ~token[c]
                /\ Reset(c)
                /\ UNCHANGED <<lis, connVars, hbVars>>

TakeMessage(c) == /\ Goto(c, "reading", "handling") /\ ~token[c]
                  /\ UNCHANGED <<connVars, counters, hbVars>>

\* A worker's channel has taken the message.  It may never have space.
Handled(c) == /\ Goto(c, "handling", "reading")
              /\ Reset(c)
              /\ UNCHANGED <<connVars, hbVars>>

\* The peer ended, or the token was noticed: the listener closes.
Leave(c) == /\ Goto(c, "reading", "gone")
            /\ present' = present \ {c}
            /\ shut' = [shut EXCEPT ![c] = TRUE]
            /\ UNCHANGED <<token, counters, hbVars>>

\* A newcomer of its name takes its place and closes it.
Superseded(c) == /\ c \in present
                 /\ present' = present \ {c}
                 /\ shut' = [shut EXCEPT ![c] = TRUE]
                 /\ UNCHANGED <<lis, token, counters, hbVars>>

\* close() cancels the token, at the latest when it gives up waiting for the
\* writer; a write that times out does too.
Cancel(c) == /\ lis[c] # "new" /\ ~token[c]
             /\ token' = [token EXCEPT ![c] = TRUE]
             /\ UNCHANGED <<lis, present, shut, counters, hbVars>>

-----------------------------------------------------------------------------
(* heartbeat() *)

HbGoto(from, to) == hb = from /\ hb' = to

Tick == /\ HbGoto("waiting", "polling")
        /\ todo' = present
        /\ UNCHANGED <<lis, connVars, counters, cur>>

RoundEnds == /\ HbGoto("polling", "waiting")
             /\ todo = {}
             /\ UNCHANGED <<lis, connVars, counters, todo, cur>>

Picked(c, over) ==
    /\ c \in todo
    /\ HbGoto("polling", IF over THEN "condemning"
                         ELSE IF token[c] THEN "failing" ELSE "writing")
    /\ todo' = todo \ {c}
    /\ cur' = c
    /\ UNCHANGED <<lis, connVars, counters>>

\* (variants: no limit; a limit that is reached one ping too early)
PickUnlimited(c) == Picked(c, FALSE)
PickAtLimit(c) == Picked(c, pending[c] >= MaxPending)

\* The counter is looked at; write() refuses a connection that is cancelled.
Pick(c) == Picked(c, pending[c] > MaxPending)

PingWritten == /\ HbGoto("writing", "counting")
               /\ unanswered' = [unanswered EXCEPT ![cur] = @ + 1]
               /\ UNCHANGED <<lis, connVars, pending, todo, cur>>

PingFails == /\ HbGoto("writing", "failing")
             /\ UNCHANGED <<lis, connVars, counters, todo, cur>>

\* increment_heartbeats(), after the write: an answer may have come before.
Counted == /\ HbGoto("counting", "polling")
           /\ pending' = [pending EXCEPT ![cur] = @ + 1]
           /\ UNCHANGED <<lis, connVars, unanswered, todo, cur>>

\* (variant: only the connection whose ping failed is closed)
CloseFailed == /\ hb \in {"condemning", "failing"}
               /\ hb' = IF hb = "failing" /\ ~shut[cur] THEN "closing" ELSE "polling"
               /\ shut' = [shut EXCEPT ![cur] = @ \/ hb = "failing"]
               /\ UNCHANGED <<lis, present, token, counters, todo, cur>>

\* The first close() of a connection is awaited, a later one returns at once.
Close == /\ hb \in {"condemning", "failing"}
         /\ hb' = IF shut[cur] THEN "polling" ELSE "closing"
         /\ shut' = [shut EXCEPT ![cur] = TRUE]
         /\ UNCHANGED <<lis, present, token, counters, todo, cur>>

CloseReturns == /\ HbGoto("closing", "polling")
                /\ token[cur]
                /\ UNCHANGED <<lis, connVars, counters, todo, cur>>

-----------------------------------------------------------------------------
Beat == \/ Tick \/ RoundEnds \/ PingWritten \/ PingFails \/ Counted
        \/ Close \/ CloseReturns
        \/ \E c \in Conns : Pick(c)

Next == \/ Beat
        \/ \E c \in Conns : \/ Join(c) \/ PongTaken(c) \/ TakeMessage(c) \/ Handled(c)
                            \/ Leave(c) \/ Superseded(c) \/ Cancel(c)

\* The interval ticks, the heartbeat is scheduled, its writes return and a close
\* cancels its token (CallsReturn and CloseTakesEffect of Conn).  Nothing is
\* assumed of the peers, nor of the listeners.
Fairness == /\ WF_vars(Beat)
            /\ \A c \in Conns : WF_vars(shut[c] /\ Cancel(c))

Spec == Init /\ [][Next]_vars
FairSpec == Spec /\ Fairness

-----------------------------------------------------------------------------
(* What must hold *)

TypeOK ==
    /\ lis \in [Conns -> {"new", "reading", "handling", "gone"}]
    /\ present \in SUBSET Conns
    /\ shut \in [Conns -> BOOLEAN]
    /\ token \in [Conns -> BOOLEAN]
    /\ pending \in [Conns -> Nat]
    /\ unanswered \in [Conns -> Nat]
    /\ hb \in {"waiting", "polling", "writing", "counting", "condemning", "failing", "closing"}
    /\ todo \in SUBSET Conns
    /\ cur \in Conns \cup {NoConn}
    /\ hb \notin {"waiting", "polling"} => cur \in Conns

\* The counter is never short of the pings that are unanswered, but for the one
\* that is being counted, and is at most one too high: when the answer overtook
\* the count (lines 401-404).
Counts == \A c \in Conns :
    LET counting == IF hb = "counting" /\ cur = c THEN 1 ELSE 0
        counted  == pending[c] + counting
    IN unanswered[c] <= counted /\ counted <= unanswered[c] + 1

\* A peer gets no more than MaxPending + 1 pings while it is not heard.
Bounded == \A c \in Conns :
    /\ unanswered[c] <= MaxPending + 1
    /\ pending[c] <= MaxPending + 1
    /\ hb \in {"writing", "counting"} /\ cur = c => pending[c] <= MaxPending
    /\ hb = "writing" /\ cur = c => unanswered[c] <= MaxPending

\* The inductive invariant: what the counters say.
HeartbeatInv == TypeOK /\ Counts /\ Bounded

\* Whoever is condemned for its silence (lines 385-394) has left MaxPending pings
\* unanswered: one less than the counter says, when an answer overtook a count.
ClosedWasSilent ==
    [][hb # "condemning" /\ hb' = "condemning" =>
          unanswered[cur'] >= MaxPending]_vars

\* A connection that stays silent is cancelled, whatever the others do, although
\* writing to one of them may take long and although its own listener may be
\* stuck at a full channel.
SilentIsClosed ==
    \A c \in Conns : unanswered[c] > 0 ~> (unanswered[c] = 0 \/ token[c])
=============================================================================
