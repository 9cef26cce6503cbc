-------------------------------- MODULE Room --------------------------------
(***************************************************************************)
(* fernqd/src/server/room.rs: one room, its map from names to connections, *)
(* and the tasks that share it: a listener for each connection, the        *)
(* workers, the heartbeat, the task that offers a new connection, and the  *)
(* one that closes the room.  A connection is what Conn promises of it: a  *)
(* closed flag only the first close() sets, and a token that close(), or a *)
(* write that times out, cancels.  The pending counters are left out, so   *)
(* the heartbeat may take any connection for dead; so are the messages.    *)
(* A definition marked "variant" is a plausible slip in the one after it.  *)
(***************************************************************************)
EXTENDS Naturals, FiniteSets

CONSTANTS Conns,      (* the connections offered to the room             *)
          Names,      (* the names they log in under                     *)
          NameOf,     (* the name of each connection                     *)
          ShardOf,    (* the DashMap shard of each name                  *)
          Workers,    (* worker tasks, each with its channel             *)
          Cap,        (* the capacity of a channel                       *)
          Malformed,  (* the connections whose listener may panic        *)
          NoConn

ASSUME RoomAssumption == /\ NameOf \in [Conns -> Names]
                         /\ NoConn \notin Conns
                         /\ Cap \in Nat \ {0}
                         /\ Malformed \subseteq Conns

VARIABLES isClosed,    (* AtomicBool, line 55                              *)
          cancelled,   (* the room's token, line 52                        *)
          closer,      (* the task in close(); "joining" holds worker_set  *)
          add,         (* the task in add_conn(), for each connection      *)
          lis,         (* the listener of each connection                  *)
          replaced,    (* the connection a listener is superseding         *)
          conns,       (* DashMap, line 40                                 *)
          closedFlag,  (* TcpConn.closed                                   *)
          token,       (* TcpConn.cancel_token                             *)
          chan,        (* how full each worker's channel is                *)
          sendTo,      (* the channel a listener is sending into           *)
          wk,          (* each worker ...                                  *)
          wanted,      (* ... the name it looks up ...                     *)
          target,      (* ... and the connection it writes to              *)
          hb, todo, hbConn  (* the heartbeat, its snapshot, its current one*)

roomVars == <<isClosed, cancelled, closer>>
connVars == <<closedFlag, token>>
lisVars  == <<lis, replaced, sendTo>>
wkVars   == <<chan, wk, wanted, target>>
hbVars   == <<hb, todo, hbConn>>
vars == <<roomVars, add, lisVars, conns, connVars, wkVars, hbVars>>

Init == /\ isClosed = FALSE /\ cancelled = FALSE /\ closer = "idle"
        /\ add = [c \in Conns |-> "new"]
        /\ lis = [c \in Conns |-> "none"]
        /\ replaced = [c \in Conns |-> NoConn]
        /\ conns = [n \in Names |-> NoConn]
        /\ closedFlag = [c \in Conns |-> FALSE]
        /\ token = [c \in Conns |-> FALSE]
        /\ chan = [w \in Workers |-> 0]
        /\ sendTo = [c \in Conns |-> {}]
        /\ wk = [w \in Workers |-> "waiting"]
        /\ wanted = [w \in Workers |-> {}]
        /\ target = [w \in Workers |-> NoConn]
        /\ hb = "waiting" /\ todo = {} /\ hbConn = NoConn

-----------------------------------------------------------------------------
(* Connections and shards *)

\* The first close() of c waits until the token is cancelled; any other one
\* returns at once.
FirstClose(c) == ~closedFlag[c] /\ closedFlag' = [closedFlag EXCEPT ![c] = TRUE]
LaterClose(c) == closedFlag[c] /\ UNCHANGED closedFlag

\* The close in progress got the writer's mutex, or gave up waiting for it.
ConnCancels(c) ==
    /\ closedFlag[c]
    /\ ~token[c]
    /\ token' = [token EXCEPT ![c] = TRUE]
    /\ UNCHANGED <<roomVars, add, lisVars, conns, closedFlag, wkVars, hbVars>>

\* The entry a replacing listener got from the map keeps its shard locked
\* until the old connection's close() has returned.
HoldsShard(c) == lis[c] \in {"superseding", "awaiting"}
ShardFree(n) ==
    \A c \in Conns : HoldsShard(c) => ShardOf[NameOf[c]] # ShardOf[n]

-----------------------------------------------------------------------------
(* add_conn() *)

LockFree == closer \notin {"joining", "joined"}

Offer(c) ==
    /\ add[c] = "new"
    /\ add' = [add EXCEPT ![c] = IF isClosed THEN "rejecting" ELSE "locking"]
    /\ UNCHANGED <<roomVars, lisVars, conns, connVars, wkVars, hbVars>>

\* (variant: the second look at is_closed is left out)
EnterUnchecked(c) ==
    /\ add[c] = "locking"
    /\ LockFree
    /\ add' = [add EXCEPT ![c] = "spawned"]
    /\ lis' = [lis EXCEPT ![c] = "start"]
    /\ UNCHANGED <<roomVars, replaced, sendTo, conns, connVars, wkVars, hbVars>>

\* With the lock of worker_set: check again and spawn the listener.
Enter(c) ==
    /\ add[c] = "locking"
    /\ LockFree
    /\ IF isClosed
       THEN /\ add' = [add EXCEPT ![c] = "rejecting"]
            /\ UNCHANGED lis
       ELSE /\ add' = [add EXCEPT ![c] = "spawned"]
            /\ lis' = [lis EXCEPT ![c] = "start"]
    /\ UNCHANGED <<roomVars, replaced, sendTo, conns, connVars, wkVars, hbVars>>

Reject(c) ==
    /\ \/ /\ add[c] = "rejecting"
          /\ FirstClose(c)
          /\ add' = [add EXCEPT ![c] = "awaiting"]
       \/ /\ add[c] = "awaiting"
          /\ token[c]
          /\ add' = [add EXCEPT ![c] = "rejected"]
          /\ UNCHANGED closedFlag
    /\ UNCHANGED <<roomVars, lisVars, conns, token, wkVars, hbVars>>

-----------------------------------------------------------------------------
(* listener() *)

ListenerGoto(c, from, to) == /\ lis[c] = from
                             /\ lis' = [lis EXCEPT ![c] = to]

\* A room that is closing: the task ends and drops the connection.
ListenerStart(c) ==
    /\ ListenerGoto(c, "start", IF cancelled THEN "gone" ELSE "insert")
    /\ UNCHANGED <<roomVars, add, replaced, sendTo, conns, connVars, wkVars, hbVars>>

\* (variant: a newcomer waits until the name is free)
InsertWhenVacant(c) ==
    /\ ShardFree(NameOf[c])
    /\ conns[NameOf[c]] = NoConn
    /\ conns' = [conns EXCEPT ![NameOf[c]] = c]
    /\ ListenerGoto(c, "insert", "reading")
    /\ UNCHANGED <<roomVars, add, replaced, sendTo, connVars, wkVars, hbVars>>

\* entry(name): take the place of whoever is there.
Insert(c) ==
    /\ ShardFree(NameOf[c])
    /\ conns' = [conns EXCEPT ![NameOf[c]] = c]
    /\ IF conns[NameOf[c]] = NoConn
       THEN /\ ListenerGoto(c, "insert", "reading")
            /\ UNCHANGED replaced
       ELSE /\ ListenerGoto(c, "insert", "superseding")
            /\ replaced' = [replaced EXCEPT ![c] = conns[NameOf[c]]]
    /\ UNCHANGED <<roomVars, add, sendTo, connVars, wkVars, hbVars>>

\* (variant: the old connection is dropped without close())
SupersedeSilently(c) ==
    /\ ListenerGoto(c, "superseding", "reading")
    /\ replaced' = [replaced EXCEPT ![c] = NoConn]
    /\ UNCHANGED <<roomVars, add, sendTo, conns, connVars, wkVars, hbVars>>

\* old_conn.close().await, the entry still alive
Supersede(c) ==
    /\ \/ /\ ListenerGoto(c, "superseding", "awaiting")
          /\ FirstClose(replaced[c])
          /\ UNCHANGED replaced
       \/ /\ ListenerGoto(c, "superseding", "reading")
          /\ LaterClose(replaced[c])
          /\ replaced' = [replaced EXCEPT ![c] = NoConn]
       \/ /\ ListenerGoto(c, "awaiting", "reading")
          /\ token[replaced[c]]
          /\ replaced' = [replaced EXCEPT ![c] = NoConn]
          /\ UNCHANGED closedFlag
    /\ UNCHANGED <<roomVars, add, sendTo, conns, token, wkVars, hbVars>>

\* A whole frame: the inner select! is biased, so neither token was cancelled
\* when the payload was taken.
Unhindered(c) == ~token[c] /\ ~cancelled

ReadMessage(c) ==
    /\ Unhindered(c)
    /\ ListenerGoto(c, "reading", "sending")
    /\ \E w \in Workers : sendTo' = [sendTo EXCEPT ![c] = {w}]
    /\ UNCHANGED <<roomVars, add, replaced, conns, connVars, wkVars, hbVars>>

\* send().await: waits for room in the channel, whatever the tokens say; fails
\* only when the worker is gone.
Send(c) ==
    /\ ListenerGoto(c, "sending", "reading")
    /\ \E w \in sendTo[c] :
          \/ wk[w] # "exited" /\ chan[w] < Cap /\ chan' = [chan EXCEPT ![w] = @ + 1]
          \/ wk[w] = "exited" /\ UNCHANGED chan
    /\ sendTo' = [sendTo EXCEPT ![c] = {}]
    /\ UNCHANGED <<roomVars, add, replaced, conns, connVars, wk, wanted, target, hbVars>>

\* End of stream, an I/O error, or a frame that is refused: the loop ends.
PeerEnds(c) ==
    /\ ListenerGoto(c, "reading", "remove")
    /\ UNCHANGED <<roomVars, add, replaced, sendTo, conns, connVars, wkVars, hbVars>>

\* get_message_source_target slices without a look at the frame's length: the
\* task panics, and what follows the loop is not run.
ListenerPanics(c) ==
    /\ c \in Malformed
    /\ Unhindered(c)
    /\ ListenerGoto(c, "reading", "panicked")
    /\ UNCHANGED <<roomVars, add, replaced, sendTo, conns, connVars, wkVars, hbVars>>

\* (variants: a loop that listens to one of the two tokens, and one that ends
\* without the clean-up)
NoticeConnToken(c) ==
    /\ token[c]
    /\ ListenerGoto(c, "reading", "remove")
    /\ UNCHANGED <<roomVars, add, replaced, sendTo, conns, connVars, wkVars, hbVars>>
NoticeRoomToken(c) ==
    /\ cancelled
    /\ ListenerGoto(c, "reading", "remove")
    /\ UNCHANGED <<roomVars, add, replaced, sendTo, conns, connVars, wkVars, hbVars>>
NoticeAndReturn(c) ==
    /\ ~Unhindered(c)
    /\ ListenerGoto(c, "reading", "close")
    /\ UNCHANGED <<roomVars, add, replaced, sendTo, conns, connVars, wkVars, hbVars>>

NoticeToken(c) ==
    /\ ~Unhindered(c)
    /\ ListenerGoto(c, "reading", "remove")
    /\ UNCHANGED <<roomVars, add, replaced, sendTo, conns, connVars, wkVars, hbVars>>

\* (variant: remove by name only)
RemoveByName(c) ==
    /\ ShardFree(NameOf[c])
    /\ ListenerGoto(c, "remove", "close")
    /\ conns' = [conns EXCEPT ![NameOf[c]] = NoConn]
    /\ UNCHANGED <<roomVars, add, replaced, sendTo, connVars, wkVars, hbVars>>

\* remove_if: a newer connection of the same name stays.
Remove(c) ==
    /\ ShardFree(NameOf[c])
    /\ ListenerGoto(c, "remove", "close")
    /\ conns' = [conns EXCEPT ![NameOf[c]] = IF @ = c THEN NoConn ELSE @]
    /\ UNCHANGED <<roomVars, add, replaced, sendTo, connVars, wkVars, hbVars>>

ListenerCloses(c) ==
    /\ \/ ListenerGoto(c, "close", "closing") /\ FirstClose(c)
       \/ ListenerGoto(c, "close", "gone") /\ LaterClose(c)
       \/ ListenerGoto(c, "closing", "gone") /\ token[c] /\ UNCHANGED closedFlag
    /\ UNCHANGED <<roomVars, add, replaced, sendTo, conns, token, wkVars, hbVars>>

-----------------------------------------------------------------------------
(* worker() *)

WorkerTakes(w) ==
    /\ wk[w] = "waiting"
    /\ ~cancelled
    /\ chan[w] > 0
    /\ chan' = [chan EXCEPT ![w] = @ - 1]
    /\ wk' = [wk EXCEPT ![w] = "lookup"]
    /\ \E n \in Names : wanted' = [wanted EXCEPT ![w] = {n}]
    /\ UNCHANGED <<roomVars, add, lisVars, conns, connVars, target, hbVars>>

\* conns.get() of the task's target and, for a 404, of its source; nobody
\* there: the task is dropped.
WorkerLooksUp(w) ==
    /\ wk[w] \in {"lookup", "lookupSource"}
    /\ \E n \in wanted[w] :
          /\ ShardFree(n)
          /\ target' = [target EXCEPT ![w] = conns[n]]
          /\ \/ /\ conns[n] # NoConn
                /\ wk' = [wk EXCEPT ![w] = "writing"]
                /\ wanted' = [wanted EXCEPT ![w] = {}]
             \/ /\ conns[n] = NoConn
                /\ wk' = [wk EXCEPT ![w] = "waiting"]
                /\ wanted' = [wanted EXCEPT ![w] = {}]
             \/ /\ conns[n] = NoConn
                /\ wk[w] = "lookup"
                /\ wk' = [wk EXCEPT ![w] = "lookupSource"]
                /\ \E m \in Names : wanted' = [wanted EXCEPT ![w] = {m}]
    /\ UNCHANGED <<roomVars, add, lisVars, conns, connVars, chan, hbVars>>

\* write() has returned; one that timed out has cancelled the token.
WorkerWrote(w) ==
    /\ wk[w] = "writing"
    /\ wk' = [wk EXCEPT ![w] = "waiting"]
    /\ target' = [target EXCEPT ![w] = NoConn]
    /\ \/ UNCHANGED token
       \/ token' = [token EXCEPT ![target[w]] = TRUE]
    /\ UNCHANGED <<roomVars, add, lisVars, conns, closedFlag, chan, wanted, hbVars>>

WorkerExits(w) ==
    /\ wk[w] = "waiting"
    /\ cancelled
    /\ wk' = [wk EXCEPT ![w] = "exited"]
    /\ UNCHANGED <<roomVars, add, lisVars, conns, connVars, chan, wanted, target, hbVars>>

-----------------------------------------------------------------------------
(* heartbeat() *)

HeartbeatExits ==
    /\ hb = "waiting"
    /\ cancelled
    /\ hb' = "exited"
    /\ UNCHANGED <<roomVars, add, lisVars, conns, connVars, wkVars, todo, hbConn>>

\* tick: the snapshot takes every shard of the map.
HeartbeatTicks ==
    /\ hb = "waiting"
    /\ ~cancelled
    /\ \A n \in Names : ShardFree(n)
    /\ hb' = "polling"
    /\ todo' = {conns[n] : n \in Names} \ {NoConn}
    /\ UNCHANGED <<roomVars, add, lisVars, conns, connVars, wkVars, hbConn>>

\* One connection of the snapshot: close it if it has been silent for too
\* long, else write a ping to it.
HeartbeatPicks ==
    /\ hb = "polling"
    /\ ~cancelled
    /\ \E c \in todo : /\ todo' = todo \ {c}
                       /\ hbConn' = c
    /\ hb' \in {"closing", "writing"}
    /\ UNCHANGED <<roomVars, add, lisVars, conns, connVars, wkVars>>

HeartbeatWrote ==
    /\ hb = "writing"
    /\ \/ hb' = "polling" /\ hbConn' = NoConn /\ UNCHANGED token
       \/ hb' = "closing" /\ UNCHANGED <<token, hbConn>>
       \/ /\ hb' = "closing"
          /\ token' = [token EXCEPT ![hbConn] = TRUE]
          /\ UNCHANGED hbConn
    /\ UNCHANGED <<roomVars, add, lisVars, conns, closedFlag, wkVars, todo>>

HeartbeatCloses ==
    /\ \/ /\ hb = "closing" /\ FirstClose(hbConn)
          /\ hb' = "awaiting" /\ UNCHANGED hbConn
       \/ /\ hb = "closing" /\ LaterClose(hbConn)
          /\ hb' = "polling" /\ hbConn' = NoConn
       \/ /\ hb = "awaiting" /\ token[hbConn]
          /\ hb' = "polling" /\ hbConn' = NoConn /\ UNCHANGED closedFlag
    /\ UNCHANGED <<roomVars, add, lisVars, conns, token, wkVars, todo>>

HeartbeatRoundEnds ==
    /\ hb = "polling"
    /\ cancelled \/ todo = {}
    /\ hb' = "waiting"
    /\ todo' = {}
    /\ UNCHANGED <<roomVars, add, lisVars, conns, connVars, wkVars, hbConn>>

-----------------------------------------------------------------------------
(* close() *)

CloserGoto(from, to) == closer = from /\ closer' = to

CloseFlags ==
    /\ CloserGoto("idle", "flagged")
    /\ isClosed' = TRUE
    /\ UNCHANGED <<cancelled, add, lisVars, conns, connVars, wkVars, hbVars>>

CloseCancels ==
    /\ CloserGoto("flagged", "cancelled")
    /\ cancelled' = TRUE
    /\ UNCHANGED <<isClosed, add, lisVars, conns, connVars, wkVars, hbVars>>

CloseLocks ==
    /\ CloserGoto("cancelled", "joining")
    /\ UNCHANGED <<isClosed, cancelled, add, lisVars, conns, connVars, wkVars, hbVars>>

Ended(c) == lis[c] \in {"none", "gone", "panicked"}
AllEnded == /\ \A c \in Conns : Ended(c)
            /\ \A w \in Workers : wk[w] = "exited"
            /\ hb = "exited"

\* (variant: the tasks are not waited for)
CloseJoinsNobody ==
    /\ CloserGoto("joining", "joined")
    /\ UNCHANGED <<isClosed, cancelled, add, lisVars, conns, connVars, wkVars, hbVars>>

\* join_next() until the set is empty
CloseJoins ==
    /\ CloserGoto("joining", "joined")
    /\ AllEnded
    /\ UNCHANGED <<isClosed, cancelled, add, lisVars, conns, connVars, wkVars, hbVars>>

CloseClears ==
    /\ CloserGoto("joined", "done")
    /\ conns' = [n \in Names |-> NoConn]
    /\ UNCHANGED <<isClosed, cancelled, add, lisVars, connVars, wkVars, hbVars>>

-----------------------------------------------------------------------------
\* What each task does by itself ...
Adder(c)    == Enter(c) \/ Reject(c)
Listener(c) == \/ ListenerStart(c) \/ Insert(c) \/ Supersede(c) \/ Send(c)
               \/ NoticeToken(c) \/ Remove(c) \/ ListenerCloses(c)
Worker(w)   == \/ WorkerTakes(w) \/ WorkerLooksUp(w)
               \/ WorkerWrote(w) \/ WorkerExits(w)
Heartbeat   == \/ HeartbeatExits \/ HeartbeatTicks \/ HeartbeatPicks
               \/ HeartbeatWrote \/ HeartbeatCloses \/ HeartbeatRoundEnds
Closer      == CloseCancels \/ CloseLocks \/ CloseJoins \/ CloseClears

\* ... and what the node and the peers make happen.
Outside == \/ \E c \in Conns : \/ Offer(c) \/ ReadMessage(c)
                               \/ PeerEnds(c) \/ ListenerPanics(c)
           \/ CloseFlags

\* The room is closed and everybody that came has been dealt with.
Finished == /\ closer = "done"
            /\ \A c \in Conns : add[c] \in {"spawned", "rejected"}
            /\ UNCHANGED vars

Next == \/ \E c \in Conns : Adder(c) \/ Listener(c) \/ ConnCancels(c)
        \/ \E w \in Workers : Worker(w)
        \/ Heartbeat
        \/ Closer
        \/ Outside
        \/ Finished

\* Tasks are scheduled, and the calls of Conn they wait for return.  A channel
\* serves the senders that wait for it in their order, so none waits for ever
\* while others get in: strong fairness.
Fairness == /\ \A c \in Conns : /\ WF_vars(Adder(c) \/ Listener(c))
                                /\ SF_vars(Send(c))
                                /\ WF_vars(ConnCancels(c))
            /\ \A w \in Workers : WF_vars(Worker(w))
            /\ WF_vars(Heartbeat)
            /\ WF_vars(Closer)

Spec == Init /\ [][Next]_vars
FairSpec == Spec /\ Fairness

-----------------------------------------------------------------------------
(* What must hold *)

\* Every variable has the shape the code gives it; no channel holds more than
\* its capacity.
TypeOK ==
    /\ isClosed \in BOOLEAN /\ cancelled \in BOOLEAN
    /\ closer \in {"idle", "flagged", "cancelled", "joining", "joined", "done"}
    /\ add \in [Conns -> {"new", "locking", "spawned", "rejecting", "awaiting",
                          "rejected"}]
    /\ lis \in [Conns -> {"none", "start", "insert", "superseding", "awaiting",
                          "reading", "sending", "remove", "close", "closing",
                          "gone", "panicked"}]
    /\ replaced \in [Conns -> Conns \cup {NoConn}]
    /\ conns \in [Names -> Conns \cup {NoConn}]
    /\ closedFlag \in [Conns -> BOOLEAN] /\ token \in [Conns -> BOOLEAN]
    /\ chan \in [Workers -> 0 .. Cap]
    /\ sendTo \in [Conns -> SUBSET Workers]
    /\ wk \in [Workers -> {"waiting", "lookup", "lookupSource", "writing", "exited"}]
    /\ wanted \in [Workers -> SUBSET Names]
    /\ target \in [Workers -> Conns \cup {NoConn}]
    /\ hb \in {"waiting", "polling", "writing", "closing", "awaiting", "exited"}
    /\ todo \in SUBSET Conns /\ hbConn \in Conns \cup {NoConn}

\* A listener that has registered its connection and has its clean-up ahead.
Serving == {"superseding", "awaiting", "reading", "sending", "remove"}

\* Every entry of the map stands under its name and has a listener that will
\* take it out again (line 163), unless that listener panicked.
RegisteredIsServed ==
    \A n \in Names : conns[n] # NoConn =>
        /\ NameOf[conns[n]] = n
        /\ lis[conns[n]] \in Serving \cup {"panicked"}

\* The converse, "not to delete the new connection by mistake" (line 345): a
\* connection that is listened to can be found in the map, or somebody is
\* closing it.
ServedIsRegistered ==
    \A c \in Conns : lis[c] \in Serving \ {"remove"} =>
        \/ conns[NameOf[c]] = c
        \/ closedFlag[c]
        \/ \E d \in Conns : lis[d] = "superseding" /\ replaced[d] = c

\* Line 171, "conns should be empty by now", for all but those a panic left.
LeftoversPanicked ==
    closer = "joined" =>
        \A n \in Names : conns[n] # NoConn => lis[conns[n]] = "panicked"

\* The same line as it stands.
EmptyBeforeClear ==
    closer = "joined" => \A n \in Names : conns[n] = NoConn

\* Line 174, "completely closed": nobody is in the map, no task of the room is
\* left, and none is started however late a connection is offered.
ClosedRoomIsQuiet ==
    closer = "done" => AllEnded /\ \A n \in Names : conns[n] = NoConn

\* Where the closer is tells how far the closing is, and what cannot be undone.
CloserInv ==
    /\ isClosed <=> closer # "idle"
    /\ cancelled <=> closer \notin {"idle", "flagged"}
    /\ closer \in {"joined", "done"} => AllEnded
    /\ \A c \in Conns : lis[c] # "none" => add[c] = "spawned"

\* A locked shard belongs to one replacing listener, which is in the map with a
\* predecessor of its name in hand.
ShardInv ==
    \A c \in Conns :
        /\ lis[c] \in {"none", "start", "insert"} =>
              \A n \in Names : conns[n] # c
        /\ HoldsShard(c) => /\ conns[NameOf[c]] = c
                           /\ replaced[c] \in Conns \ {c}
                           /\ NameOf[replaced[c]] = NameOf[c]
        /\ lis[c] = "awaiting" => closedFlag[replaced[c]]

\* The inductive invariant.
RoomInv == /\ TypeOK /\ CloserInv /\ ShardInv
           /\ RegisteredIsServed /\ ServedIsRegistered /\ ClosedRoomIsQuiet

\* What the node sees of the room: whether it is open, and the connections that
\* have a listener in it.
Phase == IF closer = "idle" THEN "open"
         ELSE IF closer = "done" THEN "closed" ELSE "closing"
Guest == [c \in Conns |->
            IF \/ lis[c] \in {"gone", "panicked"}
               \/ add[c] \in {"rejecting", "awaiting", "rejected"}
            THEN "gone"
            ELSE IF lis[c] = "none" THEN "outside" ELSE "inside"]

AsHall == INSTANCE Hall WITH Guests <- Conns, phase <- Phase, guest <- Guest

\* Room implements Hall (lines 128-174): a connection gets its listener only in a
\* room that is open, gets one only, and close() ends after the last of them.
ImplementsHall == AsHall!Spec

\* Lines 162-165: close() comes to its end, with listeners in the middle of a
\* frame, workers in the middle of a write and full channels.
CloseCompletes == closer = "flagged" ~> closer = "done"

\* Line 171 of conn.rs: whoever cancels a connection's token, its listener
\* leaves the loop, cleans up and ends; no connection lingers for ever.
Lingers(c) == token[c] /\ lis[c] \in Serving
ClosedConnEnds ==
    (\E c \in Conns : Lingers(c)) ~> (\A c \in Conns : ~Lingers(c))

\* A connection that is offered gets its name, or comes to its end: it does not
\* wait for ever for a lock, a shard or its predecessor.
Unanswered(c) == \/ add[c] \in {"locking", "rejecting", "awaiting"}
                 \/ lis[c] \in {"start", "insert"}
OfferAnswered ==
    (\E c \in Conns : Unanswered(c)) ~> (\A c \in Conns : ~Unanswered(c))
=============================================================================
