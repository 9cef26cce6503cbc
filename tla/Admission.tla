----------------------------- MODULE Admission -----------------------------
(***************************************************************************)
(* fernqd/src/server/node.rs: the accept loop (listen), the task that      *)
(* examines each new client (add_connection), and close(), which waits for *)
(* them; beside them add_room, which may put a room into the map behind    *)
(* the back of close(), and remove_room, which may take one from under a   *)
(* client.  A room is open, closing, or closed (Room has the details);     *)
(* what is on disk after a crash is Registry's business.  A definition     *)
(* marked "variant" is a plausible slip in the one after it.               *)
(***************************************************************************)
EXTENDS Naturals, FiniteSets

CONSTANTS Clients,   (* the TCP connections that come in                 *)
          Rooms,     (* all rooms ...                                    *)
          Loaded,    (* ... and those start() has loaded                 *)
          WantOf,    (* the room each client names in its first frame    *)
          Genuine,   (* the clients that name its title and password too *)
          NoClient, NoRoom

ASSUME AdmissionAssumption == /\ WantOf \in [Clients -> Rooms]
                              /\ Loaded \subseteq Rooms
                              /\ Genuine \subseteq Clients
                              /\ NoClient \notin Clients
                              /\ NoRoom \notin Rooms

VARIABLES token,    (* the node's cancel_token, line 29                   *)
          loop,     (* the task in listen() ...                           *)
          inHand,   (* ... and the client it has accepted and not spawned *)
          task,     (* the task in add_connection() of each client        *)
          link,     (* the server's end of each client's connection       *)
          members,  (* the clients a room has a listener for              *)
          stored, rooms,   (* the rooms on disk, and in ServerNode.rooms  *)
          phase,    (* of each room                                       *)
          add,      (* the task in add_room() of each room                *)
          remove,   (* the task in remove_room() of each room             *)
          behind,   (* (history) rooms put in after close() came by       *)
          close,    (* the task in close() ...                            *)
          sweep, current   (* ... the rooms ahead of it, the one at hand  *)

loopVars   == <<loop, inHand>>
clientVars == <<task, link, members>>
roomVars   == <<stored, rooms, phase, add, remove, behind>>
closeVars  == <<close, sweep, current>>
vars == <<token, loopVars, clientVars, roomVars, closeVars>>

\* start() has loaded the rooms and spawned listen().  A room that is not made yet
\* has the phase it will be in when it is.
Init == /\ token = FALSE
        /\ loop = "bind" /\ inHand = NoClient
        /\ task = [c \in Clients |-> "none"]
        /\ link = [c \in Clients |-> "outside"]
        /\ members = {}
        /\ stored = Loaded /\ rooms = Loaded
        /\ phase = [r \in Rooms |-> "open"]
        /\ add = [r \in Rooms |-> IF r \in Loaded THEN "done" ELSE "idle"]
        /\ remove = [r \in Rooms |-> "idle"]
        /\ behind = {}
        /\ close = "idle" /\ sweep = {} /\ current = NoRoom

\* close() keeps the lock of worker_set from line 107 on.
LockFree == close # "joining"

-----------------------------------------------------------------------------
(* listen() *)

LoopGoto(from, to) == loop = from /\ loop' = to

Bind ==
    /\ \/ LoopGoto("bind", "accepting")
       \/ LoopGoto("bind", "ended")
    /\ UNCHANGED <<token, inHand, clientVars, roomVars, closeVars>>

\* The select! of the loop is not biased: a client may be accepted though the
\* token is cancelled.
AcceptClient(c) ==
    /\ LoopGoto("accepting", "spawning")
    /\ link[c] = "outside"
    /\ link' = [link EXCEPT ![c] = "open"]
    /\ inHand' = c
    /\ UNCHANGED <<token, task, members, roomVars, closeVars>>

\* The new task needs the lock; no token is looked at.
SpawnTask ==
    /\ LoopGoto("spawning", "accepting")
    /\ LockFree
    /\ task' = [task EXCEPT ![inHand] = "reading"]
    /\ inHand' = NoClient
    /\ UNCHANGED <<token, link, members, roomVars, closeVars>>

\* Some errors of accept() end the loop for good, the others are passed over.
AcceptFails ==
    /\ LoopGoto("accepting", "ended")
    /\ UNCHANGED <<token, inHand, clientVars, roomVars, closeVars>>

\* (variant: the token is looked at once)
NoticeTokenOnce ==
    /\ token
    /\ LoopGoto("bind", "ended")
    /\ UNCHANGED <<token, inHand, clientVars, roomVars, closeVars>>

NoticeToken ==
    /\ token
    /\ LoopGoto("accepting", "ended")
    /\ UNCHANGED <<token, inHand, clientVars, roomVars, closeVars>>

-----------------------------------------------------------------------------
(* add_connection() *)

TaskGoto(c, from, to) == /\ task[c] = from
                         /\ task' = [task EXCEPT ![c] = to]

HangUp(c) == link' = [link EXCEPT ![c] = "closed"]

\* Shut down at once, or after an answer that says why.
TurnAway(c, from) ==
    \/ TaskGoto(c, from, "refusing") /\ UNCHANGED link
    \/ TaskGoto(c, from, "end") /\ HangUp(c)

\* The peer sends header and body, or something else, or is gone: an I/O error is no
\* timeout and is passed over, and the zeros read in its place are refused by the
\* parsers.
FrameComes(c) ==
    /\ \/ TaskGoto(c, "reading", "check") /\ UNCHANGED link
       \/ TurnAway(c, "reading")
    /\ UNCHANGED <<token, loopVars, members, roomVars, closeVars>>

\* Line 359: is there such a room on disk?
CheckRoom(c) ==
    /\ \/ /\ WantOf[c] \in stored
          /\ TaskGoto(c, "check", "load")
          /\ UNCHANGED link
       \/ TurnAway(c, "check")
    /\ UNCHANGED <<token, loopVars, members, roomVars, closeVars>>

\* (variant: title and password are not compared)
LoadUnchecked(c) ==
    /\ WantOf[c] \in stored
    /\ TaskGoto(c, "load", "welcoming")
    /\ UNCHANGED <<token, loopVars, link, members, roomVars, closeVars>>

\* Line 398: the record again, its title and password compared.
LoadRoom(c) ==
    /\ \/ /\ WantOf[c] \in stored
          /\ c \in Genuine
          /\ TaskGoto(c, "load", "welcoming")
          /\ UNCHANGED link
       \/ TurnAway(c, "load")
    /\ UNCHANGED <<token, loopVars, members, roomVars, closeVars>>

\* The peer takes the answer, or the write fails, which is passed over.
WelcomeTaken(c) ==
    /\ TaskGoto(c, "welcoming", "lookup")
    /\ UNCHANGED <<token, loopVars, link, members, roomVars, closeVars>>

RefusalTaken(c) ==
    /\ TaskGoto(c, "refusing", "end")
    /\ HangUp(c)
    /\ UNCHANGED <<token, loopVars, members, roomVars, closeVars>>

\* (variant: the answers are written without a timeout)
ReadTimesOut(c) ==
    /\ TaskGoto(c, "reading", "end")
    /\ HangUp(c)
    /\ UNCHANGED <<token, loopVars, members, roomVars, closeVars>>

\* 5 s for the header, for the body and for an answer; then the client is given up.
TimesOut(c) ==
    /\ \E from \in {"reading", "refusing", "welcoming"} : TaskGoto(c, from, "end")
    /\ HangUp(c)
    /\ UNCHANGED <<token, loopVars, members, roomVars, closeVars>>

\* (variant: the connection is kept)
LookupForgets(c) ==
    /\ TaskGoto(c, "lookup", IF WantOf[c] \in rooms THEN "handing" ELSE "end")
    /\ UNCHANGED <<token, loopVars, link, members, roomVars, closeVars>>

\* rooms.get(): a room that is gone from memory means the end; the connection is
\* dropped, whatever the client was told.
Lookup(c) ==
    /\ \/ /\ WantOf[c] \in rooms
          /\ TaskGoto(c, "lookup", "handing")
          /\ UNCHANGED link
       \/ /\ WantOf[c] \notin rooms
          /\ TaskGoto(c, "lookup", "end")
          /\ HangUp(c)
    /\ UNCHANGED <<token, loopVars, members, roomVars, closeVars>>

\* add_conn(): a room that is being closed, or was, closes the connection; in an
\* open one the lock of the room's tasks is asked for.
HandOver(c) ==
    /\ \/ /\ phase[WantOf[c]] = "open"
          /\ TaskGoto(c, "handing", "waiting")
          /\ UNCHANGED link
       \/ /\ phase[WantOf[c]] # "open"
          /\ TaskGoto(c, "handing", "end")
          /\ HangUp(c)
    /\ UNCHANGED <<token, loopVars, members, roomVars, closeVars>>

\* (variant: the room is not asked again whether it is open)
JoinUnchecked(c) ==
    /\ TaskGoto(c, "waiting", "end")
    /\ members' = members \cup {c}
    /\ UNCHANGED <<token, loopVars, link, roomVars, closeVars>>

\* With the lock in hand the room is asked again; an open one spawns a listener.  The
\* lock may come before the room's close() gets it, or after it is through.
JoinRoom(c) ==
    /\ TaskGoto(c, "waiting", "end")
    /\ \/ /\ phase[WantOf[c]] = "open"
          /\ members' = members \cup {c}
          /\ UNCHANGED link
       \/ /\ phase[WantOf[c]] # "open"
          /\ HangUp(c)
          /\ UNCHANGED members
    /\ UNCHANGED <<token, loopVars, roomVars, closeVars>>

\* The listener of c ends: its peer has left, or the room is closing.
MemberLeaves(c) ==
    /\ c \in members
    /\ members' = members \ {c}
    /\ HangUp(c)
    /\ UNCHANGED <<token, loopVars, task, roomVars, closeVars>>

-----------------------------------------------------------------------------
(* add_room() *)

AddGoto(r, from, to) == add[r] = from /\ add' = [add EXCEPT ![r] = to]

AddBegins(r) ==
    /\ ~token
    /\ AddGoto(r, "idle", "create")
    /\ UNCHANGED <<token, loopVars, clientVars, stored, rooms, phase, remove, behind,
                   closeVars>>

\* create_room() and open(); an error of the disk ends the request, and a persist
\* that fails leaves the record there.
AddCreates(r) ==
    /\ \/ /\ AddGoto(r, "create", "insert")
          /\ stored' = stored \cup {r}
       \/ /\ AddGoto(r, "create", "failed")
          /\ stored' \in {stored, stored \cup {r}}
    /\ UNCHANGED <<token, loopVars, clientVars, rooms, phase, remove, behind, closeVars>>

\* The token is not looked at again.  close(), which walks the map shard by shard,
\* comes by the room, or has been there and leaves it behind.
AddInserts(r) ==
    /\ AddGoto(r, "insert", "done")
    /\ rooms' = rooms \cup {r}
    /\ \/ close \in {"idle", "begin"} /\ UNCHANGED <<sweep, behind>>
       \/ close = "sweep" /\ sweep' = sweep \cup {r} /\ UNCHANGED behind
       \/ close \notin {"idle", "begin"} /\ behind' = behind \cup {r} /\ UNCHANGED sweep
    /\ UNCHANGED <<token, loopVars, clientVars, stored, phase, remove, close, current>>

-----------------------------------------------------------------------------
(* remove_room() *)

RemoveGoto(r, from, to) == remove[r] = from /\ remove' = [remove EXCEPT ![r] = to]

Vacant(r) == \A c \in members : WantOf[c] # r

\* rooms.get() keeps the shard of the room locked while add_conn() runs.
Unpinned(r) == \A c \in Clients : task[c] \in {"handing", "waiting"} => WantOf[c] # r

RemoveBegins(r) ==
    /\ ~token
    /\ r \in stored
    /\ RemoveGoto(r, "idle", "take")
    /\ UNCHANGED <<token, loopVars, clientVars, stored, rooms, phase, add, behind, closeVars>>

\* Out of the map, then closed, like the one the node's close() is busy with.
RemoveTakes(r) ==
    /\ Unpinned(r)
    /\ current # r
    /\ IF r \in rooms
       THEN /\ RemoveGoto(r, "take", "join")
            /\ phase' = [phase EXCEPT ![r] = "closing"]
       ELSE RemoveGoto(r, "take", "delete") /\ UNCHANGED phase
    /\ rooms' = rooms \ {r}
    /\ sweep' = sweep \ {r}
    /\ UNCHANGED <<token, loopVars, clientVars, stored, add, behind, close, current>>

RemoveJoins(r) ==
    /\ Vacant(r)
    /\ RemoveGoto(r, "join", "delete")
    /\ phase' = [phase EXCEPT ![r] = "closed"]
    /\ UNCHANGED <<token, loopVars, clientVars, stored, rooms, add, behind, closeVars>>

RemoveDeletes(r) ==
    /\ RemoveGoto(r, "delete", "end")
    /\ stored' \in {stored, stored \ {r}}
    /\ UNCHANGED <<token, loopVars, clientVars, rooms, phase, add, behind, closeVars>>

-----------------------------------------------------------------------------
(* close() *)

CloseGoto(from, to) == close = from /\ close' = to

CloseCancels ==
    /\ CloseGoto("idle", "begin")
    /\ token' = TRUE
    /\ UNCHANGED <<loopVars, clientVars, roomVars, sweep, current>>

CloseBegins ==
    /\ CloseGoto("begin", "sweep")
    /\ sweep' = rooms
    /\ UNCHANGED <<token, loopVars, clientVars, roomVars, current>>

ClosePicks ==
    /\ close = "sweep"
    /\ current = NoRoom
    /\ \E r \in sweep : /\ current' = r
                        /\ sweep' = sweep \ {r}
                        /\ phase' = [phase EXCEPT ![r] = "closing"]
    /\ UNCHANGED <<token, loopVars, clientVars, stored, rooms, add, remove, behind, close>>

CloseRoom ==
    /\ current # NoRoom
    /\ Vacant(current)
    /\ phase' = [phase EXCEPT ![current] = "closed"]
    /\ current' = NoRoom
    /\ UNCHANGED <<token, loopVars, clientVars, stored, rooms, add, remove, behind, close,
                   sweep>>

CloseClears ==
    /\ sweep = {} /\ current = NoRoom
    /\ \A r \in rooms : Unpinned(r)
    /\ CloseGoto("sweep", "joining")
    /\ rooms' = {}
    /\ UNCHANGED <<token, loopVars, clientVars, stored, phase, add, remove, behind, sweep,
                   current>>

\* (variant: the accept loop alone is waited for)
CloseJoinsLoop ==
    /\ loop = "ended"
    /\ CloseGoto("joining", "done")
    /\ UNCHANGED <<token, loopVars, clientVars, roomVars, sweep, current>>

Idle(c) == task[c] \in {"none", "end"}

\* The lock of worker_set, and join_next() until the set is empty: the accept loop
\* and every task it has spawned.
CloseJoins ==
    /\ loop = "ended"
    /\ \A c \in Clients : Idle(c)
    /\ CloseGoto("joining", "done")
    /\ UNCHANGED <<token, loopVars, clientVars, roomVars, sweep, current>>

-----------------------------------------------------------------------------
\* The lock of a room's tasks is had in the end, but not while Room::close joins them.
Served(c) == phase[WantOf[c]] # "closing" /\ JoinRoom(c)

\* What each task does by itself ...
Listen == Bind \/ SpawnTask \/ NoticeToken
Examine(c) == \/ TimesOut(c) \/ CheckRoom(c) \/ LoadRoom(c) \/ Lookup(c) \/ HandOver(c)
              \/ Served(c)
AddRoom(r) == AddCreates(r) \/ AddInserts(r)
RemoveRoom(r) == RemoveTakes(r) \/ RemoveJoins(r) \/ RemoveDeletes(r)
Close == CloseBegins \/ ClosePicks \/ CloseRoom \/ CloseClears \/ CloseJoins

\* ... what it does when the peer does its part, or the lock is free that early ...
AddConnection(c) == \/ Examine(c) \/ JoinRoom(c)
                    \/ FrameComes(c) \/ WelcomeTaken(c) \/ RefusalTaken(c)

\* ... and what clients, peers and the operator bring about.
Outside == \/ \E c \in Clients : AcceptClient(c) \/ MemberLeaves(c)
           \/ \E r \in Rooms : AddBegins(r) \/ RemoveBegins(r)
           \/ AcceptFails \/ CloseCancels

Next == \/ Listen \/ Close \/ Outside
        \/ \E c \in Clients : AddConnection(c)
        \/ \E r \in Rooms : AddRoom(r) \/ RemoveRoom(r)

\* A member of a room that is closing leaves: Room's ClosedRoomIsQuiet and
\* CloseCompletes.
Expelled(c) == phase[WantOf[c]] = "closing" /\ MemberLeaves(c)

\* Tasks are scheduled, and the 5 s timeouts of a client's task fire; nobody need
\* ever come, send, read an answer, leave or ask for anything.
Fairness == /\ WF_vars(Listen) /\ WF_vars(Close)
            /\ \A c \in Clients : WF_vars(Examine(c)) /\ WF_vars(Expelled(c))
            /\ \A r \in Rooms : WF_vars(RemoveRoom(r))

Spec == Init /\ [][Next]_vars
FairSpec == Spec /\ Fairness

-----------------------------------------------------------------------------
(* What must hold *)

\* Every variable has the shape the code gives it; the accept loop has a client in
\* hand while it waits for the lock, and only then.
TypeOK ==
    /\ token \in BOOLEAN
    /\ loop \in {"bind", "accepting", "spawning", "ended"}
    /\ IF loop = "spawning" THEN inHand \in Clients ELSE inHand = NoClient
    /\ task \in [Clients -> {"none", "reading", "check", "load", "refusing", "welcoming",
                             "lookup", "handing", "waiting", "end"}]
    /\ link \in [Clients -> {"outside", "open", "closed"}]
    /\ members \in SUBSET Clients
    /\ stored \in SUBSET Rooms /\ rooms \in SUBSET Rooms
    /\ phase \in [Rooms -> {"open", "closing", "closed"}]
    /\ add \in [Rooms -> {"idle", "create", "insert", "failed", "done"}]
    /\ remove \in [Rooms -> {"idle", "take", "join", "delete", "end"}]
    /\ behind \in SUBSET Rooms
    /\ close \in {"idle", "begin", "sweep", "joining", "done"}
    /\ sweep \in SUBSET Rooms /\ current \in Rooms \cup {NoRoom}

\* Nobody is forgotten: a connection the server has open is in the hands of the
\* accept loop, of its own task or of a room, and of one of them only; nobody
\* keeps one that is closed.
KeptOnce(c) ==
    /\ link[c] = "outside" => inHand # c /\ task[c] = "none" /\ c \notin members
    /\ link[c] = "open" => \/ inHand = c /\ task[c] = "none" /\ c \notin members
                           \/ inHand # c /\ ~Idle(c) /\ c \notin members
                           \/ inHand # c /\ task[c] = "end" /\ c \in members
    /\ link[c] = "closed" => inHand # c /\ task[c] = "end" /\ c \notin members

EachHasOneKeeper == \A c \in Clients : KeptOnce(c)

\* Lines 434-467: only who knows the room's title and password gets in.
MembersAreGenuine == members \subseteq Genuine

\* A room that has been closed, by whomever, has no member left and gets no new
\* one, from tasks that found it in the map before.
ClosedRoomIsEmpty == \A r \in Rooms : phase[r] = "closed" => Vacant(r)

\* Lines 94-115: once close() is through there is no connection left, whoever was
\* in the middle of being accepted, examined or handed over.  Two kinds of room
\* escape it: one that a removal is closing, since its task is not in worker_set, and
\* one that add_room(), begun before, put into the map where close() had been.
ClosedNodeIsQuiet ==
    close = "done" =>
        \A c \in Clients :
            link[c] = "open" => remove[WantOf[c]] = "join" \/ WantOf[c] \in behind

\* What a task has found out about its client.
TaskInv ==
    \A c \in Clients :
        task[c] \in {"welcoming", "lookup", "handing", "waiting"} => c \in Genuine

\* Nobody knows of a room before add_room() has put it into the map.
Unknown(r) ==
    /\ r \notin rooms /\ r # current /\ r \notin behind
    /\ remove[r] # "join" /\ phase[r] = "open"
    /\ Vacant(r) /\ Unpinned(r)

AddInv == \A r \in Rooms : add[r] # "done" => Unknown(r)

\* close() comes by every room in the map, unless a removal has it in hand or it was
\* put in too late.
SweepInv ==
    /\ close # "sweep" => current = NoRoom
    /\ close = "done" => loop = "ended" /\ \A c \in Clients : Idle(c)
    /\ \A r \in Rooms : \/ phase[r] = "closed"
                        \/ add[r] # "done"
                        \/ remove[r] = "join"
                        \/ r = current
                        \/ r \in behind
                        \/ r \in rooms /\ close \in {"idle", "begin"}
                        \/ r \in rooms /\ close = "sweep" /\ r \in sweep

\* Who has a room in hand to close it is alone with it, and has told it.
RemovalInv ==
    /\ sweep \subseteq rooms
    /\ \A r \in Rooms :
          /\ remove[r] = "join" => /\ r \notin rooms /\ r # current
                                   /\ phase[r] = "closing"
          /\ r = current => phase[r] = "closing"

\* The inductive invariant.
AdmissionInv == /\ TypeOK /\ TaskInv /\ AddInv /\ SweepInv /\ RemovalInv
                /\ EachHasOneKeeper /\ MembersAreGenuine
                /\ ClosedRoomIsEmpty /\ ClosedNodeIsQuiet

\* What is going on in one room: the clients that want it are its guests.
GuestsOf(r) == {c \in Clients : WantOf[c] = r}
Guest(c) == IF c \in members THEN "inside"
            ELSE IF link[c] = "closed" THEN "gone" ELSE "outside"

Hall(r) == INSTANCE Hall WITH Guests <- GuestsOf(r), phase <- phase[r],
                              guest <- [c \in GuestsOf(r) |-> Guest(c)]

\* Each room behaves to the node as Room implements it, whatever tasks, removals
\* and close() have it in hand: nobody gets in once any of them began to close it.
ImplementsHalls ==
    /\ \A r \in Rooms : Hall(r)!Init
    /\ [][\A r \in Rooms : [Hall(r)!Next]_(Hall(r)!hallVars)]_vars

\* Every client that is examined gets to the end of it, though it send nothing, or
\* read no answer, and though its room be closed while it waits for the room's lock.
ExaminedInTime == \A c \in Clients : ~Idle(c) ~> Idle(c)

\* The accept loop waits for a lock that close() holds while it waits for the
\* accept loop.
Stuck == close = "joining" /\ loop = "spawning"

\* close() comes to its end, with clients being examined and rooms being added and
\* removed; as long as every task is scheduled, there is one thing only it can be
\* stuck on.
CloseEndsOrStuck == token ~> close = "done" \/ Stuck

\* Lines 91 and 106: close() makes the accept loop end, and waits for it and for
\* the connections in progress.
CloseEnds == token ~> close = "done"
=============================================================================
