------------------------------ MODULE Registry ------------------------------
(***************************************************************************)
(* The rooms of a fernqd process, on disk and in memory:                   *)
(* fernqd/src/server/node.rs (start, close, add_room, remove_room) over    *)
(* storage/db.rs, as main.rs runs them, each request in a task of its own. *)
(* The process may crash at any moment and be started again.  A room is    *)
(* named by the request that adds it, for RoomModel::new gives it a fresh  *)
(* id.  Room::close is one step here; Room shows that it comes to its end. *)
(* A definition marked "variant" is a plausible slip in the one after it.  *)
(***************************************************************************)
EXTENDS Naturals, FiniteSets

CONSTANTS Rooms,      (* the requests to add a room, and the rooms       *)
          Titles,     (* the names rooms are asked for under             *)
          TitleOf,    (* the name of each room                           *)
          Removes,    (* the requests to remove a room                   *)
          MaxStarts,  (* bound: how often the process is started         *)
          NoRoom

ASSUME RegistryAssumption == /\ TitleOf \in [Rooms -> Titles]
                             /\ NoRoom \notin Rooms
                             /\ MaxStarts \in Nat \ {0}

VARIABLES stored,   (* the keyspace "rooms" as the process sees it        *)
          durable,  (* what of it was there at the last persist           *)
          rooms,    (* ServerNode.rooms, line 24                          *)
          open,     (* the rooms whose tasks run                          *)
          add,      (* the task of each add_room()                        *)
          rem,      (* the task of each remove_room() ...                 *)
          victim,   (* ... and the room it is to remove                   *)
          node,     (* the process: "down", "up", or where close() is     *)
          sweep,    (* the rooms close() has still to come by ...         *)
          current,  (* ... and the one it is closing, its shard locked    *)
          loaded,   (* the last start could read the rooms from disk      *)
          starts    (* counts the starts                                  *)

diskVars == <<stored, durable>>
roomVars == <<rooms, open>>
nodeVars == <<node, loaded, starts>>
closeVars == <<sweep, current>>
remVars  == <<rem, victim>>
vars == <<diskVars, roomVars, add, remVars, nodeVars, closeVars>>

\* The first start, on an empty disk.
Init == /\ stored = {} /\ durable = {}
        /\ rooms = {} /\ open = {}
        /\ add = [r \in Rooms |-> "idle"]
        /\ rem = [m \in Removes |-> "idle"]
        /\ victim = [m \in Removes |-> NoRoom]
        /\ node = "up"
        /\ sweep = {} /\ current = NoRoom
        /\ loaded = TRUE
        /\ starts = 1

Running == node # "down"
IsClosed == node # "up"

-----------------------------------------------------------------------------
(* add_room() *)

AddGoto(r, from, to) == /\ Running
                        /\ add[r] = from
                        /\ add' = [add EXCEPT ![r] = to]

AddStart(r) ==
    /\ AddGoto(r, "idle", IF IsClosed THEN "failed" ELSE "find")
    /\ UNCHANGED <<diskVars, roomVars, remVars, nodeVars, closeVars>>

SameTitle(r) == {s \in stored : TitleOf[s] = TitleOf[r]}

\* The name is looked up on disk; the scan may fail.
AddFind(r) ==
    /\ \/ SameTitle(r) = {} /\ AddGoto(r, "find", "create")
       \/ AddGoto(r, "find", "failed")
    /\ UNCHANGED <<diskVars, roomVars, remVars, nodeVars, closeVars>>

AddCreate(r) ==
    /\ \/ AddGoto(r, "create", "persist") /\ stored' = stored \cup {r}
       \/ AddGoto(r, "create", "failed") /\ UNCHANGED stored
    /\ UNCHANGED <<durable, roomVars, remVars, nodeVars, closeVars>>

\* (variant: the keyspace is not persisted)
AddNoPersist(r) ==
    /\ AddGoto(r, "persist", "open")
    /\ UNCHANGED <<diskVars, roomVars, remVars, nodeVars, closeVars>>

\* persist() makes everything durable that was written so far, whoever wrote
\* it.  When it fails the record stays where it is.
AddPersist(r) ==
    /\ \/ AddGoto(r, "persist", "open") /\ durable' = stored
       \/ AddGoto(r, "persist", "failed") /\ UNCHANGED durable
    /\ UNCHANGED <<stored, roomVars, remVars, nodeVars, closeVars>>

AddOpen(r) ==
    /\ AddGoto(r, "open", "insert")
    /\ open' = open \cup {r}
    /\ UNCHANGED <<diskVars, rooms, remVars, nodeVars, closeVars>>

\* (variant: the room is not put into the map)
AddNoInsert(r) ==
    /\ AddGoto(r, "insert", "ok")
    /\ UNCHANGED <<diskVars, roomVars, remVars, nodeVars, closeVars>>

\* close() walks through the map shard by shard: it may come by a room that is
\* put in meanwhile, or not.
AddInsert(r) ==
    /\ AddGoto(r, "insert", "ok")
    /\ rooms' = rooms \cup {r}
    /\ \/ UNCHANGED sweep
       \/ node = "sweeping" /\ sweep' = sweep \cup {r}
    /\ UNCHANGED <<diskVars, open, remVars, nodeVars, current>>

-----------------------------------------------------------------------------
(* remove_room() *)

RemoveGoto(m, from, to) == /\ Running
                           /\ rem[m] = from
                           /\ rem' = [rem EXCEPT ![m] = to]

RemoveStart(m) ==
    /\ RemoveGoto(m, "idle", IF IsClosed THEN "failed" ELSE "exists")
    /\ UNCHANGED <<diskVars, roomVars, add, victim, nodeVars, closeVars>>

\* A room that is not on disk is refused, and the look-up may fail.
RemoveExists(m) ==
    /\ \/ /\ RemoveGoto(m, "exists", "take")
          /\ \E r \in stored : victim' = [victim EXCEPT ![m] = r]
       \/ /\ RemoveGoto(m, "exists", "failed")
          /\ UNCHANGED victim
    /\ UNCHANGED <<diskVars, roomVars, add, nodeVars, closeVars>>

\* (variants: the room is looked up and left in the map; its shard is not locked)
RemoveGets(m) ==
    /\ victim[m] # current
    /\ RemoveGoto(m, "take", IF victim[m] \in rooms THEN "close" ELSE "look")
    /\ UNCHANGED <<diskVars, roomVars, add, victim, nodeVars, closeVars>>
RemoveTakeUnlocked(m) ==
    /\ RemoveGoto(m, "take", IF victim[m] \in rooms THEN "close" ELSE "look")
    /\ rooms' = rooms \ {victim[m]}
    /\ sweep' = sweep \ {victim[m]}
    /\ UNCHANGED <<diskVars, open, add, victim, nodeVars, current>>

\* Taken out of the map first, by one request only.  close() keeps the shard of
\* the room it is busy with locked.
RemoveTake(m) ==
    /\ victim[m] # current
    /\ RemoveGoto(m, "take", IF victim[m] \in rooms THEN "close" ELSE "look")
    /\ rooms' = rooms \ {victim[m]}
    /\ sweep' = sweep \ {victim[m]}
    /\ UNCHANGED <<diskVars, open, add, victim, nodeVars, current>>

\* (variant: the room is dropped without close())
RemoveDrops(m) ==
    /\ RemoveGoto(m, "close", "look")
    /\ UNCHANGED <<diskVars, roomVars, add, victim, nodeVars, closeVars>>

RemoveCloses(m) ==
    /\ RemoveGoto(m, "close", "look")
    /\ open' = open \ {victim[m]}
    /\ UNCHANGED <<diskVars, rooms, add, victim, nodeVars, closeVars>>

\* delete_room(): a room that is not there any more is no error; remove_room() makes
\* nothing of the difference, "none" is answered like "ok".
RemoveLooks(m) ==
    /\ \/ victim[m] \in stored /\ RemoveGoto(m, "look", "unlink")
       \/ victim[m] \notin stored /\ RemoveGoto(m, "look", "none")
       \/ RemoveGoto(m, "look", "failed")
    /\ UNCHANGED <<diskVars, roomVars, add, victim, nodeVars, closeVars>>

RemoveUnlinks(m) ==
    /\ \/ RemoveGoto(m, "unlink", "persist") /\ stored' = stored \ {victim[m]}
       \/ RemoveGoto(m, "unlink", "failed") /\ UNCHANGED stored
    /\ UNCHANGED <<durable, roomVars, add, victim, nodeVars, closeVars>>

\* (variant: the keyspace is not persisted)
RemoveNoPersist(m) ==
    /\ RemoveGoto(m, "persist", "ok")
    /\ UNCHANGED <<diskVars, roomVars, add, victim, nodeVars, closeVars>>

\* When it fails, the removal has failed though the record is unlinked ("unsaved").
RemovePersists(m) ==
    /\ \/ RemoveGoto(m, "persist", "ok") /\ durable' = stored
       \/ RemoveGoto(m, "persist", "unsaved") /\ UNCHANGED durable
    /\ UNCHANGED <<stored, roomVars, add, victim, nodeVars, closeVars>>

-----------------------------------------------------------------------------
(* close(), and the life of the process *)

CloseCancels ==
    /\ node = "up"
    /\ node' = "cancelled"
    /\ UNCHANGED <<diskVars, roomVars, add, remVars, loaded, starts, closeVars>>

CloseBegins ==
    /\ node = "cancelled"
    /\ node' = "sweeping"
    /\ sweep' = rooms
    /\ UNCHANGED <<diskVars, roomVars, add, remVars, loaded, starts, current>>

ClosePicks ==
    /\ node = "sweeping"
    /\ current = NoRoom
    /\ \E r \in sweep : current' = r /\ sweep' = sweep \ {r}
    /\ UNCHANGED <<diskVars, roomVars, add, remVars, nodeVars>>

CloseRoom ==
    /\ current # NoRoom
    /\ open' = open \ {current}
    /\ current' = NoRoom
    /\ UNCHANGED <<diskVars, rooms, add, remVars, nodeVars, sweep>>

CloseClears ==
    /\ node = "sweeping"
    /\ sweep = {} /\ current = NoRoom
    /\ rooms' = {}
    /\ node' = "cleared"
    /\ UNCHANGED <<diskVars, open, add, remVars, loaded, starts, closeVars>>

\* What becomes of a removal.
Lost(pc) == IF pc \in {"idle", "ok", "none", "failed", "unsaved"} THEN pc
            ELSE IF pc = "persist" THEN "unsaved" ELSE "lost"

\* The process ends, by exit(0) after close() or by a crash at any moment.  What
\* was not persisted may be on disk or not.
Down ==
    /\ Running
    /\ node' = "down"
    /\ rooms' = {} /\ open' = {}
    /\ add' = [r \in Rooms |-> IF add[r] \in {"idle", "ok", "failed"} THEN add[r] ELSE "lost"]
    /\ rem' = [m \in Removes |-> Lost(rem[m])]
    /\ sweep' = {} /\ current' = NoRoom
    /\ stored' \in {S \in SUBSET (stored \cup durable) : stored \cap durable \subseteq S}
    /\ durable' = stored'
    /\ UNCHANGED <<victim, loaded, starts>>

\* (variant: the rooms are not read from disk)
StartEmpty ==
    /\ node = "down"
    /\ starts < MaxStarts
    /\ starts' = starts + 1
    /\ node' = "up"
    /\ loaded' = TRUE
    /\ UNCHANGED <<diskVars, roomVars, add, remVars, closeVars>>

\* start() is over before the first request is accepted.  An error of the disk is
\* logged and no more: the node then runs without rooms.
Start ==
    /\ node = "down"
    /\ starts < MaxStarts
    /\ starts' = starts + 1
    /\ node' = "up"
    /\ loaded' \in BOOLEAN
    /\ rooms' = IF loaded' THEN stored ELSE {}
    /\ open' = rooms'
    /\ UNCHANGED <<diskVars, add, remVars, closeVars>>

-----------------------------------------------------------------------------
AddRoom(r) == \/ AddStart(r) \/ AddFind(r) \/ AddCreate(r) \/ AddPersist(r)
              \/ AddOpen(r) \/ AddInsert(r)
RemoveRoom(m) == \/ RemoveStart(m) \/ RemoveExists(m) \/ RemoveTake(m)
                 \/ RemoveCloses(m) \/ RemoveLooks(m) \/ RemoveUnlinks(m)
                 \/ RemovePersists(m)
Close == CloseCancels \/ CloseBegins \/ ClosePicks \/ CloseRoom \/ CloseClears

\* The bound on the starts is reached.
Finished == node = "down" /\ starts = MaxStarts /\ UNCHANGED vars

Next == \/ \E r \in Rooms : AddRoom(r)
        \/ \E m \in Removes : RemoveRoom(m)
        \/ Close \/ Down \/ Start
        \/ Finished

Spec == Init /\ [][Next]_vars

-----------------------------------------------------------------------------
(* What must hold *)

\* Every variable has the shape the code gives it; a removal that goes on has a
\* room to remove.
TypeOK ==
    /\ stored \in SUBSET Rooms /\ durable \in SUBSET Rooms
    /\ rooms \in SUBSET Rooms /\ open \in SUBSET Rooms
    /\ add \in [Rooms -> {"idle", "find", "create", "persist", "open", "insert",
                          "ok", "failed", "lost"}]
    /\ rem \in [Removes -> {"idle", "exists", "take", "close", "look", "unlink",
                            "persist", "ok", "none", "failed", "unsaved", "lost"}]
    /\ victim \in [Removes -> Rooms \cup {NoRoom}]
    /\ \A m \in Removes :
          rem[m] \notin {"idle", "exists", "failed", "lost"} => victim[m] # NoRoom
    /\ node \in {"down", "up", "cancelled", "sweeping", "cleared"}
    /\ sweep \in SUBSET Rooms /\ current \in Rooms \cup {NoRoom}
    /\ loaded \in BOOLEAN /\ starts \in 1 .. MaxStarts

Untouched(r) == \A m \in Removes : victim[m] # r

\* "add" has been answered with success: from then on, through crashes, the room
\* is on disk, and in memory whenever the process runs and could read the disk,
\* until somebody removes it.
AckedIsKept ==
    \A r \in Rooms : add[r] = "ok" /\ Untouched(r) =>
        /\ r \in stored /\ r \in durable
        /\ node = "up" /\ loaded => r \in rooms /\ r \in open

\* A removal has unlinked the record and has not persisted that.
HalfErased(r) == \E k \in Removes : victim[k] = r /\ rem[k] \in {"persist", "unsaved"}

\* "remove" has been answered with success: the room is gone from the disk for good,
\* though the process crash right after the answer, though it was still being added,
\* and however many removals of it there are.  Who found no record to delete has
\* persisted nothing: its answer is good if the removal that unlinked the record
\* comes, or came, to its end.
RemovedIsErased ==
    \A m \in Removes :
        /\ rem[m] = "ok" => victim[m] \notin stored \cup durable
        /\ rem[m] = "none" => \/ victim[m] \notin stored \cup durable
                              \/ HalfErased(victim[m])

\* A room on disk, as the list shows it, can be joined: it is in memory, unless
\* its add is still under way or has failed half-way, or a removal has taken it.
StoredIsServed ==
    node = "up" /\ loaded =>
        \A r \in stored \ rooms :
            \/ add[r] \in {"persist", "open", "insert", "failed"}
            \/ \E m \in Removes : /\ victim[m] = r
                                  /\ rem[m] \in {"close", "look", "unlink", "failed"}

\* Nobody is handed over to a closed room by a node that is up.
RoomsAreOpen == node = "up" => rooms \subseteq open

\* No room is left running where nobody can reach it any more, while rooms come and
\* go and close() walks the map.  (Its last step, rooms.clear(), drops a room that
\* was put in behind the walk unclosed; the process exits soon after.)
OpenIsReachable ==
    node # "cleared" =>
        \A r \in open \ rooms :
            \/ add[r] = "insert"
            \/ \E m \in Removes : victim[m] = r /\ rem[m] = "close"

\* Room::close has one caller at a time: one removal, or the node's close().
OneCloser ==
    /\ \A m, k \in Removes :
          rem[m] = "close" /\ rem[k] = "close" /\ victim[m] = victim[k] => m = k
    /\ \A m \in Removes : rem[m] = "close" => victim[m] # current

\* What the requests know of the disk.
DiskInv ==
    /\ \A r \in Rooms :
          /\ add[r] \in {"idle", "find", "create"} =>
                r \notin stored \cup durable \cup rooms \cup open /\ Untouched(r)
          /\ add[r] \in {"persist", "open", "insert", "ok"} /\ Untouched(r) => r \in stored
          /\ add[r] \in {"open", "insert", "ok"} /\ Untouched(r) => r \in durable
    /\ \A m \in Removes :
          /\ rem[m] \in {"idle", "exists"} => victim[m] = NoRoom
          /\ rem[m] = "persist" => victim[m] \notin stored
    /\ \A r \in durable \ stored : HalfErased(r)

\* What the requests and close() know of the memory.
MemoryInv ==
    /\ node = "down" =>
          /\ rooms = {} /\ open = {}
          /\ \A r \in Rooms : add[r] \in {"idle", "ok", "failed", "lost"}
          /\ \A m \in Removes : rem[m] \in {"idle", "ok", "none", "failed", "unsaved", "lost"}
    /\ node # "sweeping" => sweep = {} /\ current = NoRoom
    /\ sweep \subseteq rooms
    /\ current # NoRoom => current \in rooms
    /\ node = "cancelled" => rooms \subseteq open
    /\ \A r \in Rooms :
          /\ add[r] \in {"persist", "open", "insert"} => r \notin rooms
          /\ add[r] = "insert" => r \in open
          /\ add[r] = "ok" /\ Untouched(r) /\ node \in {"up", "cancelled"} /\ loaded =>
                r \in rooms
    /\ \A m \in Removes : rem[m] = "close" =>
          /\ victim[m] \notin rooms
          /\ add[victim[m]] \in {"ok", "failed", "lost"}

\* The inductive invariant.
RegInv == /\ TypeOK /\ DiskInv /\ MemoryInv
          /\ AckedIsKept /\ RemovedIsErased /\ StoredIsServed
          /\ RoomsAreOpen /\ OpenIsReachable /\ OneCloser

\* Line 125: a room is added only if there is none of its name.
UniqueTitles ==
    \A r, s \in Rooms :
        add[r] = "ok" /\ add[s] = "ok" /\ TitleOf[r] = TitleOf[s]
                      /\ Untouched(r) /\ Untouched(s) => r = s

\* Line 166: a removed room is out of memory, and closed.
RemovedIsClosed ==
    \A m \in Removes : rem[m] \in {"ok", "none"} => victim[m] \notin rooms \cup open
=============================================================================
