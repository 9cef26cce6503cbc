--------------------------- MODULE RegistryProofs ---------------------------
(***************************************************************************)
(* Proofs about Registry, for any number of rooms, requests and restarts:  *)
(* the inductive invariant RegInv and what follows from it.                *)
(***************************************************************************)
EXTENDS Registry, TLAPS

LEMMA InitInv == Init => RegInv
  BY RegistryAssumption
     DEF RegistryAssumption, Init, RegInv, TypeOK, DiskInv, MemoryInv, AckedIsKept,
         RemovedIsErased, StoredIsServed, RoomsAreOpen, OpenIsReachable, OneCloser,
         Untouched, HalfErased

-----------------------------------------------------------------------------
(* add_room() *)

LEMMA AddType ==
    ASSUME RegInv, NEW r \in Rooms, AddRoom(r)
    PROVE  TypeOK'
  BY RegistryAssumption
     DEF RegistryAssumption, RegInv, TypeOK, AddRoom, AddStart, AddFind, AddCreate, AddPersist, AddOpen, AddInsert,
         AddGoto, diskVars, roomVars, remVars, nodeVars, closeVars

LEMMA AddDisk ==
    ASSUME RegInv, NEW r \in Rooms, AddRoom(r)
    PROVE  DiskInv' /\ AckedIsKept' /\ RemovedIsErased'
<1> USE DEF RegInv, TypeOK, DiskInv, MemoryInv, AckedIsKept, RemovedIsErased, Untouched, HalfErased,
            AddGoto, Running, diskVars, roomVars, remVars, nodeVars, closeVars
<1>1. CASE AddStart(r)
  BY <1>1 DEF AddStart
<1>2. CASE AddFind(r)
  BY <1>2 DEF AddFind
<1>3. CASE AddCreate(r)
  BY <1>3 DEF AddCreate
<1>4. CASE AddPersist(r)
  BY <1>4 DEF AddPersist
<1>5. CASE AddOpen(r)
  BY <1>5 DEF AddOpen
<1>6. CASE AddInsert(r)
  BY <1>6 DEF AddInsert
<1> QED  BY <1>1, <1>2, <1>3, <1>4, <1>5, <1>6 DEF AddRoom

LEMMA AddMemory ==
    ASSUME RegInv, NEW r \in Rooms, AddRoom(r)
    PROVE  MemoryInv' /\ StoredIsServed' /\ RoomsAreOpen' /\ OpenIsReachable' /\ OneCloser'
<1> USE DEF RegInv, TypeOK, DiskInv, MemoryInv, StoredIsServed, RoomsAreOpen,
            OpenIsReachable, OneCloser, Untouched,
            AddGoto, Running, diskVars, roomVars, remVars, nodeVars, closeVars
<1>1. CASE AddStart(r)
  BY <1>1 DEF AddStart
<1>2. CASE AddFind(r)
  BY <1>2 DEF AddFind
<1>3. CASE AddCreate(r)
  BY <1>3 DEF AddCreate
<1>4. CASE AddPersist(r)
  BY <1>4 DEF AddPersist
<1>5. CASE AddOpen(r)
  BY <1>5 DEF AddOpen
<1>6. CASE AddInsert(r)
  BY <1>6 DEF AddInsert
<1> QED  BY <1>1, <1>2, <1>3, <1>4, <1>5, <1>6 DEF AddRoom

-----------------------------------------------------------------------------
(* remove_room() *)

LEMMA RemoveType ==
    ASSUME RegInv, NEW m \in Removes, RemoveRoom(m)
    PROVE  TypeOK'
<1> USE RegistryAssumption
    DEF RegistryAssumption, RegInv, TypeOK, RemoveGoto, diskVars, roomVars, nodeVars, closeVars
<1>1. CASE RemoveExists(m)
  BY <1>1 DEF RemoveExists
<1>2. CASE RemoveTake(m)
  BY <1>2 DEF RemoveTake
<1>3. CASE ~RemoveExists(m) /\ ~RemoveTake(m)
  BY <1>3 DEF RemoveRoom, RemoveStart, RemoveCloses, RemoveLooks, RemoveUnlinks, RemovePersists
<1> QED  BY <1>1, <1>2, <1>3

LEMMA RemoveDisk ==
    ASSUME RegInv, NEW m \in Removes, RemoveRoom(m)
    PROVE  DiskInv' /\ AckedIsKept' /\ RemovedIsErased'
<1> USE RegistryAssumption
    DEF RegistryAssumption, RegInv, TypeOK, DiskInv, MemoryInv, AckedIsKept, RemovedIsErased,
            Untouched, HalfErased, RemoveGoto, Running, diskVars, roomVars, nodeVars, closeVars
<1>1. CASE RemoveStart(m)
  BY <1>1 DEF RemoveStart
<1>2. CASE RemoveExists(m)
  BY <1>2 DEF RemoveExists
<1>3. CASE RemoveTake(m)
  BY <1>3 DEF RemoveTake
<1>4. CASE RemoveCloses(m)
  BY <1>4 DEF RemoveCloses
<1>5. CASE RemoveLooks(m)
  BY <1>5 DEF RemoveLooks
<1>6. CASE RemoveUnlinks(m)
  BY <1>6 DEF RemoveUnlinks
<1>7. CASE RemovePersists(m)
  BY <1>7 DEF RemovePersists
<1> QED  BY <1>1, <1>2, <1>3, <1>4, <1>5, <1>6, <1>7 DEF RemoveRoom

LEMMA RemoveMemory ==
    ASSUME RegInv, NEW m \in Removes, RemoveRoom(m)
    PROVE  MemoryInv' /\ StoredIsServed' /\ RoomsAreOpen' /\ OpenIsReachable' /\ OneCloser'
<1> USE RegistryAssumption
    DEF RegistryAssumption, RegInv, TypeOK, DiskInv, MemoryInv, StoredIsServed, RoomsAreOpen,
            OpenIsReachable, OneCloser, Untouched,
            RemoveGoto, Running, diskVars, roomVars, nodeVars, closeVars
<1>1. CASE RemoveStart(m)
  BY <1>1 DEF RemoveStart
<1>2. CASE RemoveExists(m)
  BY <1>2 DEF RemoveExists
<1>3. CASE RemoveTake(m)
  BY <1>3 DEF RemoveTake
<1>4. CASE RemoveCloses(m)
  BY <1>4 DEF RemoveCloses
<1>5. CASE RemoveLooks(m)
  BY <1>5 DEF RemoveLooks
<1>6. CASE RemoveUnlinks(m)
  BY <1>6 DEF RemoveUnlinks
<1>7. CASE RemovePersists(m)
  BY <1>7 DEF RemovePersists
<1> QED  BY <1>1, <1>2, <1>3, <1>4, <1>5, <1>6, <1>7 DEF RemoveRoom

-----------------------------------------------------------------------------
(* close(), the end of the process and its next start *)

LEMMA CloseInv ==
    ASSUME RegInv, Close
    PROVE  RegInv'
<1> USE RegistryAssumption
    DEF RegistryAssumption, RegInv, TypeOK, DiskInv, MemoryInv, AckedIsKept, RemovedIsErased,
        StoredIsServed, RoomsAreOpen, OpenIsReachable, OneCloser, Untouched, HalfErased,
        diskVars, roomVars, remVars, nodeVars, closeVars
<1>1. CASE CloseCancels
  BY <1>1 DEF CloseCancels
<1>2. CASE CloseBegins
  BY <1>2 DEF CloseBegins
<1>3. CASE ClosePicks
  BY <1>3 DEF ClosePicks
<1>4. CASE CloseRoom
  BY <1>4 DEF CloseRoom
<1>5. CASE CloseClears
  BY <1>5 DEF CloseClears
<1> QED  BY <1>1, <1>2, <1>3, <1>4, <1>5 DEF Close

LEMMA DownInv ==
    ASSUME RegInv, Down
    PROVE  RegInv'
<1> USE RegistryAssumption
    DEF RegistryAssumption, RegInv, TypeOK, DiskInv, MemoryInv, AckedIsKept, RemovedIsErased,
        StoredIsServed, RoomsAreOpen, OpenIsReachable, OneCloser, Untouched, HalfErased, Down, Lost
<1>1. TypeOK'
  OBVIOUS
<1>2. DiskInv' /\ AckedIsKept' /\ RemovedIsErased'
  OBVIOUS
<1>3. MemoryInv'
  OBVIOUS
<1> QED  BY <1>1, <1>2, <1>3

LEMMA StartInv ==
    ASSUME RegInv, Start
    PROVE  RegInv'
<1> USE RegistryAssumption
    DEF RegistryAssumption, RegInv, TypeOK, DiskInv, MemoryInv, AckedIsKept, RemovedIsErased,
        StoredIsServed, RoomsAreOpen, OpenIsReachable, OneCloser, Untouched, HalfErased, Start,
        diskVars, remVars, closeVars
<1>1. TypeOK'
  OBVIOUS
<1>2. DiskInv' /\ AckedIsKept' /\ RemovedIsErased'
  OBVIOUS
<1>3. MemoryInv' /\ StoredIsServed' /\ RoomsAreOpen' /\ OpenIsReachable' /\ OneCloser'
  OBVIOUS
<1> QED  BY <1>1, <1>2, <1>3

-----------------------------------------------------------------------------
LEMMA NextInv == RegInv /\ [Next]_vars => RegInv'
<1> SUFFICES ASSUME RegInv, [Next]_vars PROVE RegInv'
  OBVIOUS
<1>1. CASE \E r \in Rooms : AddRoom(r)
  BY <1>1, AddType, AddDisk, AddMemory DEF RegInv
<1>2. CASE \E m \in Removes : RemoveRoom(m)
  BY <1>2, RemoveType, RemoveDisk, RemoveMemory DEF RegInv
<1>3. CASE UNCHANGED vars
  BY <1>3 DEF vars, diskVars, roomVars, remVars, nodeVars, closeVars, RegInv, TypeOK, DiskInv,
              MemoryInv, AckedIsKept, RemovedIsErased, StoredIsServed, RoomsAreOpen,
              OpenIsReachable, OneCloser, Untouched, HalfErased
<1> QED  BY <1>1, <1>2, <1>3, CloseInv, DownInv, StartInv DEF Next, Finished

\* RegInv holds in every state of every run, with any number of requests that
\* overlap, disk errors at every step and crashes in between.
THEOREM Inductive == Spec => []RegInv
  BY InitInv, NextInv, PTL DEF Spec

\* Every state of every run is well typed.
THEOREM TypeCorrect == Spec => []TypeOK
<1>1. RegInv => TypeOK
  BY DEF RegInv
<1> QED  BY <1>1, Inductive, PTL

\* A room whose add was answered with success survives every crash until
\* somebody removes it, and is served again after the next start.
THEOREM Kept == Spec => []AckedIsKept
<1>1. RegInv => AckedIsKept
  BY DEF RegInv
<1> QED  BY <1>1, Inductive, PTL

\* A room whose removal was answered with success never comes back from the disk,
\* whoever else removes it, unless that removal found the record already unlinked by
\* another that has not persisted it.
THEOREM Erased == Spec => []RemovedIsErased
<1>1. RegInv => RemovedIsErased
  BY DEF RegInv
<1> QED  BY <1>1, Inductive, PTL

\* A room on disk is in memory, or somebody accounts for it.
THEOREM Served == Spec => []StoredIsServed
<1>1. RegInv => StoredIsServed
  BY DEF RegInv
<1> QED  BY <1>1, Inductive, PTL

\* Room::close is never called twice at a time, which Room takes for granted.
THEOREM CloserIsAlone == Spec => []OneCloser
<1>1. RegInv => OneCloser
  BY DEF RegInv
<1> QED  BY <1>1, Inductive, PTL

\* No room runs on where nobody can reach it, until close() clears the map.
THEOREM Reachable == Spec => []OpenIsReachable
<1>1. RegInv => OpenIsReachable
  BY DEF RegInv
<1> QED  BY <1>1, Inductive, PTL

\* What a running node has in memory is open: Room::close runs only on rooms that
\* were taken from the map first (node.rs lines 167-173).
THEOREM InMemoryIsOpen == Spec => []RoomsAreOpen
<1>1. RegInv => RoomsAreOpen
  BY DEF RegInv
<1> QED  BY <1>1, Inductive, PTL
=============================================================================
