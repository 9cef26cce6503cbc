-------------------------- MODULE AdmissionProofs --------------------------
(***************************************************************************)
(* Proofs about Admission, for any number of clients and rooms.  The       *)
(* inductive invariant AdmissionInv falls in two: what concerns one client *)
(* (ClientInv), disturbed only by a step of that client, and what concerns *)
(* the rooms, disturbed by close(), add_room() and remove_room().          *)
(***************************************************************************)
EXTENDS Admission, TLAPS

LEMMA InitInv == Init => AdmissionInv
<1> SUFFICES ASSUME Init PROVE AdmissionInv
  OBVIOUS
<1> USE AdmissionAssumption DEF AdmissionAssumption, Init
<1>1. TypeOK
  BY DEF TypeOK
<1>2. TaskInv
  BY DEF TaskInv
<1>3. SweepInv
  BY DEF SweepInv
<1>4. EachHasOneKeeper
  BY DEF EachHasOneKeeper, KeptOnce
<1>5. RemovalInv
  BY DEF RemovalInv
<1>6. AddInv
  BY DEF AddInv, Unknown, Vacant, Unpinned
<1>7. MembersAreGenuine /\ ClosedRoomIsEmpty /\ ClosedNodeIsQuiet
  BY DEF MembersAreGenuine, ClosedRoomIsEmpty, ClosedNodeIsQuiet, Vacant
<1> QED  BY <1>1, <1>2, <1>3, <1>4, <1>5, <1>6, <1>7 DEF AdmissionInv

-----------------------------------------------------------------------------
(* Types *)

LEMMA TypeStep ==
    ASSUME TypeOK, [Next]_vars
    PROVE  TypeOK'
<1> USE AdmissionAssumption
    DEF AdmissionAssumption, TypeOK, HangUp, TurnAway, TaskGoto, LoopGoto, AddGoto,
        RemoveGoto, CloseGoto, loopVars, clientVars, roomVars, closeVars
<1>1. CASE Bind \/ NoticeToken \/ AcceptFails
  BY <1>1 DEF Bind, NoticeToken, AcceptFails
<1>2. CASE SpawnTask
  BY <1>2 DEF SpawnTask
<1>3. ASSUME NEW c \in Clients, AcceptClient(c) PROVE TypeOK'
  BY <1>3 DEF AcceptClient
<1>4. ASSUME NEW c \in Clients, AddConnection(c) PROVE TypeOK'
  <2>1. CASE FrameComes(c) \/ WelcomeTaken(c) \/ RefusalTaken(c)
    BY <2>1 DEF FrameComes, WelcomeTaken, RefusalTaken
  <2>2. CASE CheckRoom(c)
    BY <2>2 DEF CheckRoom
  <2>3. CASE LoadRoom(c)
    BY <2>3 DEF LoadRoom
  <2>4. CASE TimesOut(c)
    BY <2>4 DEF TimesOut
  <2>5. CASE Lookup(c)
    BY <2>5 DEF Lookup
  <2>6. CASE HandOver(c)
    BY <2>6 DEF HandOver
  <2>7. CASE JoinRoom(c)
    BY <2>7 DEF JoinRoom
  <2> QED  BY <1>4, <2>1, <2>2, <2>3, <2>4, <2>5, <2>6, <2>7
           DEF AddConnection, Examine, Served
<1>5. ASSUME NEW c \in Clients, MemberLeaves(c) PROVE TypeOK'
  BY <1>5 DEF MemberLeaves
<1>6. ASSUME NEW r \in Rooms, AddBegins(r) \/ AddRoom(r) PROVE TypeOK'
  BY <1>6 DEF AddBegins, AddRoom, AddCreates, AddInserts
<1>7. ASSUME NEW r \in Rooms, RemoveBegins(r) \/ RemoveRoom(r) PROVE TypeOK'
  BY <1>7 DEF RemoveBegins, RemoveRoom, RemoveTakes, RemoveJoins, RemoveDeletes
<1>8. CASE Close \/ CloseCancels
  BY <1>8 DEF Close, CloseCancels, CloseBegins, ClosePicks, CloseRoom, CloseClears, CloseJoins
<1>9. CASE UNCHANGED vars
  BY <1>9 DEF vars
<1> QED  BY <1>1, <1>2, <1>3, <1>4, <1>5, <1>6, <1>7, <1>8, <1>9 DEF Next, Listen, Outside

-----------------------------------------------------------------------------
(* One client *)

\* What AdmissionInv says of client c.
ClientInv(c) ==
    /\ KeptOnce(c)
    /\ task[c] \in {"welcoming", "lookup", "handing", "waiting"} => c \in Genuine
    /\ c \in members => c \in Genuine

\* A step that is not its own leaves a client alone.
LEMMA Bystander ==
    ASSUME NEW d \in Clients, ClientInv(d),
           (inHand' = d) <=> (inHand = d),
           task'[d] = task[d], link'[d] = link[d],
           (d \in members') <=> (d \in members)
    PROVE  ClientInv(d)'
  BY DEF ClientInv, KeptOnce, Idle

\* Who is being examined is connected, and nobody else's.
LEMMA Examined ==
    ASSUME TypeOK, NEW c \in Clients, ClientInv(c), ~Idle(c)
    PROVE  link[c] = "open" /\ inHand # c /\ c \notin members
  BY DEF TypeOK, ClientInv, KeptOnce, Idle

\* A step of add_connection() goes on with the examination, hangs up, or hands the
\* client over; it concerns this client only.
LEMMA Examination ==
    ASSUME TypeOK, NEW c \in Clients, AddConnection(c)
    PROVE  /\ ~Idle(c)
           /\ inHand' = inHand
           /\ \A d \in Clients \ {c} :
                /\ task'[d] = task[d] /\ link'[d] = link[d]
                /\ (d \in members') <=> (d \in members)
           /\ task'[c] \in {"welcoming", "lookup", "handing", "waiting"} =>
                c \in Genuine \/ task[c] \in {"welcoming", "lookup", "handing", "waiting"}
           /\ \/ ~Idle(c)' /\ link'[c] = link[c] /\ members' = members
              \/ task'[c] = "end" /\ link'[c] = "closed" /\ members' = members
              \/ /\ task'[c] = "end" /\ link'[c] = link[c] /\ members' = members \cup {c}
                 /\ task[c] = "waiting"
<1> USE DEF TypeOK, TaskGoto, TurnAway, HangUp, Idle, loopVars
<1>1. CASE FrameComes(c) \/ WelcomeTaken(c) \/ RefusalTaken(c)
  BY <1>1 DEF FrameComes, WelcomeTaken, RefusalTaken
<1>2. CASE CheckRoom(c)
  BY <1>2 DEF CheckRoom
<1>3. CASE LoadRoom(c)
  BY <1>3 DEF LoadRoom
<1>4. CASE TimesOut(c)
  BY <1>4 DEF TimesOut
<1>5. CASE Lookup(c)
  BY <1>5 DEF Lookup
<1>6. CASE HandOver(c)
  BY <1>6 DEF HandOver
<1>7. CASE JoinRoom(c)
  BY <1>7 DEF JoinRoom
<1> QED  BY <1>1, <1>2, <1>3, <1>4, <1>5, <1>6, <1>7 DEF AddConnection, Examine, Served

\* So, whoever takes it, a step keeps what is known of a client.
LEMMA ClientStep ==
    ASSUME TypeOK, NEW d \in Clients, ClientInv(d), [Next]_vars
    PROVE  ClientInv(d)'
<1>1. CASE UNCHANGED <<inHand, clientVars>>
  BY <1>1, Bystander DEF clientVars
<1>2. ASSUME NEW c \in Clients, AcceptClient(c) PROVE ClientInv(d)'
  <2>1. CASE d = c
    <3>1. /\ inHand' = d /\ link'[d] = "open" /\ link[d] = "outside"
          /\ UNCHANGED <<task, members>>
      BY <1>2, <2>1 DEF AcceptClient, TypeOK
    <3> QED  BY <3>1 DEF ClientInv, KeptOnce
  <2>2. CASE d # c
    <3>1. inHand # d /\ inHand' # d /\ link'[d] = link[d] /\ UNCHANGED <<task, members>>
      BY <1>2, <2>2, AdmissionAssumption
      DEF AcceptClient, LoopGoto, TypeOK, AdmissionAssumption
    <3> QED  BY <3>1, Bystander
  <2> QED  BY <2>1, <2>2
<1>3. CASE SpawnTask
  <2>1. /\ inHand \in Clients /\ inHand' = NoClient /\ NoClient \notin Clients
        /\ UNCHANGED <<link, members>>
    BY <1>3, AdmissionAssumption DEF SpawnTask, LoopGoto, TypeOK, AdmissionAssumption
  <2>2. CASE d = inHand
    <3>1. link[d] = "open" /\ task[d] = "none" /\ d \notin members
      BY <2>1, <2>2 DEF ClientInv, KeptOnce, TypeOK
    <3>2. task'[d] = "reading"
      BY <1>3, <2>2 DEF SpawnTask, TypeOK
    <3> QED  BY <2>1, <3>1, <3>2 DEF ClientInv, KeptOnce, Idle
  <2>3. CASE d # inHand
    <3>1. task'[d] = task[d]
      BY <1>3, <2>3 DEF SpawnTask, TypeOK
    <3> QED  BY <2>1, <2>3, <3>1, Bystander
  <2> QED  BY <2>2, <2>3
<1>4. ASSUME NEW c \in Clients, AddConnection(c) PROVE ClientInv(d)'
  <2>1. CASE d = c
    <3>1. link[d] = "open" /\ inHand # d /\ d \notin members
      BY <1>4, <2>1, Examination, Examined
    <3> QED  BY <1>4, <2>1, <3>1, Examination DEF ClientInv, KeptOnce, Idle
  <2>2. CASE d # c
    BY <1>4, <2>2, Examination, Bystander
  <2> QED  BY <2>1, <2>2
<1>5. ASSUME NEW c \in Clients, MemberLeaves(c) PROVE ClientInv(d)'
  <2>1. UNCHANGED <<inHand, task>> /\ c \in members /\ members' = members \ {c}
    BY <1>5 DEF MemberLeaves, loopVars
  <2>2. CASE d = c
    <3>1. link'[d] = "closed"
      BY <1>5, <2>2 DEF MemberLeaves, HangUp, TypeOK
    <3>2. inHand # d /\ task[d] = "end" /\ link[d] = "open"
      BY <2>1, <2>2 DEF ClientInv, KeptOnce, TypeOK
    <3> QED  BY <2>1, <2>2, <3>1, <3>2 DEF ClientInv, KeptOnce
  <2>3. CASE d # c
    <3>1. link'[d] = link[d]
      BY <1>5, <2>3 DEF MemberLeaves, HangUp, TypeOK
    <3> QED  BY <2>1, <2>3, <3>1, Bystander
  <2> QED  BY <2>2, <2>3
<1>6. CASE Bind \/ NoticeToken \/ AcceptFails
  BY <1>1, <1>6 DEF Bind, NoticeToken, AcceptFails
<1>7. ASSUME NEW r \in Rooms,
             AddBegins(r) \/ AddRoom(r) \/ RemoveBegins(r) \/ RemoveRoom(r)
      PROVE  ClientInv(d)'
  BY <1>1, <1>7 DEF AddBegins, AddRoom, AddCreates, AddInserts, RemoveBegins, RemoveRoom,
                    RemoveTakes, RemoveJoins, RemoveDeletes, loopVars
<1>8. CASE Close \/ CloseCancels
  BY <1>1, <1>8 DEF Close, CloseCancels, CloseBegins, ClosePicks, CloseRoom, CloseClears,
                    CloseJoins, loopVars
<1>9. CASE UNCHANGED vars
  BY <1>1, <1>9 DEF vars, loopVars
<1> QED  BY <1>2, <1>3, <1>4, <1>5, <1>6, <1>7, <1>8, <1>9 DEF Next, Listen, Outside

LEMMA ClientInvFollows ==
    ASSUME AdmissionInv, NEW c \in Clients
    PROVE  ClientInv(c)
  BY DEF AdmissionInv, ClientInv, TaskInv, EachHasOneKeeper, MembersAreGenuine

-----------------------------------------------------------------------------
(* The rooms *)

\* The only one to join a room finds it open; a room is closed when it is vacant.
LEMMA EmptyStep ==
    ASSUME TypeOK, ClosedRoomIsEmpty, [Next]_vars
    PROVE  ClosedRoomIsEmpty'
<1> USE AdmissionAssumption
    DEF AdmissionAssumption, TypeOK, ClosedRoomIsEmpty, Vacant, loopVars, clientVars,
        roomVars, closeVars
<1>1. CASE UNCHANGED <<members, phase>>
  BY <1>1
<1>2. ASSUME NEW c \in Clients, AddConnection(c) PROVE ClosedRoomIsEmpty'
  <2>1. CASE JoinRoom(c)
    BY <2>1 DEF JoinRoom
  <2> QED  BY <1>1, <1>2, <2>1
           DEF AddConnection, Examine, Served, FrameComes, CheckRoom, LoadRoom, WelcomeTaken,
               RefusalTaken, TimesOut, Lookup, HandOver
<1>3. ASSUME NEW c \in Clients, MemberLeaves(c) PROVE ClosedRoomIsEmpty'
  BY <1>3 DEF MemberLeaves
<1>4. ASSUME NEW r \in Rooms, AddBegins(r) \/ AddRoom(r) PROVE ClosedRoomIsEmpty'
  BY <1>1, <1>4 DEF AddBegins, AddRoom, AddCreates, AddInserts
<1>5. ASSUME NEW r \in Rooms, RemoveRoom(r) PROVE ClosedRoomIsEmpty'
  <2>1. CASE RemoveTakes(r)
    BY <2>1 DEF RemoveTakes
  <2>2. CASE RemoveJoins(r)
    BY <2>2 DEF RemoveJoins
  <2> QED  BY <1>1, <1>5, <2>1, <2>2 DEF RemoveRoom, RemoveDeletes
<1>6. CASE Close
  <2>1. CASE ClosePicks
    BY <2>1 DEF ClosePicks
  <2>2. CASE CloseRoom
    BY <2>2 DEF CloseRoom
  <2> QED  BY <1>1, <1>6, <2>1, <2>2 DEF Close, CloseBegins, CloseClears, CloseJoins
<1>7. CASE UNCHANGED vars
  BY <1>1, <1>7 DEF vars
<1> QED  BY <1>1, <1>2, <1>3, <1>4, <1>5, <1>6, <1>7
         DEF Next, Listen, Bind, SpawnTask, NoticeToken, Outside, AcceptClient, RemoveBegins,
             AcceptFails, CloseCancels

\* No room slips past both close() and the removals, unless it was put in too late.
LEMMA SweepStep ==
    ASSUME TypeOK, SweepInv, [Next]_vars
    PROVE  SweepInv'
<1> USE AdmissionAssumption
    DEF AdmissionAssumption, TypeOK, SweepInv, loopVars, clientVars, roomVars, closeVars
<1>1. CASE UNCHANGED <<loop, task, roomVars, closeVars>>
  BY <1>1 DEF Idle
<1>2. CASE Bind \/ NoticeToken \/ AcceptFails
  BY <1>2 DEF Bind, NoticeToken, AcceptFails, LoopGoto, Idle
<1>3. CASE SpawnTask
  BY <1>3 DEF SpawnTask, LoopGoto
<1>4. ASSUME NEW c \in Clients, AcceptClient(c) PROVE SweepInv'
  BY <1>4 DEF AcceptClient, LoopGoto
<1>5. ASSUME NEW c \in Clients, AddConnection(c) PROVE SweepInv'
  <2>1. ~Idle(c) /\ UNCHANGED <<loop, roomVars, closeVars>>
    BY <1>5, Examination
    DEF AddConnection, Examine, Served, FrameComes, CheckRoom, LoadRoom, WelcomeTaken,
        RefusalTaken, TimesOut, Lookup, HandOver, JoinRoom
  <2> QED  BY <2>1
<1>6. ASSUME NEW c \in Clients, MemberLeaves(c) PROVE SweepInv'
  BY <1>1, <1>6 DEF MemberLeaves
<1>7. ASSUME NEW r \in Rooms, AddBegins(r) \/ AddRoom(r) PROVE SweepInv'
  <2> USE DEF AddGoto, Idle
  <2>1. CASE AddBegins(r)
    BY <2>1 DEF AddBegins
  <2>2. CASE AddCreates(r)
    BY <2>2 DEF AddCreates
  <2>3. CASE AddInserts(r)
    BY <2>3 DEF AddInserts
  <2> QED  BY <1>7, <2>1, <2>2, <2>3 DEF AddRoom
<1>8. ASSUME NEW r \in Rooms, RemoveBegins(r) \/ RemoveRoom(r) PROVE SweepInv'
  <2> USE DEF RemoveGoto, Idle
  <2>1. CASE RemoveBegins(r)
    BY <2>1 DEF RemoveBegins
  <2>2. CASE RemoveTakes(r)
    BY <2>2 DEF RemoveTakes
  <2>3. CASE RemoveJoins(r)
    BY <2>3 DEF RemoveJoins
  <2>4. CASE RemoveDeletes(r)
    BY <2>4 DEF RemoveDeletes
  <2> QED  BY <1>8, <2>1, <2>2, <2>3, <2>4 DEF RemoveRoom
<1>9. CASE Close \/ CloseCancels
  <2> USE DEF CloseGoto, Idle
  <2>1. CASE CloseCancels
    BY <2>1 DEF CloseCancels
  <2>2. CASE CloseBegins
    BY <2>2 DEF CloseBegins
  <2>3. CASE ClosePicks
    BY <2>3 DEF ClosePicks
  <2>4. CASE CloseRoom
    BY <2>4 DEF CloseRoom
  <2>5. CASE CloseClears
    BY <2>5 DEF CloseClears
  <2>6. CASE CloseJoins
    BY <2>6 DEF CloseJoins
  <2> QED  BY <1>9, <2>1, <2>2, <2>3, <2>4, <2>5, <2>6 DEF Close
<1>10. CASE UNCHANGED vars
  BY <1>1, <1>10 DEF vars
<1> QED  BY <1>2, <1>3, <1>4, <1>5, <1>6, <1>7, <1>8, <1>9, <1>10 DEF Next, Listen, Outside

\* A room is unknown until it is put in: nobody finds it in the map, so nobody waits for
\* it, joins it or closes it.
LEMMA AddStep ==
    ASSUME TypeOK, AddInv, RemovalInv, [Next]_vars
    PROVE  AddInv'
<1> SUFFICES ASSUME NEW q \in Rooms, add'[q] # "done" PROVE Unknown(q)'
  BY DEF AddInv
<1> USE AdmissionAssumption
    DEF AdmissionAssumption, TypeOK, Unknown, Vacant, Unpinned, loopVars, clientVars, roomVars,
        closeVars
<1>1. ASSUME NEW r \in Rooms, AddBegins(r) \/ AddRoom(r) PROVE Unknown(q)'
  BY <1>1 DEF AddInv, AddGoto, AddBegins, AddRoom, AddCreates, AddInserts
<1>2. CASE add' = add
  <2>1. Unknown(q)
    BY <1>2 DEF AddInv
  <2>2. CASE UNCHANGED <<task, members, rooms, phase, remove, behind, current>>
    BY <2>1, <2>2
  <2>3. ASSUME NEW c \in Clients, AddConnection(c) PROVE Unknown(q)'
    <3> USE DEF TaskGoto, TurnAway
    <3>1. CASE FrameComes(c) \/ WelcomeTaken(c) \/ RefusalTaken(c) \/ TimesOut(c)
      BY <2>1, <3>1 DEF FrameComes, WelcomeTaken, RefusalTaken, TimesOut
    <3>2. CASE CheckRoom(c) \/ LoadRoom(c)
      BY <2>1, <3>2 DEF CheckRoom, LoadRoom
    <3>3. CASE Lookup(c)
      BY <2>1, <3>3 DEF Lookup
    <3>4. CASE HandOver(c)
      BY <2>1, <3>4 DEF HandOver
    <3>5. CASE JoinRoom(c)
      BY <2>1, <3>5 DEF JoinRoom
    <3> QED  BY <2>3, <3>1, <3>2, <3>3, <3>4, <3>5 DEF AddConnection, Examine, Served
  <2>4. CASE SpawnTask
    BY <2>1, <2>4 DEF SpawnTask
  <2>5. ASSUME NEW c \in Clients, MemberLeaves(c) PROVE Unknown(q)'
    BY <2>1, <2>5 DEF MemberLeaves
  <2>6. ASSUME NEW r \in Rooms, RemoveBegins(r) \/ RemoveRoom(r) PROVE Unknown(q)'
    BY <2>1, <2>6 DEF RemoveGoto, RemoveBegins, RemoveRoom, RemoveTakes, RemoveJoins, RemoveDeletes
  <2>7. CASE Close
    BY <2>1, <2>7
    DEF RemovalInv, Close, CloseBegins, ClosePicks, CloseRoom, CloseClears, CloseJoins
  <2>8. ASSUME NEW c \in Clients, AcceptClient(c) PROVE Unknown(q)'
    BY <2>1, <2>8 DEF AcceptClient
  <2>9. CASE Bind \/ NoticeToken \/ AcceptFails \/ CloseCancels \/ UNCHANGED vars
    BY <2>2, <2>9 DEF Bind, NoticeToken, AcceptFails, CloseCancels, vars
  <2> QED  BY <1>1, <2>3, <2>4, <2>5, <2>6, <2>7, <2>8, <2>9 DEF Next, Listen, Outside
<1>3. CASE add' # add
  BY <1>1, <1>3 DEF Next, Listen, Outside, Bind, SpawnTask, NoticeToken, AcceptFails, CloseCancels,
     AcceptClient, MemberLeaves, RemoveBegins, RemoveRoom, RemoveTakes, RemoveJoins, RemoveDeletes,
     Close, CloseBegins, ClosePicks, CloseRoom, CloseClears, CloseJoins, vars, AddConnection,
     Examine, Served, FrameComes, CheckRoom, LoadRoom, WelcomeTaken, RefusalTaken, TimesOut,
     Lookup, HandOver, JoinRoom
<1> QED  BY <1>2, <1>3

\* A room is closed by one at a time: whom it left the map for, or whom close() has
\* come to.
LEMMA RemovalStep ==
    ASSUME TypeOK, RemovalInv, AddInv, [Next]_vars
    PROVE  RemovalInv'
<1> USE AdmissionAssumption
    DEF AdmissionAssumption, TypeOK, RemovalInv, loopVars, clientVars, roomVars, closeVars
<1>1. CASE UNCHANGED <<rooms, remove, phase, sweep, current>>
  BY <1>1
<1>2. ASSUME NEW c \in Clients, AddConnection(c) \/ AcceptClient(c) \/ MemberLeaves(c)
      PROVE  RemovalInv'
  BY <1>1, <1>2 DEF AddConnection, Examine, Served, FrameComes, CheckRoom, LoadRoom,
                    WelcomeTaken, RefusalTaken, TimesOut, Lookup, HandOver, JoinRoom,
                    AcceptClient, MemberLeaves
<1>3. CASE Listen \/ AcceptFails \/ CloseCancels
  BY <1>1, <1>3 DEF Listen, Bind, SpawnTask, NoticeToken, AcceptFails, CloseCancels
<1>4. ASSUME NEW r \in Rooms, AddBegins(r) \/ AddRoom(r) PROVE RemovalInv'
  <2>1. CASE AddBegins(r) \/ AddCreates(r)
    BY <1>1, <2>1 DEF AddBegins, AddCreates
  <2>2. CASE AddInserts(r)
    BY <2>2 DEF AddInserts, AddGoto, AddInv, Unknown
  <2> QED  BY <1>4, <2>1, <2>2 DEF AddRoom
<1>5. ASSUME NEW r \in Rooms, RemoveBegins(r) \/ RemoveRoom(r) PROVE RemovalInv'
  <2> USE DEF RemoveGoto
  <2>1. CASE RemoveBegins(r)
    BY <2>1 DEF RemoveBegins
  <2>2. CASE RemoveTakes(r)
    BY <2>2 DEF RemoveTakes
  <2>3. CASE RemoveJoins(r)
    BY <2>3 DEF RemoveJoins
  <2>4. CASE RemoveDeletes(r)
    BY <2>4 DEF RemoveDeletes
  <2> QED  BY <1>5, <2>1, <2>2, <2>3, <2>4 DEF RemoveRoom
<1>6. CASE Close
  <2>1. CASE CloseBegins \/ CloseJoins
    BY <2>1 DEF CloseBegins, CloseJoins
  <2>2. CASE ClosePicks
    BY <2>2 DEF ClosePicks
  <2>3. CASE CloseRoom
    BY <2>3 DEF CloseRoom
  <2>4. CASE CloseClears
    BY <2>4 DEF CloseClears
  <2> QED  BY <1>6, <2>1, <2>2, <2>3, <2>4 DEF Close
<1>7. CASE UNCHANGED vars
  BY <1>1, <1>7 DEF vars
<1> QED  BY <1>2, <1>3, <1>4, <1>5, <1>6, <1>7 DEF Next, Outside

\* Whoever is still connected to a closed node is a member; its room was put in and is
\* not closed, so a removal has it in hand, or close() had been by when it came.
LEMMA QuietFollows ==
    TypeOK /\ AddInv /\ SweepInv /\ EachHasOneKeeper /\ ClosedRoomIsEmpty => ClosedNodeIsQuiet
<1> SUFFICES ASSUME TypeOK, AddInv, SweepInv, EachHasOneKeeper, ClosedRoomIsEmpty,
                    close = "done", NEW c \in Clients, link[c] = "open"
             PROVE  remove[WantOf[c]] = "join" \/ WantOf[c] \in behind
  BY DEF ClosedNodeIsQuiet
<1>1. inHand = NoClient /\ inHand # c /\ Idle(c)
  BY AdmissionAssumption DEF AdmissionAssumption, TypeOK, SweepInv
<1>2. c \in members
  BY <1>1 DEF EachHasOneKeeper, KeptOnce
<1>3. WantOf[c] \in Rooms /\ phase[WantOf[c]] # "closed"
  BY <1>2, AdmissionAssumption DEF AdmissionAssumption, ClosedRoomIsEmpty, Vacant
<1>4. current = NoRoom /\ WantOf[c] # current
  BY <1>3, AdmissionAssumption DEF AdmissionAssumption, SweepInv
<1>5. add[WantOf[c]] = "done"
  BY <1>2, <1>3 DEF AddInv, Unknown, Vacant
<1> QED  BY <1>3, <1>4, <1>5 DEF SweepInv

-----------------------------------------------------------------------------
(* The theorems *)

LEMMA NextInv == AdmissionInv /\ [Next]_vars => AdmissionInv'
<1> SUFFICES ASSUME AdmissionInv, [Next]_vars PROVE AdmissionInv'
  OBVIOUS
<1>1. TypeOK' /\ AddInv' /\ SweepInv' /\ RemovalInv' /\ ClosedRoomIsEmpty'
  BY TypeStep, AddStep, SweepStep, RemovalStep, EmptyStep DEF AdmissionInv
<1>2. \A c \in Clients : ClientInv(c)
  BY ClientInvFollows
<1>3. \A c \in Clients : ClientInv(c)'
  BY <1>2, ClientStep DEF AdmissionInv
<1>4. TaskInv' /\ EachHasOneKeeper' /\ MembersAreGenuine'
  BY <1>1, <1>3 DEF TypeOK, ClientInv, TaskInv, EachHasOneKeeper, MembersAreGenuine
<1>5. ClosedNodeIsQuiet'
  BY <1>1, <1>4, QuietFollows, PTL
<1> QED  BY <1>1, <1>4, <1>5 DEF AdmissionInv

\* AdmissionInv holds in every state of every run, however many clients come while
\* rooms are added and removed and the node is closed.
THEOREM Inductive == Spec => []AdmissionInv
  BY InitInv, NextInv, PTL DEF Spec

\* Every variable keeps its type; the accept loop has a client in hand exactly while
\* it waits for the lock.
THEOREM TypeCorrect == Spec => []TypeOK
<1>1. AdmissionInv => TypeOK
  BY DEF AdmissionInv
<1> QED  BY <1>1, Inductive, PTL

\* Every connection the server has open has exactly one keeper, who will close it.
THEOREM Kept == Spec => []EachHasOneKeeper
<1>1. AdmissionInv => EachHasOneKeeper
  BY DEF AdmissionInv
<1> QED  BY <1>1, Inductive, PTL

\* Nobody gets into a room without its title and password.
THEOREM Vetted == Spec => []MembersAreGenuine
<1>1. AdmissionInv => MembersAreGenuine
  BY DEF AdmissionInv
<1> QED  BY <1>1, Inductive, PTL

\* A closed room is empty and stays so.
THEOREM Empty == Spec => []ClosedRoomIsEmpty
<1>1. AdmissionInv => ClosedRoomIsEmpty
  BY DEF AdmissionInv
<1> QED  BY <1>1, Inductive, PTL

\* A closed node has no connection left, but in a room a removal is busy with or one that
\* add_room() put into the map behind close().
THEOREM Quiet == Spec => []ClosedNodeIsQuiet
<1>1. AdmissionInv => ClosedNodeIsQuiet
  BY DEF AdmissionInv
<1> QED  BY <1>1, Inductive, PTL
-----------------------------------------------------------------------------
(* Each room is a hall *)

GuestAt(r) == [c \in GuestsOf(r) |-> Guest(c)]

LEMMA GuestAtIs ==
    ASSUME NEW r, NEW c \in GuestsOf(r)
    PROVE  /\ c \in Clients /\ WantOf[c] = r
           /\ GuestAt(r)[c] = Guest(c) /\ GuestAt(r)'[c] = Guest(c)'
  BY DEF GuestAt, GuestsOf

\* A step that concerns one client, and no room's phase.
LEMMA HallMove ==
    ASSUME NEW r \in Rooms, NEW c \in Clients, phase' = phase,
           \A d \in Clients \ {c} : Guest(d)' = Guest(d),
           \/ Guest(c)' = Guest(c)
           \/ Guest(c) # "gone" /\ Guest(c)' = "gone"
           \/ phase[WantOf[c]] = "open" /\ Guest(c) = "outside" /\ Guest(c)' = "inside"
    PROVE  [Hall(r)!Next]_(Hall(r)!hallVars)
<1>1. \A d \in GuestsOf(r) : d # c => GuestAt(r)'[d] = GuestAt(r)[d]
  BY GuestAtIs
<1>2. CASE WantOf[c] # r \/ Guest(c)' = Guest(c)
  <2>1. \A d \in GuestsOf(r) : GuestAt(r)'[d] = GuestAt(r)[d]
    BY <1>1, <1>2, GuestAtIs
  <2>2. GuestAt(r)' = GuestAt(r)
    BY <2>1 DEF GuestAt
  <2> QED  BY <2>2 DEF GuestAt, Hall!hallVars
<1>3. CASE WantOf[c] = r /\ Guest(c)' # Guest(c)
  <2>1. c \in GuestsOf(r) /\ GuestAt(r)[c] = Guest(c) /\ GuestAt(r)'[c] = Guest(c)'
    BY <1>3 DEF GuestsOf, GuestAt
  <2>2. GuestAt(r)' = [GuestAt(r) EXCEPT ![c] = Guest(c)']
    BY <1>1, <2>1 DEF GuestAt
  <2>3. CASE Guest(c) # "gone" /\ Guest(c)' = "gone"
    BY <2>1, <2>2, <2>3 DEF GuestAt, Hall!Next, Hall!Leave
  <2>4. CASE phase[r] = "open" /\ Guest(c) = "outside" /\ Guest(c)' = "inside"
    BY <2>1, <2>2, <2>4 DEF GuestAt, Hall!Next, Hall!Enter
  <2> QED  BY <1>3, <2>3, <2>4
<1> QED  BY <1>2, <1>3
\* A client is accepted, is examined, gets in, or goes: only its own room notices.
LEMMA ClientHall ==
    ASSUME AdmissionInv, NEW c \in Clients,
           AcceptClient(c) \/ AddConnection(c) \/ MemberLeaves(c),
           NEW r \in Rooms
    PROVE  [Hall(r)!Next]_(Hall(r)!hallVars)
<1> USE DEF roomVars
<1>1. TypeOK /\ ClientInv(c)
  BY ClientInvFollows DEF AdmissionInv
<1>2. CASE AcceptClient(c)
  <2>1. /\ phase' = phase /\ members' = members /\ link[c] = "outside" /\ link'[c] = "open"
        /\ \A d \in Clients \ {c} : link'[d] = link[d]
    BY <1>1, <1>2 DEF AcceptClient, TypeOK
  <2>2. \A d \in Clients : Guest(d)' = Guest(d)
    BY <2>1 DEF Guest
  <2> QED  BY <2>1, <2>2, HallMove
<1>3. CASE AddConnection(c)
  <2>1. phase' = phase
    BY <1>3 DEF AddConnection, Examine, Served, FrameComes, CheckRoom, LoadRoom, WelcomeTaken,
                RefusalTaken, TimesOut, Lookup, HandOver, JoinRoom
  <2>2. \A d \in Clients \ {c} : Guest(d)' = Guest(d)
    BY <1>1, <1>3, Examination DEF Guest
  <2>3. Guest(c) = "outside"
    BY <1>1, <1>3, Examination, Examined DEF Guest
  <2>4. CASE members' = members
    <3>1. link'[c] \in {"open", "closed"} /\ c \notin members
      BY <1>1, <1>3, Examination, Examined
    <3>2. Guest(c)' \in {"outside", "gone"}
      BY <2>4, <3>1 DEF Guest
    <3> QED  BY <2>1, <2>2, <2>3, <3>2, HallMove
  <2>5. CASE members' # members
    <3>1. JoinRoom(c) /\ phase[WantOf[c]] = "open" /\ members' = members \cup {c}
      BY <1>3, <2>5 DEF AddConnection, Examine, Served, FrameComes, CheckRoom, LoadRoom,
                        WelcomeTaken, RefusalTaken, TimesOut, Lookup, HandOver, JoinRoom
    <3>2. Guest(c)' = "inside"
      BY <3>1 DEF Guest
    <3> QED  BY <2>1, <2>2, <2>3, <3>1, <3>2, HallMove
  <2> QED  BY <2>4, <2>5
<1>4. CASE MemberLeaves(c)
  <2>1. /\ phase' = phase /\ c \in members /\ members' = members \ {c} /\ link'[c] = "closed"
        /\ \A d \in Clients \ {c} : link'[d] = link[d]
    BY <1>1, <1>4 DEF MemberLeaves, HangUp, TypeOK
  <2>2. Guest(c) = "inside" /\ Guest(c)' = "gone"
    BY <2>1 DEF Guest
  <2>3. \A d \in Clients \ {c} : Guest(d)' = Guest(d)
    BY <2>1 DEF Guest
  <2> QED  BY <2>1, <2>2, <2>3, HallMove
<1> QED  BY <1>2, <1>3, <1>4

\* A room is closed by a step that leaves the clients alone.
LEMMA PhaseMove ==
    ASSUME NEW r \in Rooms, UNCHANGED <<members, link>>,
           \/ phase'[r] = phase[r]
           \/ phase'[r] = "closing"
           \/ phase[r] = "closing" /\ phase'[r] = "closed" /\ Vacant(r)
    PROVE  [Hall(r)!Next]_(Hall(r)!hallVars)
<1>1. GuestAt(r)' = GuestAt(r)
  BY DEF GuestAt, Guest
<1>2. CASE phase'[r] = phase[r]
  BY <1>1, <1>2 DEF GuestAt, Hall!hallVars
<1>3. CASE phase'[r] = "closing" /\ phase[r] # "closing"
  BY <1>1, <1>3 DEF GuestAt, Hall!Next, Hall!BeginClose
<1>4. CASE phase[r] = "closing" /\ phase'[r] = "closed" /\ Vacant(r)
  <2>1. \A c \in GuestsOf(r) : GuestAt(r)[c] # "inside"
    BY <1>4, GuestAtIs DEF Vacant, Guest
  <2> QED  BY <1>1, <1>4, <2>1 DEF GuestAt, Hall!Next, Hall!EndClose
<1> QED  BY <1>2, <1>3, <1>4

LEMMA RoomHall ==
    ASSUME AdmissionInv, NEW q \in Rooms,
           AddBegins(q) \/ AddRoom(q) \/ RemoveBegins(q) \/ RemoveRoom(q), NEW r \in Rooms
    PROVE  [Hall(r)!Next]_(Hall(r)!hallVars)
<1> USE DEF clientVars, RemoveGoto
<1>1. TypeOK /\ RemovalInv
  BY DEF AdmissionInv
<1>2. CASE AddBegins(q) \/ AddRoom(q) \/ RemoveBegins(q) \/ RemoveDeletes(q)
  BY <1>2, PhaseMove
  DEF AddBegins, AddRoom, AddCreates, AddInserts, RemoveBegins, RemoveDeletes
<1>3. CASE RemoveTakes(q)
  BY <1>1, <1>3, PhaseMove DEF RemoveTakes, TypeOK
<1>4. CASE RemoveJoins(q)
  BY <1>1, <1>4, PhaseMove DEF RemoveJoins, TypeOK, RemovalInv
<1> QED  BY <1>2, <1>3, <1>4 DEF RemoveRoom

LEMMA CloseHall ==
    ASSUME AdmissionInv, Close \/ CloseCancels, NEW r \in Rooms
    PROVE  [Hall(r)!Next]_(Hall(r)!hallVars)
<1> USE DEF clientVars, roomVars
<1>1. TypeOK /\ RemovalInv
  BY DEF AdmissionInv
<1>2. CASE CloseCancels \/ CloseBegins \/ CloseClears \/ CloseJoins
  BY <1>2, PhaseMove DEF CloseCancels, CloseBegins, CloseClears, CloseJoins
<1>3. CASE ClosePicks
  BY <1>1, <1>3, PhaseMove DEF ClosePicks, TypeOK
<1>4. CASE CloseRoom
  BY <1>1, <1>4, PhaseMove, AdmissionAssumption
  DEF AdmissionAssumption, CloseRoom, TypeOK, RemovalInv
<1> QED  BY <1>2, <1>3, <1>4 DEF Close

LEMMA HallStep ==
    ASSUME AdmissionInv, [Next]_vars, NEW r \in Rooms
    PROVE  [Hall(r)!Next]_(Hall(r)!hallVars)
<1>1. CASE Listen \/ AcceptFails
  BY <1>1, PhaseMove DEF Listen, Bind, SpawnTask, NoticeToken, AcceptFails, clientVars, roomVars
<1>2. CASE UNCHANGED vars
  BY <1>2, PhaseMove DEF vars, clientVars, roomVars
<1> QED  BY <1>1, <1>2, ClientHall, RoomHall, CloseHall DEF Next, Outside

\* Each room is a hall to the tasks of the node (node.rs:87-115, 145-178, 470-493), as
\* Room implements it: nobody gets in once close() or a removal began to close it, and
\* neither is done before the last member has left.
THEOREM Refinement == Spec => ImplementsHalls
<1>1. Init => \A r \in Rooms : Hall(r)!Init
  BY DEF Init, Hall!Init, Guest, GuestsOf
<1>2. AdmissionInv /\ [Next]_vars => \A r \in Rooms : [Hall(r)!Next]_(Hall(r)!hallVars)
  BY HallStep
<1> QED  BY <1>1, <1>2, Inductive, PTL DEF Spec, ImplementsHalls
=============================================================================
