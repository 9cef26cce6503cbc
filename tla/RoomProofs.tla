----------------------------- MODULE RoomProofs -----------------------------
(***************************************************************************)
(* Proofs about Room, for any number of connections, names, shards and     *)
(* workers: the inductive invariant RoomInv and what follows from it, on   *)
(* any number of threads too (RoomThreads).                                *)
(***************************************************************************)
EXTENDS RoomThreads, FiniteSetTheorems, TLAPS

LEMMA FlagMonotone ==
    ASSUME TypeOK, NEW c, FirstClose(c) \/ LaterClose(c)
    PROVE  /\ closedFlag' \in [Conns -> BOOLEAN]
           /\ \A d \in Conns : closedFlag[d] => closedFlag'[d]
           /\ c \in Conns => closedFlag'[c]
  BY DEF FirstClose, LaterClose, TypeOK

-----------------------------------------------------------------------------
LEMMA InitTypeOK == Init => TypeOK
<1> SUFFICES ASSUME Init PROVE TypeOK
  OBVIOUS
<1>1. chan \in [Workers -> 0 .. Cap]
  BY RoomAssumption DEF Init, RoomAssumption
<1>2. sendTo \in [Conns -> SUBSET Workers] /\ wanted \in [Workers -> SUBSET Names]
  BY DEF Init
<1> QED  BY <1>1, <1>2 DEF Init, TypeOK

LEMMA AdderTypeOK ==
    ASSUME TypeOK, NEW c \in Conns, Offer(c) \/ Adder(c) \/ ConnCancels(c)
    PROVE  TypeOK'
<1> USE DEF TypeOK, roomVars, connVars, lisVars, wkVars, hbVars
<1>1. CASE Offer(c)
  BY <1>1 DEF Offer
<1>2. CASE Enter(c)
  BY <1>2 DEF Enter
<1>3. CASE Reject(c)
  BY <1>3, FlagMonotone DEF Reject
<1>4. CASE ConnCancels(c)
  BY <1>4 DEF ConnCancels
<1> QED  BY <1>1, <1>2, <1>3, <1>4 DEF Adder

LEMMA ListenerTypeOK ==
    ASSUME TypeOK, NEW c \in Conns,
           Listener(c) \/ ReadMessage(c) \/ PeerEnds(c) \/ ListenerPanics(c)
    PROVE  TypeOK'
<1> USE RoomAssumption
    DEF RoomAssumption, TypeOK, roomVars, connVars, wkVars, hbVars, ListenerGoto
<1>1. CASE ListenerStart(c) \/ NoticeToken(c) \/ PeerEnds(c) \/ ListenerPanics(c)
  BY <1>1 DEF ListenerStart, NoticeToken, PeerEnds, ListenerPanics
<1>2. CASE Insert(c)
  BY <1>2 DEF Insert
<1>3. CASE Supersede(c)
  BY <1>3, FlagMonotone DEF Supersede
<1>4. CASE Send(c)
  <2>1. chan' \in [Workers -> 0 .. Cap]
    BY <1>4 DEF Send
  <2> QED  BY <1>4, <2>1 DEF Send
<1>5. CASE Remove(c)
  BY <1>5 DEF Remove
<1>6. CASE ListenerCloses(c)
  BY <1>6, FlagMonotone DEF ListenerCloses
<1>7. CASE ReadMessage(c)
  BY <1>7 DEF ReadMessage
<1> QED  BY <1>1, <1>2, <1>3, <1>4, <1>5, <1>6, <1>7 DEF Listener

LEMMA WorkerTypeOK ==
    ASSUME TypeOK, NEW w \in Workers, Worker(w)
    PROVE  TypeOK'
<1> USE RoomAssumption DEF RoomAssumption, TypeOK, roomVars, connVars, lisVars, hbVars
<1>1. CASE WorkerTakes(w)
  <2>1. chan' \in [Workers -> 0 .. Cap]
    BY <1>1 DEF WorkerTakes
  <2>2. wanted' \in [Workers -> SUBSET Names]
    BY <1>1 DEF WorkerTakes
  <2> QED  BY <1>1, <2>1, <2>2 DEF WorkerTakes
<1>2. CASE WorkerLooksUp(w)
  BY <1>2 DEF WorkerLooksUp
<1>3. CASE WorkerWrote(w)
  BY <1>3 DEF WorkerWrote
<1>4. CASE WorkerExits(w)
  BY <1>4 DEF WorkerExits
<1> QED  BY <1>1, <1>2, <1>3, <1>4 DEF Worker

LEMMA HeartbeatTypeOK == TypeOK /\ Heartbeat => TypeOK'
<1> SUFFICES ASSUME TypeOK, Heartbeat PROVE TypeOK'
  OBVIOUS
<1> USE DEF TypeOK, roomVars, connVars, lisVars, wkVars
<1>1. CASE HeartbeatExits \/ HeartbeatTicks \/ HeartbeatRoundEnds
  BY <1>1 DEF HeartbeatExits, HeartbeatTicks, HeartbeatRoundEnds
<1>2. CASE HeartbeatPicks
  BY <1>2 DEF HeartbeatPicks
<1>3. CASE HeartbeatWrote
  BY <1>3 DEF HeartbeatWrote
<1>4. CASE HeartbeatCloses
  BY <1>4, FlagMonotone DEF HeartbeatCloses
<1> QED  BY <1>1, <1>2, <1>3, <1>4 DEF Heartbeat

LEMMA CloserTypeOK == TypeOK /\ (Closer \/ CloseFlags) => TypeOK'
  BY DEF TypeOK, Closer, CloseFlags, CloseCancels, CloseLocks, CloseJoins, CloseClears,
         CloserGoto, connVars, lisVars, wkVars, hbVars

LEMMA NextTypeOK == TypeOK /\ [Next]_vars => TypeOK'
<1> SUFFICES ASSUME TypeOK, [Next]_vars PROVE TypeOK'
  OBVIOUS
<1>1. CASE UNCHANGED vars
  BY <1>1 DEF TypeOK, vars, roomVars, connVars, lisVars, wkVars, hbVars
<1> QED  BY <1>1, AdderTypeOK, ListenerTypeOK, WorkerTypeOK, HeartbeatTypeOK, CloserTypeOK
         DEF Next, Outside, Finished

\* Every state of every run is well typed; in particular no channel ever holds
\* more than its capacity.
THEOREM TypeCorrect == Spec => []TypeOK
  BY InitTypeOK, NextTypeOK, PTL DEF Spec

-----------------------------------------------------------------------------
(* The map *)

MapInv == ShardInv /\ RegisteredIsServed /\ ServedIsRegistered

LEMMA MapTypes ==
    ASSUME TypeOK
    PROVE  /\ lis \in [Conns -> {"none", "start", "insert", "superseding", "awaiting",
                                 "reading", "sending", "remove", "close", "closing",
                                 "gone", "panicked"}]
           /\ replaced \in [Conns -> Conns \cup {NoConn}]
           /\ conns \in [Names -> Conns \cup {NoConn}]
           /\ closedFlag \in [Conns -> BOOLEAN]
           /\ NameOf \in [Conns -> Names] /\ NoConn \notin Conns
  BY RoomAssumption DEF TypeOK, RoomAssumption

\* A step that leaves the map and the listeners alone.
LEMMA MapQuiet ==
    ASSUME TypeOK, MapInv,
           lis' = lis, replaced' = replaced, conns' = conns,
           \A c \in Conns : closedFlag[c] => closedFlag'[c]
    PROVE  MapInv'
<1> USE MapTypes
<1>1. ShardInv'
  BY DEF MapInv, ShardInv, HoldsShard
<1>2. RegisteredIsServed'
  BY DEF MapInv, RegisteredIsServed, Serving
<1>3. ServedIsRegistered'
  BY DEF MapInv, ServedIsRegistered, Serving
<1> QED  BY <1>1, <1>2, <1>3 DEF MapInv

\* A listener that goes on without touching the map: it may start, read, or end
\* once its entry is out.
LEMMA MapMove ==
    ASSUME TypeOK, MapInv, NEW c \in Conns, NEW to,
           lis' = [lis EXCEPT ![c] = to], replaced' = replaced, conns' = conns,
           \A d \in Conns : closedFlag[d] => closedFlag'[d],
           \/ lis[c] \in {"none", "start"} /\ to \in {"start", "insert", "gone"}
           \/ lis[c] \in {"reading", "sending"} /\
                  to \in {"reading", "sending", "remove", "panicked"}
           \/ lis[c] \in {"close", "closing"} /\ to \in {"closing", "gone"}
    PROVE  MapInv'
<1> USE MapTypes
<1>1. \A d \in Conns : lis'[d] = IF d = c THEN to ELSE lis[d]
  OBVIOUS
<1>2. ShardInv'
  BY <1>1 DEF MapInv, ShardInv, HoldsShard
<1>3. RegisteredIsServed'
  BY <1>1 DEF MapInv, RegisteredIsServed, ShardInv, Serving
<1>4. ServedIsRegistered'
  BY <1>1 DEF MapInv, ServedIsRegistered, Serving
<1> QED  BY <1>2, <1>3, <1>4 DEF MapInv

LEMMA MapInsert ==
    ASSUME TypeOK, MapInv, NEW c \in Conns, Insert(c)
    PROVE  MapInv'
<1> USE MapTypes DEF HoldsShard
<1> DEFINE n == NameOf[c]
           old == conns[n]
<1>1. /\ lis[c] = "insert" /\ ShardFree(n) /\ n \in Names
      /\ conns' = [conns EXCEPT ![n] = c] /\ closedFlag' = closedFlag
      /\ \A m \in Names : conns[m] # c
      /\ \/ /\ old = NoConn /\ lis' = [lis EXCEPT ![c] = "reading"]
            /\ replaced' = replaced
         \/ /\ old \in Conns /\ lis' = [lis EXCEPT ![c] = "superseding"]
            /\ replaced' = [replaced EXCEPT ![c] = old]
  BY DEF Insert, ListenerGoto, connVars, MapInv, ShardInv
<1>2. \A d \in Conns : HoldsShard(d) => NameOf[d] # n
  BY <1>1 DEF ShardFree
<1>3. \A d \in Conns : d # c => lis'[d] = lis[d] /\ replaced'[d] = replaced[d]
  BY <1>1
<1>4. lis'[c] \in {"reading", "superseding"} /\ conns'[n] = c
  BY <1>1
<1>5. \A m \in Names : m # n => conns'[m] = conns[m]
  BY <1>1
<1>6. ShardInv'
  <2> SUFFICES ASSUME NEW d \in Conns
               PROVE  /\ lis'[d] \in {"none", "start", "insert"} =>
                            \A m \in Names : conns'[m] # d
                      /\ HoldsShard(d)' => /\ conns'[NameOf[d]] = d
                                          /\ replaced'[d] \in Conns \ {d}
                                          /\ NameOf[replaced'[d]] = NameOf[d]
                      /\ lis'[d] = "awaiting" => closedFlag'[replaced'[d]]
    BY DEF ShardInv
  <2>1. CASE d = c
    <3>1. lis'[c] = "superseding" =>
             old \in Conns \ {c} /\ NameOf[old] = n /\ replaced'[c] = old
      BY <1>1, <1>4 DEF MapInv, RegisteredIsServed
    <3> QED  BY <2>1, <3>1, <1>4
  <2>2. CASE d # c
    BY <2>2, <1>1, <1>2, <1>3, <1>4, <1>5 DEF MapInv, ShardInv
  <2> QED  BY <2>1, <2>2
<1>7. RegisteredIsServed'
  BY <1>1, <1>3, <1>4, <1>5 DEF MapInv, RegisteredIsServed, Serving
<1>8. ServedIsRegistered'
  <2> SUFFICES ASSUME NEW d \in Conns, lis'[d] \in Serving \ {"remove"}
               PROVE  \/ conns'[NameOf[d]] = d
                      \/ closedFlag'[d]
                      \/ \E e \in Conns : lis'[e] = "superseding" /\ replaced'[e] = d
    BY DEF ServedIsRegistered, Serving
  <2>1. CASE d = c
    BY <2>1, <1>4
  <2>2. CASE d # c /\ conns[NameOf[d]] = d
    <3>1. CASE NameOf[d] = n
      BY <2>2, <3>1, <1>1
    <3>2. CASE NameOf[d] # n
      BY <2>2, <3>2, <1>5
    <3> QED  BY <3>1, <3>2
  <2>3. CASE d # c /\ closedFlag[d]
    BY <2>3, <1>1
  <2>4. CASE d # c /\ \E e \in Conns : lis[e] = "superseding" /\ replaced[e] = d
    BY <2>4, <1>1, <1>3
  <2> QED  BY <2>1, <2>2, <2>3, <2>4, <1>3 DEF MapInv, ServedIsRegistered, Serving
<1> QED  BY <1>6, <1>7, <1>8 DEF MapInv

LEMMA MapSupersede ==
    ASSUME TypeOK, MapInv, NEW c \in Conns, Supersede(c)
    PROVE  MapInv'
<1> USE MapTypes DEF HoldsShard
<1> DEFINE old == replaced[c]
<1>1. /\ lis[c] \in {"superseding", "awaiting"} /\ conns' = conns
      /\ old \in Conns \ {c} /\ conns[NameOf[c]] = c /\ NameOf[old] = NameOf[c]
  BY DEF Supersede, ListenerGoto, MapInv, ShardInv
<1>2. /\ \A d \in Conns : closedFlag[d] => closedFlag'[d]
      /\ closedFlag'[old]
  <2>1. CASE FirstClose(old) \/ LaterClose(old)
    BY <1>1, <2>1, FlagMonotone
  <2>2. CASE lis[c] = "awaiting" /\ UNCHANGED closedFlag
    BY <2>2 DEF MapInv, ShardInv
  <2> QED  BY <2>1, <2>2 DEF Supersede, ListenerGoto
<1>3. \/ /\ lis' = [lis EXCEPT ![c] = "awaiting"] /\ replaced' = replaced
      \/ /\ lis' = [lis EXCEPT ![c] = "reading"]
         /\ replaced' = [replaced EXCEPT ![c] = NoConn]
  BY DEF Supersede, ListenerGoto
<1>4. \A d \in Conns : d # c => lis'[d] = lis[d] /\ replaced'[d] = replaced[d]
  BY <1>3
<1>5. lis'[c] \in {"awaiting", "reading"} /\ (lis'[c] = "awaiting" => replaced'[c] = old)
  BY <1>3
<1>6. ShardInv'
  BY <1>1, <1>2, <1>4, <1>5 DEF MapInv, ShardInv
<1>7. RegisteredIsServed'
  BY <1>1, <1>4, <1>5 DEF MapInv, RegisteredIsServed, Serving
<1>8. ServedIsRegistered'
  <2> SUFFICES ASSUME NEW d \in Conns, lis'[d] \in Serving \ {"remove"}
               PROVE  \/ conns'[NameOf[d]] = d
                      \/ closedFlag'[d]
                      \/ \E e \in Conns : lis'[e] = "superseding" /\ replaced'[e] = d
    BY DEF ServedIsRegistered, Serving
  <2>1. CASE d = c \/ d = old
    BY <2>1, <1>1, <1>2
  <2>2. CASE d # c /\ d # old
    BY <2>2, <1>1, <1>2, <1>4 DEF MapInv, ServedIsRegistered, Serving
  <2> QED  BY <2>1, <2>2
<1> QED  BY <1>6, <1>7, <1>8 DEF MapInv

LEMMA MapRemove ==
    ASSUME TypeOK, MapInv, NEW c \in Conns, Remove(c)
    PROVE  MapInv'
<1> USE MapTypes DEF HoldsShard
<1>1. /\ lis[c] = "remove" /\ lis' = [lis EXCEPT ![c] = "close"] /\ replaced' = replaced
      /\ closedFlag' = closedFlag
      /\ conns' = [conns EXCEPT ![NameOf[c]] = IF @ = c THEN NoConn ELSE @]
  BY DEF Remove, ListenerGoto, connVars
<1>2. \A d \in Conns : lis'[d] = IF d = c THEN "close" ELSE lis[d]
  BY <1>1
<1>3. \A m \in Names : /\ conns'[m] \in {conns[m], NoConn}
                       /\ conns[m] # c => conns'[m] = conns[m]
  BY <1>1
<1>4. \A m \in Names : conns'[m] # c
  BY <1>1 DEF MapInv, RegisteredIsServed
<1>5. ShardInv'
  BY <1>1, <1>2, <1>3 DEF MapInv, ShardInv
<1>6. RegisteredIsServed'
  BY <1>2, <1>3, <1>4 DEF MapInv, RegisteredIsServed, Serving
<1>7. ServedIsRegistered'
  BY <1>1, <1>2, <1>3 DEF MapInv, ServedIsRegistered, Serving
<1> QED  BY <1>5, <1>6, <1>7 DEF MapInv

LEMMA MapClear ==
    ASSUME TypeOK, MapInv, CloserInv, CloseClears
    PROVE  MapInv'
<1> USE MapTypes
<1>1. /\ \A c \in Conns : lis[c] \in {"none", "gone", "panicked"}
      /\ UNCHANGED <<lis, replaced, closedFlag>>
      /\ \A n \in Names : conns'[n] = NoConn
  BY DEF CloserInv, AllEnded, Ended, CloseClears, CloserGoto, lisVars, connVars
<1> QED  BY <1>1 DEF MapInv, ShardInv, HoldsShard, RegisteredIsServed,
                     ServedIsRegistered, Serving

LEMMA AdderMap ==
    ASSUME TypeOK, MapInv, CloserInv, NEW c \in Conns,
           Offer(c) \/ Adder(c) \/ ConnCancels(c)
    PROVE  MapInv'
<1> USE MapTypes DEF lisVars, connVars
<1>1. CASE Offer(c)
  BY <1>1, MapQuiet DEF Offer
<1>2. CASE Enter(c)
  <2>1. add[c] = "locking" /\ lis[c] = "none"
    BY <1>2 DEF Enter, CloserInv, TypeOK
  <2>2. CASE isClosed
    BY <1>2, <2>2, MapQuiet DEF Enter
  <2>3. CASE ~isClosed
    BY <1>2, <2>1, <2>3, MapMove DEF Enter
  <2> QED  BY <2>2, <2>3
<1>3. CASE Reject(c)
  <2>1. \A d \in Conns : closedFlag[d] => closedFlag'[d]
    BY <1>3, FlagMonotone DEF Reject
  <2> QED  BY <1>3, <2>1, MapQuiet DEF Reject
<1>4. CASE ConnCancels(c)
  BY <1>4, MapQuiet DEF ConnCancels
<1> QED  BY <1>1, <1>2, <1>3, <1>4 DEF Adder

LEMMA ListenerMap ==
    ASSUME TypeOK, MapInv, NEW c \in Conns,
           Listener(c) \/ ReadMessage(c) \/ PeerEnds(c) \/ ListenerPanics(c)
    PROVE  MapInv'
<1> USE DEF connVars, ListenerGoto
<1>1. CASE ListenerStart(c)
  BY <1>1, MapMove DEF ListenerStart
<1>2. CASE NoticeToken(c) \/ PeerEnds(c) \/ ListenerPanics(c)
  BY <1>2, MapMove DEF NoticeToken, PeerEnds, ListenerPanics
<1>3. CASE Insert(c) \/ Supersede(c) \/ Remove(c)
  BY <1>3, MapInsert, MapSupersede, MapRemove
<1>4. CASE Send(c)
  BY <1>4, MapMove DEF Send
<1>5. CASE ReadMessage(c)
  BY <1>5, MapMove DEF ReadMessage
<1>6. CASE ListenerCloses(c)
  <2>1. \A d \in Conns : closedFlag[d] => closedFlag'[d]
    BY <1>6, FlagMonotone DEF ListenerCloses
  <2> QED  BY <1>6, <2>1, MapMove DEF ListenerCloses
<1> QED  BY <1>1, <1>2, <1>3, <1>4, <1>5, <1>6 DEF Listener

LEMMA WorkerMap ==
    ASSUME TypeOK, MapInv, NEW w \in Workers, Worker(w)
    PROVE  MapInv'
  BY MapQuiet DEF Worker, WorkerTakes, WorkerLooksUp, WorkerWrote, WorkerExits,
                  lisVars, connVars

LEMMA HeartbeatMap ==
    ASSUME TypeOK, MapInv, Heartbeat
    PROVE  MapInv'
<1>1. lis' = lis /\ replaced' = replaced /\ conns' = conns
  BY DEF Heartbeat, HeartbeatExits, HeartbeatTicks, HeartbeatPicks, HeartbeatWrote,
         HeartbeatCloses, HeartbeatRoundEnds, lisVars
<1>2. \A c \in Conns : closedFlag[c] => closedFlag'[c]
  <2>1. CASE HeartbeatCloses
    BY <2>1, FlagMonotone DEF HeartbeatCloses
  <2>2. CASE ~HeartbeatCloses
    BY <2>2 DEF Heartbeat, HeartbeatExits, HeartbeatTicks, HeartbeatPicks,
                HeartbeatWrote, HeartbeatRoundEnds, connVars
  <2> QED  BY <2>1, <2>2
<1> QED  BY <1>1, <1>2, MapQuiet

LEMMA CloserMap ==
    ASSUME TypeOK, MapInv, CloserInv, Closer \/ CloseFlags
    PROVE  MapInv'
<1>1. CASE CloseClears
  BY <1>1, MapClear
<1>2. CASE CloseFlags \/ CloseCancels \/ CloseLocks \/ CloseJoins
  BY <1>2, MapQuiet DEF CloseFlags, CloseCancels, CloseLocks, CloseJoins, lisVars, connVars
<1> QED  BY <1>1, <1>2 DEF Closer

LEMMA NextMap == TypeOK /\ CloserInv /\ MapInv /\ [Next]_vars => MapInv'
<1> SUFFICES ASSUME TypeOK, CloserInv, MapInv, [Next]_vars PROVE MapInv'
  OBVIOUS
<1>1. CASE UNCHANGED vars
  BY <1>1, MapQuiet DEF vars, lisVars, connVars
<1> QED  BY <1>1, AdderMap, ListenerMap, WorkerMap, HeartbeatMap, CloserMap
         DEF Next, Outside, Finished

-----------------------------------------------------------------------------
(* The closing *)

\* In a room that is closed no task starts, and one that has ended stays so.
LEMMA EndedStable ==
    ASSUME TypeOK, isClosed, AllEnded, [Next]_vars,
           \A c \in Conns : lis[c] # "none" => add[c] = "spawned"
    PROVE  AllEnded'
<1> USE DEF TypeOK, AllEnded, Ended, lisVars, wkVars, hbVars
<1>1. CASE \E c \in Conns : Offer(c) \/ Adder(c) \/ ConnCancels(c)
  BY <1>1 DEF Offer, Adder, Enter, Reject, ConnCancels
<1>2. ASSUME NEW c \in Conns
      PROVE  ~(Listener(c) \/ ReadMessage(c) \/ PeerEnds(c) \/ ListenerPanics(c))
  BY <1>2 DEF Listener, ListenerStart, Insert, Supersede, Send, NoticeToken, Remove,
              ListenerCloses, ReadMessage, PeerEnds, ListenerPanics, ListenerGoto
<1>3. ASSUME NEW w \in Workers PROVE ~Worker(w)
  BY <1>3 DEF Worker, WorkerTakes, WorkerLooksUp, WorkerWrote, WorkerExits
<1>4. ~Heartbeat
  BY DEF Heartbeat, HeartbeatExits, HeartbeatTicks, HeartbeatPicks, HeartbeatWrote,
         HeartbeatCloses, HeartbeatRoundEnds
<1>5. CASE Closer \/ CloseFlags
  BY <1>5 DEF Closer, CloseFlags, CloseCancels, CloseLocks, CloseJoins, CloseClears
<1>6. CASE UNCHANGED vars
  BY <1>6 DEF vars
<1> QED  BY <1>1, <1>2, <1>3, <1>4, <1>5, <1>6 DEF Next, Outside, Finished

LEMMA AdderCloser ==
    ASSUME TypeOK, CloserInv, NEW c \in Conns,
           Offer(c) \/ Adder(c) \/ ConnCancels(c)
    PROVE  /\ UNCHANGED roomVars
           /\ \A d \in Conns : lis'[d] # "none" => add'[d] = "spawned"
<1> USE DEF TypeOK, CloserInv, lisVars
<1>1. CASE Offer(c)
  BY <1>1 DEF Offer
<1>2. CASE Enter(c)
  BY <1>2 DEF Enter
<1>3. CASE Reject(c)
  BY <1>3 DEF Reject
<1>4. CASE ConnCancels(c)
  BY <1>4 DEF ConnCancels
<1> QED  BY <1>1, <1>2, <1>3, <1>4 DEF Adder

LEMMA TaskCloser ==
    ASSUME TypeOK, CloserInv,
           \/ \E c \in Conns : \/ Listener(c) \/ ReadMessage(c)
                                \/ PeerEnds(c) \/ ListenerPanics(c)
           \/ \E w \in Workers : Worker(w)
           \/ Heartbeat
    PROVE  /\ UNCHANGED roomVars
           /\ \A d \in Conns : lis'[d] # "none" => add'[d] = "spawned"
<1> USE DEF TypeOK, CloserInv, lisVars
<1>1. ASSUME NEW c \in Conns,
             Listener(c) \/ ReadMessage(c) \/ PeerEnds(c) \/ ListenerPanics(c)
      PROVE  /\ UNCHANGED <<roomVars, add>>
             /\ lis[c] # "none"
             /\ \A d \in Conns : d # c => lis'[d] = lis[d]
  BY <1>1 DEF Listener, ListenerStart, Insert, Supersede, Send, NoticeToken, Remove,
              ListenerCloses, ReadMessage, PeerEnds, ListenerPanics, ListenerGoto
<1>2. CASE \E w \in Workers : Worker(w)
  BY <1>2 DEF Worker, WorkerTakes, WorkerLooksUp, WorkerWrote, WorkerExits
<1>3. CASE Heartbeat
  BY <1>3 DEF Heartbeat, HeartbeatExits, HeartbeatTicks, HeartbeatPicks, HeartbeatWrote,
              HeartbeatCloses, HeartbeatRoundEnds
<1> QED  BY <1>1, <1>2, <1>3

LEMMA NextCloser == TypeOK /\ CloserInv /\ [Next]_vars => CloserInv'
<1> SUFFICES ASSUME TypeOK, CloserInv, [Next]_vars PROVE CloserInv'
  OBVIOUS
<1>1. /\ UNCHANGED roomVars \/ Closer \/ CloseFlags
      /\ \A d \in Conns : lis'[d] # "none" => add'[d] = "spawned"
  <2>1. CASE UNCHANGED vars
    BY <2>1 DEF vars, lisVars, CloserInv
  <2>2. CASE Closer \/ CloseFlags
    BY <2>2 DEF Closer, CloseFlags, CloseCancels, CloseLocks, CloseJoins, CloseClears,
                lisVars, CloserInv
  <2> QED  BY <2>1, <2>2, AdderCloser, TaskCloser DEF Next, Outside, Finished
<1>2. (isClosed' <=> closer' # "idle") /\ (cancelled' <=> closer' \notin {"idle", "flagged"})
  BY <1>1 DEF CloserInv, roomVars, Closer, CloseFlags, CloseCancels, CloseLocks,
              CloseJoins, CloseClears, CloserGoto
<1>3. ASSUME closer' \in {"joined", "done"} PROVE AllEnded'
  <2>1. AllEnded /\ isClosed
    BY <1>1, <1>3 DEF CloserInv, roomVars, Closer, CloseFlags, CloseCancels, CloseLocks,
                      CloseJoins, CloseClears, CloserGoto
  <2> QED  BY <2>1, EndedStable DEF CloserInv
<1> QED  BY <1>1, <1>2, <1>3 DEF CloserInv

\* Nobody is left who could put a connection into the map.
LEMMA NextQuiet ==
    ASSUME TypeOK, CloserInv, ClosedRoomIsQuiet, [Next]_vars, CloserInv'
    PROVE  ClosedRoomIsQuiet'
<1> SUFFICES ASSUME closer' = "done" PROVE \A n \in Names : conns'[n] = NoConn
  BY DEF ClosedRoomIsQuiet, CloserInv
<1>1. CASE closer = "done"
  <2>1. \A c \in Conns : Ended(c)
    BY <1>1 DEF CloserInv, AllEnded
  <2>2. conns' = conns
    BY <1>1, <2>1
       DEF Next, Adder, Enter, Reject, ConnCancels, Listener, ListenerStart, Insert,
           Supersede, Send, NoticeToken, Remove, ListenerCloses, ListenerGoto, Ended,
           Worker, WorkerTakes, WorkerLooksUp, WorkerWrote, WorkerExits,
           Heartbeat, HeartbeatExits, HeartbeatTicks, HeartbeatPicks, HeartbeatWrote,
           HeartbeatCloses, HeartbeatRoundEnds, Closer, CloseCancels, CloseLocks,
           CloseJoins, CloseClears, CloserGoto, Outside, Offer, ReadMessage, PeerEnds,
           ListenerPanics, CloseFlags, Finished, vars
  <2> QED  BY <1>1, <2>2 DEF ClosedRoomIsQuiet
<1>2. CASE closer # "done"
  <2>1. CloseClears
    BY <1>2, AdderCloser, TaskCloser
       DEF Next, Outside, Finished, vars, roomVars, Closer, CloseFlags, CloseCancels,
           CloseLocks, CloseJoins, CloserGoto
  <2> QED  BY <2>1 DEF CloseClears
<1> QED  BY <1>1, <1>2

-----------------------------------------------------------------------------
(* The theorems *)

LEMMA InitInv == Init => RoomInv
<1> SUFFICES ASSUME Init PROVE RoomInv
  OBVIOUS
<1>1. TypeOK
  BY InitTypeOK
<1>2. CloserInv /\ ClosedRoomIsQuiet
  BY DEF Init, CloserInv, ClosedRoomIsQuiet
<1>3. MapInv
  BY RoomAssumption DEF RoomAssumption, Init, MapInv, ShardInv, HoldsShard,
                        RegisteredIsServed, ServedIsRegistered, Serving
<1> QED  BY <1>1, <1>2, <1>3 DEF RoomInv, MapInv

LEMMA NextInv == RoomInv /\ [Next]_vars => RoomInv'
<1> SUFFICES ASSUME RoomInv, [Next]_vars PROVE RoomInv'
  OBVIOUS
<1>1. TypeOK'
  BY NextTypeOK DEF RoomInv
<1>2. CloserInv'
  BY NextCloser DEF RoomInv
<1>3. MapInv'
  BY NextMap DEF RoomInv, MapInv
<1>4. ClosedRoomIsQuiet'
  BY <1>2, NextQuiet DEF RoomInv
<1> QED  BY <1>1, <1>2, <1>3, <1>4 DEF RoomInv, MapInv

\* RoomInv holds in every state of every run, whatever the number of
\* connections that fight for a name while the room is being closed.
THEOREM Inductive == Spec => []RoomInv
  BY InitInv, NextInv, PTL DEF Spec

\* Whoever is in the map is there under its own name, and a listener will take
\* it out (room.rs:163).
THEOREM Registered == Spec => []RegisteredIsServed
<1>1. RoomInv => RegisteredIsServed
  BY DEF RoomInv
<1> QED  BY <1>1, Inductive, PTL

\* A listener's late clean-up never takes out its successor (room.rs:345-348):
\* a connection that is served is in the map, or is being closed.
THEOREM Served == Spec => []ServedIsRegistered
<1>1. RoomInv => ServedIsRegistered
  BY DEF RoomInv
<1> QED  BY <1>1, Inductive, PTL

\* Once close() has returned no task of the room is left and none can start,
\* however late a connection is offered (room.rs:139-147).
THEOREM Quiet == Spec => []ClosedRoomIsQuiet
<1>1. RoomInv => ClosedRoomIsQuiet
  BY DEF RoomInv
<1> QED  BY <1>1, Inductive, PTL

\* What close() finds in the map after the join was left there by a panic.
THEOREM Leftovers == Spec => []LeftoversPanicked
<1>1. RoomInv => LeftoversPanicked
  BY RoomAssumption DEF RoomAssumption, RoomInv, TypeOK, CloserInv, AllEnded, Ended,
                        RegisteredIsServed, LeftoversPanicked, Serving
<1> QED  BY <1>1, Inductive, PTL
-----------------------------------------------------------------------------
(* Panics *)

\* Nobody panics but a listener that was sent a malformed frame.
PanicInv == \A c \in Conns : lis[c] = "panicked" => c \in Malformed

LEMMA PanicStep == TypeOK /\ PanicInv /\ [Next]_vars => PanicInv'
<1> SUFFICES ASSUME TypeOK, PanicInv, [Next]_vars,
                    NEW d \in Conns, lis'[d] = "panicked"
             PROVE  d \in Malformed
  BY DEF PanicInv
<1> USE DEF lisVars
<1>1. lis \in [Conns -> {"none", "start", "insert", "superseding", "awaiting",
                         "reading", "sending", "remove", "close", "closing",
                         "gone", "panicked"}]
  BY MapTypes
<1>2. CASE lis' = lis
  BY <1>2 DEF PanicInv
<1>3. ASSUME NEW c \in Conns, Adder(c) \/ Listener(c) \/ ConnCancels(c)
      PROVE  lis'[d] = lis[d] \/ lis'[d] # "panicked"
  BY <1>1, <1>3 DEF Adder, Enter, Reject, Listener, ListenerGoto, ListenerStart, Insert,
        Supersede, Send, NoticeToken, Remove, ListenerCloses, ConnCancels
<1>4. ASSUME NEW c \in Conns, Offer(c) \/ ReadMessage(c) \/ PeerEnds(c) \/ ListenerPanics(c)
      PROVE  \/ lis'[d] = lis[d] \/ lis'[d] # "panicked"
             \/ c = d /\ c \in Malformed
  BY <1>1, <1>4 DEF Offer, ReadMessage, PeerEnds, ListenerPanics, ListenerGoto
<1>5. ASSUME NEW w \in Workers, Worker(w)
      PROVE  lis' = lis
  BY <1>5 DEF Worker, WorkerTakes, WorkerLooksUp, WorkerWrote, WorkerExits
<1>6. CASE Heartbeat
  BY <1>2, <1>6 DEF Heartbeat, HeartbeatExits, HeartbeatTicks, HeartbeatPicks,
        HeartbeatWrote, HeartbeatCloses, HeartbeatRoundEnds
<1>7. CASE Closer \/ CloseFlags
  BY <1>2, <1>7 DEF Closer, CloseFlags, CloseCancels, CloseLocks, CloseJoins, CloseClears
<1>8. CASE UNCHANGED vars
  BY <1>2, <1>8 DEF vars
<1> QED  BY <1>2, <1>3, <1>4, <1>5, <1>6, <1>7, <1>8
         DEF Next, Outside, Finished, PanicInv

LEMMA PanicsAreExplained == Spec => []PanicInv
<1>1. Init => PanicInv
  BY DEF Init, PanicInv
<1>2. RoomInv => TypeOK
  BY DEF RoomInv
<1> QED  BY <1>1, <1>2, PanicStep, Inductive, PTL DEF Spec

\* The comment of room.rs:171, "conns should be empty by now", is true of a room
\* whose listeners never panic: whatever is left over is a malformed peer's.
THEOREM NoPanicNoLeftovers ==
    ASSUME Malformed = {}
    PROVE  Spec => []EmptyBeforeClear
<1>1. LeftoversPanicked /\ TypeOK /\ PanicInv => EmptyBeforeClear
  BY MapTypes DEF LeftoversPanicked, PanicInv, EmptyBeforeClear
<1>2. RoomInv => TypeOK
  BY DEF RoomInv
<1> QED  BY <1>1, <1>2, Leftovers, Inductive, PanicsAreExplained, PTL

-----------------------------------------------------------------------------
(* Threads *)

\* A bounded number of threads only takes steps away: what is proved of a room
\* holds on any runtime.
THEOREM ThreadsTakeAway == ThreadedSpec => Spec
<1>1. [ThreadedNext]_<<vars, parked>> => [Next]_vars
  BY DEF ThreadedNext, Blocks, Park, Next
<1> QED  BY <1>1, PTL DEF ThreadedSpec, Spec

\* Where no two connections ask for one name, nobody is superseded and nobody
\* holds a shard across an await.
LEMMA NobodySupersedes ==
    ASSUME \A c, d \in Conns : NameOf[c] = NameOf[d] => c = d, RoomInv
    PROVE  \A c \in Conns : ~HoldsShard(c)
  BY DEF RoomInv, ShardInv

NobodyParked == parked = {}

LEMMA NobodyIsParked ==
    ASSUME \A c, d \in Conns : NameOf[c] = NameOf[d] => c = d,
           RoomInv, parked = {}, [ThreadedNext]_<<vars, parked>>
    PROVE  parked' = {}
<1>1. \A n \in Names : ~HeldUp(n)
  BY NobodySupersedes DEF HeldUp, HoldsShard
<1>2. ~Blocks
  <2>1. \A c \in Conns : NameOf[c] \in Names
    BY RoomAssumption DEF RoomAssumption
  <2>2. \A w \in Workers : wanted[w] \subseteq Names
    BY DEF RoomInv, TypeOK
  <2> QED  BY <1>1, <2>1, <2>2 DEF Blocks
<1> QED  BY <1>2 DEF ThreadedNext

\* The blocked runtime that room.rs:206-210 means to exclude comes of reused
\* names alone: without them there is a thread for every task that can go on,
\* even if the runtime has only one.
THEOREM DistinctNamesKeepThreads ==
    ASSUME Threads \in Nat \ {0},
           \A c, d \in Conns : NameOf[c] = NameOf[d] => c = d
    PROVE  ThreadedSpec => []SomeThreadRuns
<1>1. ThreadedSpec => []RoomInv
  BY ThreadsTakeAway, Inductive, PTL
<1>2. parked = {} => NobodyParked
  BY DEF NobodyParked
<1>3. RoomInv /\ NobodyParked /\ [ThreadedNext]_<<vars, parked>> => NobodyParked'
  BY NobodyIsParked DEF NobodyParked
<1>4. NobodyParked => SomeThreadRuns
  BY FS_EmptySet DEF SomeThreadRuns, NobodyParked
<1> QED  BY <1>1, <1>2, <1>3, <1>4, PTL DEF ThreadedSpec
-----------------------------------------------------------------------------
(* Room implements Hall *)

\* A step that moves one guest at most, and not the closer.
LEMMA HallMove ==
    ASSUME TypeOK, TypeOK', NEW c \in Conns, closer' = closer,
           \A d \in Conns \ {c} : lis'[d] = lis[d] /\ add'[d] = add[d],
           \/ Guest'[c] = Guest[c]
           \/ Guest[c] # "gone" /\ Guest'[c] = "gone"
           \/ closer = "idle" /\ Guest[c] = "outside" /\ Guest'[c] = "inside"
    PROVE  [AsHall!Next]_(AsHall!hallVars)
<1>1. Phase' = Phase /\ (closer = "idle" => Phase = "open")
  BY DEF Phase
<1>2. \A d \in Conns \ {c} : Guest'[d] = Guest[d]
  BY DEF Guest
<1>3. Guest' = [Guest EXCEPT ![c] = Guest'[c]]
  BY <1>2 DEF Guest
<1>4. CASE Guest'[c] = Guest[c]
  BY <1>1, <1>3, <1>4 DEF Guest, AsHall!hallVars
<1>5. CASE Guest[c] # "gone" /\ Guest'[c] = "gone"
  BY <1>1, <1>3, <1>5 DEF AsHall!Next, AsHall!Leave
<1>6. CASE closer = "idle" /\ Guest[c] = "outside" /\ Guest'[c] = "inside"
  BY <1>1, <1>3, <1>6 DEF AsHall!Next, AsHall!Enter
<1> QED  BY <1>4, <1>5, <1>6

LEMMA HallQuiet ==
    ASSUME closer' = closer, lis' = lis, add' = add
    PROVE  [AsHall!Next]_(AsHall!hallVars)
  BY DEF Phase, Guest, AsHall!hallVars

LEMMA AdderHall ==
    ASSUME RoomInv, TypeOK', NEW c \in Conns, Adder(c) \/ Offer(c)
    PROVE  [AsHall!Next]_(AsHall!hallVars)
<1> USE DEF roomVars, lisVars
<1>1. /\ TypeOK /\ (lis[c] # "none" => add[c] = "spawned")
      /\ isClosed <=> closer # "idle"
  BY DEF RoomInv, CloserInv
<1>2. /\ closer' = closer
      /\ \A d \in Conns \ {c} : lis'[d] = lis[d] /\ add'[d] = add[d]
  BY <1>1 DEF Adder, Offer, Enter, Reject, TypeOK
<1>3. CASE Offer(c)
  <2>1. lis'[c] = lis[c] /\ add[c] = "new" /\ add'[c] \in {"rejecting", "locking"}
    BY <1>1, <1>3 DEF Offer, TypeOK
  <2>2. Guest'[c] = Guest[c] \/ (Guest[c] # "gone" /\ Guest'[c] = "gone")
    BY <1>1, <2>1 DEF Guest
  <2> QED  BY <1>1, <1>2, <2>2, HallMove
<1>4. CASE Enter(c)
  <2>1. /\ add[c] = "locking" /\ lis[c] = "none"
        /\ IF isClosed THEN add'[c] = "rejecting"
                       ELSE add'[c] = "spawned" /\ lis'[c] = "start"
    BY <1>1, <1>4 DEF Enter, TypeOK
  <2>2. Guest[c] = "outside" /\ Guest'[c] = IF isClosed THEN "gone" ELSE "inside"
    BY <2>1 DEF Guest
  <2> QED  BY <1>1, <1>2, <2>2, HallMove
<1>5. CASE Reject(c)
  <2>1. /\ lis'[c] = lis[c] /\ add[c] \in {"rejecting", "awaiting"}
        /\ add'[c] \in {"awaiting", "rejected"}
    BY <1>1, <1>5 DEF Reject, TypeOK
  <2>2. Guest'[c] = Guest[c]
    BY <2>1 DEF Guest
  <2> QED  BY <1>1, <1>2, <2>2, HallMove
<1> QED  BY <1>3, <1>4, <1>5 DEF Adder

LEMMA ListenerHall ==
    ASSUME RoomInv, TypeOK', NEW c \in Conns,
           Listener(c) \/ ReadMessage(c) \/ PeerEnds(c) \/ ListenerPanics(c)
    PROVE  [AsHall!Next]_(AsHall!hallVars)
<1> USE DEF roomVars, lisVars
<1>1. TypeOK /\ (lis[c] # "none" => add[c] = "spawned")
  BY DEF RoomInv, CloserInv
<1>2. /\ closer' = closer /\ add' = add
      /\ lis[c] \notin {"none", "gone", "panicked"} /\ lis'[c] # "none"
      /\ \A d \in Conns \ {c} : lis'[d] = lis[d]
  BY <1>1 DEF Listener, ReadMessage, PeerEnds, ListenerPanics, ListenerStart, Insert,
         Supersede, Send, NoticeToken, Remove, ListenerCloses, ListenerGoto, TypeOK
<1>3. Guest[c] = "inside" /\ Guest'[c] \in {"inside", "gone"}
  BY <1>1, <1>2 DEF Guest
<1> QED  BY <1>1, <1>2, <1>3, HallMove

LEMMA CloserHall ==
    ASSUME RoomInv, Closer \/ CloseFlags
    PROVE  [AsHall!Next]_(AsHall!hallVars)
<1>1. lis' = lis /\ add' = add /\ Guest' = Guest
  BY DEF Closer, CloseFlags, CloseCancels, CloseLocks, CloseJoins, CloseClears, lisVars, Guest
<1>2. CASE CloseFlags
  BY <1>1, <1>2 DEF CloseFlags, CloserGoto, Phase, AsHall!Next, AsHall!BeginClose
<1>3. CASE CloseCancels \/ CloseLocks \/ CloseJoins
  BY <1>1, <1>3 DEF CloseCancels, CloseLocks, CloseJoins, CloserGoto, Phase, AsHall!hallVars
<1>4. CASE CloseClears
  <2>1. closer = "joined" /\ closer' = "done"
    BY <1>4 DEF CloseClears, CloserGoto
  <2>2. \A c \in Conns : Guest[c] # "inside"
    BY <2>1 DEF RoomInv, CloserInv, AllEnded, Ended, Guest
  <2> QED  BY <1>1, <2>1, <2>2 DEF Phase, AsHall!Next, AsHall!EndClose
<1> QED  BY <1>2, <1>3, <1>4 DEF Closer

LEMMA HallStep == RoomInv /\ [Next]_vars => [AsHall!Next]_(AsHall!hallVars)
<1> SUFFICES ASSUME RoomInv, [Next]_vars PROVE [AsHall!Next]_(AsHall!hallVars)
  OBVIOUS
<1>1. TypeOK'
  BY NextTypeOK DEF RoomInv
<1>2. ASSUME NEW c \in Conns, ConnCancels(c) PROVE [AsHall!Next]_(AsHall!hallVars)
  BY <1>2, HallQuiet DEF ConnCancels, roomVars, lisVars
<1>3. ASSUME NEW w \in Workers, Worker(w) PROVE [AsHall!Next]_(AsHall!hallVars)
  BY <1>3, HallQuiet DEF Worker, WorkerTakes, WorkerLooksUp, WorkerWrote, WorkerExits,
                         roomVars, lisVars
<1>4. CASE Heartbeat
  BY <1>4, HallQuiet DEF Heartbeat, HeartbeatExits, HeartbeatTicks, HeartbeatPicks,
                         HeartbeatWrote, HeartbeatCloses, HeartbeatRoundEnds, roomVars, lisVars
<1>5. CASE UNCHANGED vars
  BY <1>5, HallQuiet DEF vars, roomVars, lisVars
<1> QED  BY <1>1, <1>2, <1>3, <1>4, <1>5, AdderHall, ListenerHall, CloserHall
         DEF Next, Outside, Finished

\* Room implements Hall: to the node, a room lets each connection in once, only
\* while it is open, and is closed when all of them have gone (room.rs:122-175).
THEOREM Refinement == Spec => ImplementsHall
<1>1. Init => AsHall!Init
  BY DEF Init, AsHall!Init, Phase, Guest
<1> QED  BY <1>1, HallStep, Inductive, PTL DEF Spec, ImplementsHall, AsHall!Spec
=============================================================================
