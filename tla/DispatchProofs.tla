--------------------------- MODULE DispatchProofs ---------------------------
(***************************************************************************)
(* Proofs about Dispatch, for any number of connections, names, channels   *)
(* and workers, any frames and any hash: the inductive invariant           *)
(* DispatchInv, with it the order of the frames of a channel, and that each*)
(* channel is the lossy queue of Link.                                     *)
(***************************************************************************)
EXTENDS Dispatch, SequenceTheorems, FiniteSetTheorems, TLAPS

LEMMA LenEmpty == <<>> \in Seq(Tasks) /\ Len(<<>>) = 0
  BY EmptySeq

\* A task is a frame of a connection.
LEMMA TaskType ==
    ASSUME NEW t \in Tasks
    PROVE  /\ t.conn \in Conns /\ t.n \in 1 .. Len(Script[t.conn])
           /\ t = [conn |-> t.conn, n |-> t.n]
           /\ Frame(t) \in FrameType
<1>1. PICK c \in Conns : t \in [conn : {c}, n : 1 .. Len(Script[c])]
  BY DEF Tasks
<1>2. Script[c] \in Seq(FrameType)
  BY FramesAssumption DEF FramesAssumption
<1> QED  BY <1>1, <1>2, ElementOfSeq DEF Frame

LEMMA WorkerForType ==
    ASSUME NEW t \in Tasks
    PROVE  WorkerFor(t) \in Workers
<1>1. Frame(t).chan \in Channels
  BY TaskType DEF FrameType
<1>2. Hash[Frame(t).chan] \in Nat /\ WorkerNumber \in Nat \ {0}
  BY <1>1, DispatchAssumption DEF DispatchAssumption
<1> DEFINE h == Hash[Frame(t).chan]
<1>3. h % WorkerNumber \in 0 .. WorkerNumber - 1
  <2> HIDE DEF h
  <2> QED  BY <1>2 DEF h
<1> QED  BY <1>3 DEF WorkerFor, Workers

LEMMA HeldType ==
    ASSUME TypeOK, NEW c \in Conns, lis[c] = "sending"
    PROVE  Held(c) \in Tasks
<1>1. read[c] \in 1 .. Len(Script[c])
  <2>1. Len(Script[c]) \in Nat
    BY FramesAssumption DEF FramesAssumption
  <2> QED  BY <2>1 DEF TypeOK
<1> QED  BY <1>1 DEF Held, Tasks

LEMMA InHandType ==
    ASSUME TypeOK, NEW w \in Workers, wk[w] # "waiting"
    PROVE  /\ InHand(w) \in Tasks /\ hand[w] # <<>>
           /\ Frame(InHand(w)) \in FrameType
<1>1. hand[w] \in Seq(Tasks) /\ Len(hand[w]) = 1
  BY DEF TypeOK
<1>2. hand[w] # <<>>
  <2> SUFFICES ASSUME hand[w] = <<>> PROVE FALSE
    OBVIOUS
  <2>1. Len(hand[w]) = 0
    BY LenEmpty, Zenon
  <2> QED  BY <1>1, <2>1
<1>3. InHand(w) \in Tasks
  BY <1>1, <1>2, HeadTailProperties DEF InHand
<1> QED  BY <1>2, <1>3, TaskType

LEMMA HandType ==
    ASSUME TypeOK, NEW w \in Workers, hand[w] # <<>>
    PROVE  InHand(w) \in Tasks
  BY HeadTailProperties DEF InHand, TypeOK

LEMMA ChanType ==
    ASSUME TypeOK, NEW w \in Workers, NEW i \in DOMAIN chan[w]
    PROVE  chan[w][i] \in Tasks
<1>1. chan[w] \in Seq(Tasks)
  BY DEF TypeOK
<1> QED  BY <1>1

LEMMA LogType ==
    ASSUME TypeOK, NEW ch \in Channels, NEW i \in DOMAIN log[ch]
    PROVE  log[ch][i].task \in Tasks
<1>1. log[ch] \in Seq(Entries)
  BY DEF TypeOK
<1>2. log[ch][i] \in Entries
  BY <1>1
<1> QED  BY <1>2 DEF Entries

LEMMA PassedType ==
    ASSUME TypeOK, NEW c \in Conns
    PROVE  Passed(c) \in Nat
  BY DEF TypeOK, Passed

-----------------------------------------------------------------------------
(* Types *)

LEMMA InitTypeOK == Init => TypeOK
<1> SUFFICES ASSUME Init PROVE TypeOK
  OBVIOUS
<1>1. \A c \in Conns : Len(Script[c]) \in Nat
  BY FramesAssumption DEF FramesAssumption
<1>2. Cap \in Nat
  BY DispatchAssumption DEF DispatchAssumption
<1> QED  BY <1>1, <1>2 DEF Init, TypeOK

LEMMA ConnTypeOK ==
    ASSUME TypeOK, NEW c \in Conns, Join(c) \/ Cancel(c) \/ Leave(c) \/ Read(c)
    PROVE  TypeOK'
<1> USE DEF TypeOK, wkVars
<1>1. NameOf[c] \in Names /\ Len(Script[c]) \in Nat
  BY FramesAssumption DEF FramesAssumption
<1>2. CASE Join(c)
  BY <1>1, <1>2 DEF Join
<1>3. CASE Cancel(c)
  BY <1>3 DEF Cancel
<1>4. CASE Leave(c)
  BY <1>1, <1>4 DEF Leave
<1>5. CASE Read(c)
  BY <1>1, <1>5 DEF Read
<1> QED  BY <1>2, <1>3, <1>4, <1>5

\* What Send does to the channel of the worker.
LEMMA SendEffect ==
    ASSUME TypeOK, NEW c \in Conns, Send(c), NEW w \in Workers
    PROVE  /\ w # WorkerFor(Held(c)) => chan'[w] = chan[w]
           /\ w = WorkerFor(Held(c)) =>
                 /\ chan'[w] = Append(chan[w], Held(c))
                 /\ Len(chan'[w]) = Len(chan[w]) + 1
                 /\ \A i \in 1 .. Len(chan[w]) : chan'[w][i] = chan[w][i]
                 /\ chan'[w][Len(chan[w]) + 1] = Held(c)
           /\ chan'[w] \in Seq(Tasks) /\ Len(chan'[w]) <= Cap
<1>1. Held(c) \in Tasks /\ WorkerFor(Held(c)) \in Workers
  BY HeldType, WorkerForType DEF Send, Sent
<1>2. chan \in [Workers -> Seq(Tasks)] /\ Cap \in Nat
  BY DispatchAssumption DEF TypeOK, DispatchAssumption
<1>3. chan' = [chan EXCEPT ![WorkerFor(Held(c))] = Append(@, Held(c))]
  BY DEF Send, Push
<1>4. CASE w # WorkerFor(Held(c))
  BY <1>1, <1>2, <1>3, <1>4 DEF TypeOK
<1>5. CASE w = WorkerFor(Held(c))
  <2>1. chan'[w] = Append(chan[w], Held(c)) /\ Len(chan[w]) < Cap
    BY <1>2, <1>3, <1>5 DEF Send
  <2>2. chan[w] \in Seq(Tasks) /\ Len(chan[w]) \in Nat
    BY <1>2
  <2>3. /\ Append(chan[w], Held(c)) \in Seq(Tasks)
        /\ Len(Append(chan[w], Held(c))) = Len(chan[w]) + 1
        /\ \A i \in 1 .. Len(chan[w]) : Append(chan[w], Held(c))[i] = chan[w][i]
        /\ Append(chan[w], Held(c))[Len(chan[w]) + 1] = Held(c)
    BY <1>1, <2>2, AppendProperties
  <2> QED  BY <1>2, <1>5, <2>1, <2>2, <2>3
<1> QED  BY <1>4, <1>5

LEMMA SendTypeOK ==
    ASSUME TypeOK, NEW c \in Conns, Send(c)
    PROVE  TypeOK'
<1>1. chan' \in [Workers -> Seq(Tasks)] /\ \A w \in Workers : Len(chan'[w]) <= Cap
  <2>1. chan' = [w \in Workers |-> chan'[w]]
    BY DEF TypeOK, Send, Push
  <2> QED  BY <2>1, SendEffect
<1> QED  BY <1>1 DEF TypeOK, Send, Sent, wkVars

\* What Take does to the channel and the hand of its worker.
LEMMA TakeEffect ==
    ASSUME TypeOK, NEW w \in Workers, Take(w)
    PROVE  /\ Head(chan[w]) \in Tasks
           /\ Head(chan[w]) = chan[w][1] /\ Head(hand'[w]) = Head(chan[w])
           /\ hand'[w] \in Seq(Tasks) /\ Len(hand'[w]) = 1
           /\ chan'[w] \in Seq(Tasks) /\ Len(chan'[w]) = Len(chan[w]) - 1
           /\ Len(chan[w]) \in Nat \ {0}
           /\ \A i \in 1 .. Len(chan'[w]) : chan'[w][i] = chan[w][i + 1]
           /\ \A v \in Workers \ {w} : chan'[v] = chan[v] /\ hand'[v] = hand[v]
<1>1. chan[w] \in Seq(Tasks) /\ chan[w] # <<>>
  BY DEF TypeOK, Take
<1>2. /\ chan' = [chan EXCEPT ![w] = Tail(@)]
      /\ hand' = [hand EXCEPT ![w] = <<Head(chan[w])>>]
  BY DEF Take
<1>3. chan'[w] = Tail(chan[w]) /\ hand'[w] = <<Head(chan[w])>>
  BY <1>2 DEF TypeOK
<1>4. Head(chan[w]) = chan[w][1] /\ Len(chan[w]) \in Nat \ {0}
  BY <1>1
<1>5. \A v \in Workers \ {w} : chan'[v] = chan[v] /\ hand'[v] = hand[v]
  BY <1>2 DEF TypeOK
<1>6. /\ Head(chan[w]) \in Tasks /\ Tail(chan[w]) \in Seq(Tasks)
      /\ Len(Tail(chan[w])) = Len(chan[w]) - 1
      /\ \A i \in 1 .. Len(Tail(chan[w])) : Tail(chan[w])[i] = chan[w][i + 1]
  BY <1>1, HeadTailProperties
<1>7. hand'[w] \in Seq(Tasks) /\ Len(hand'[w]) = 1 /\ Head(hand'[w]) = Head(chan[w])
  <2>1. ASSUME NEW x \in Tasks
        PROVE  <<x>> \in Seq(Tasks) /\ Len(<<x>>) = 1 /\ Head(<<x>>) = x
    OBVIOUS
  <2> QED  BY <1>3, <1>6, <2>1, Zenon
<1> QED  BY <1>3, <1>4, <1>5, <1>6, <1>7

LEMMA TakeTypeOK ==
    ASSUME TypeOK, NEW w \in Workers, Take(w)
    PROVE  TypeOK'
<1>1. /\ chan' \in [Workers -> Seq(Tasks)]
      /\ \A v \in Workers : Len(chan'[v]) <= Cap
  <2>1. chan' = [v \in Workers |-> chan'[v]]
    BY DEF TypeOK, Take
  <2>2. ASSUME NEW v \in Workers
        PROVE  chan'[v] \in Seq(Tasks) /\ Len(chan'[v]) <= Cap
    <3>1. Cap \in Nat /\ Len(chan[v]) <= Cap /\ chan[v] \in Seq(Tasks)
      BY DispatchAssumption DEF DispatchAssumption, TypeOK
    <3>2. CASE v = w
      BY <3>1, <3>2, TakeEffect
    <3>3. CASE v # w
      BY <3>1, <3>3, TakeEffect
    <3> QED  BY <3>2, <3>3
  <2> QED  BY <2>1, <2>2
<1>2. wk' = [wk EXCEPT ![w] = "lookup"] /\ wk[w] = "waiting"
  BY DEF Take, WorkerGoto
<1>3. hand' \in [Workers -> Seq(Tasks)]
  <2>1. hand' = [v \in Workers |-> hand'[v]]
    BY DEF TypeOK, Take
  <2>2. \A v \in Workers : hand'[v] \in Seq(Tasks)
    BY TakeEffect DEF TypeOK
  <2> QED  BY <2>1, <2>2
<1>4. \A v \in Workers : Len(hand'[v]) = IF wk'[v] = "waiting" THEN 0 ELSE 1
  <2>1. wk'[w] = "lookup" /\ \A v \in Workers \ {w} : wk'[v] = wk[v]
    BY <1>2 DEF TypeOK
  <2>2. Len(hand'[w]) = 1 /\ \A v \in Workers \ {w} : hand'[v] = hand[v]
    BY TakeEffect
  <2>3. ASSUME NEW v \in Workers
        PROVE  Len(hand'[v]) = IF wk'[v] = "waiting" THEN 0 ELSE 1
    <3>1. CASE v = w
      BY <2>1, <2>2, <3>1
    <3>2. CASE v # w
      <4>1. hand'[v] = hand[v] /\ wk'[v] = wk[v]
        BY <2>1, <2>2, <3>2
      <4> QED  BY <4>1 DEF TypeOK
    <3> QED  BY <3>1, <3>2
  <2> QED  BY <2>3
<1> QED  BY <1>1, <1>2, <1>3, <1>4 DEF TypeOK, Take, lisVars

\* A worker that puts its task down, and changes nothing else of the type.
LEMMA PutDownTypeOK ==
    ASSUME TypeOK, NEW w \in Workers, NEW from, WorkerGoto(w, from, "waiting"),
           PutDown(w), UNCHANGED <<lisVars, chan>>, log' \in [Channels -> Seq(Entries)]
    PROVE  TypeOK'
<1>1. wk' = [wk EXCEPT ![w] = "waiting"]
  BY DEF WorkerGoto
<1>2. hand' = [hand EXCEPT ![w] = <<>>] /\ target' = [target EXCEPT ![w] = NoConn]
  BY DEF PutDown
<1>3. hand' \in [Workers -> Seq(Tasks)] /\ hand'[w] = <<>>
  BY <1>2, LenEmpty DEF TypeOK
<1>4. \A v \in Workers : Len(hand'[v]) = IF wk'[v] = "waiting" THEN 0 ELSE 1
  <2>1. Len(hand'[w]) = 0
    BY <1>3, LenEmpty
  <2>2. \A v \in Workers \ {w} : hand'[v] = hand[v] /\ wk'[v] = wk[v]
    BY <1>1, <1>2 DEF TypeOK
  <2>3. wk'[w] = "waiting"
    BY <1>1 DEF TypeOK
  <2> QED  BY <2>1, <2>2, <2>3 DEF TypeOK
<1>5. /\ wk' \in [Workers -> {"waiting", "lookup", "writing", "lookupSource", "replying"}]
      /\ target' \in [Workers -> Conns \cup {NoConn}]
      /\ \A v \in Workers : wk'[v] \in {"writing", "replying"} => target'[v] \in Conns
  BY <1>1, <1>2 DEF TypeOK
<1> QED  BY <1>3, <1>4, <1>5 DEF TypeOK, lisVars

\* A worker that writes nothing but its own state.
LEMMA LookTypeOK ==
    ASSUME TypeOK, NEW w \in Workers,
           FindTarget(w) \/ NobodyThere(w) \/ FindSource(w) \/ SourceGone(w)
    PROVE  TypeOK'
<1>1. ASSUME NEW n \in Names, NEW from \in {"lookup", "lookupSource"},
             NEW next \in {"writing", "replying"}, Find(w, n, from, next)
      PROVE  TypeOK'
  <2>1. CASE token[conns[n]]
    BY <1>1, <2>1, PutDownTypeOK DEF Find, TypeOK, lisVars
  <2>2. CASE ~token[conns[n]]
    <3>1. /\ wk[w] = from /\ wk' = [wk EXCEPT ![w] = next]
          /\ target' = [target EXCEPT ![w] = conns[n]]
          /\ conns[n] \in Conns
      BY <1>1, <2>2 DEF Find, WorkerGoto, TypeOK
    <3>2. UNCHANGED <<lisVars, chan, log, hand>>
      BY <1>1, <2>2 DEF Find
    <3> QED  BY <3>1, <3>2 DEF TypeOK, lisVars
  <2> QED  BY <2>1, <2>2
<1>2. CASE FindTarget(w) \/ FindSource(w)
  <2>1. wk[w] # "waiting"
    BY <1>2 DEF FindTarget, FindSource, Find
  <2>2. Frame(InHand(w)).to \in Names /\ Frame(InHand(w)).from \in Names
    BY <2>1, InHandType DEF FrameType
  <2> QED  BY <1>1, <1>2, <2>2 DEF FindTarget, FindSource
<1>3. CASE NobodyThere(w)
  <2>1. CASE EndsRequest(InHand(w))
    BY <1>3, <2>1 DEF NobodyThere, WorkerGoto, TypeOK, lisVars
  <2>2. CASE ~EndsRequest(InHand(w))
    BY <1>3, <2>2, PutDownTypeOK DEF NobodyThere, TypeOK, lisVars
  <2> QED  BY <2>1, <2>2
<1>4. CASE SourceGone(w)
  BY <1>4, PutDownTypeOK DEF SourceGone, TypeOK, lisVars
<1> QED  BY <1>2, <1>3, <1>4

\* What a write adds to the log of the frame's channel, if anything.
LEMMA WriteEffect ==
    ASSUME TypeOK, NEW w \in Workers, WriteFrame(w) \/ WriteNotFound(w),
           NEW ch \in Channels
    PROVE  /\ log'[ch] \in Seq(Entries)
           /\ \/ log'[ch] = log[ch]
              \/ /\ ch = Frame(InHand(w)).chan
                 /\ Len(log'[ch]) = Len(log[ch]) + 1
                 /\ \A i \in 1 .. Len(log[ch]) : log'[ch][i] = log[ch][i]
                 /\ log'[ch][Len(log[ch]) + 1].task = InHand(w)
<1>1. PICK what \in {"frame", "404"} : Written(w, IF what = "frame" THEN "writing"
                                                  ELSE "replying", what)
  BY DEF WriteFrame, WriteNotFound
<1> DEFINE t == InHand(w)
           e == [task |-> t, to |-> target[w], what |-> what]
<1>2. wk[w] \in {"writing", "replying"}
  BY <1>1 DEF Written, WorkerGoto
<1>3. e \in Entries /\ e.task = t /\ Frame(t).chan \in Channels
  BY <1>2, InHandType DEF Entries, TypeOK, FrameType
<1>4. log[ch] \in Seq(Entries)
  BY DEF TypeOK
<1>5. CASE UNCHANGED log
  BY <1>4, <1>5
<1>6. CASE log' = [log EXCEPT ![Frame(t).chan] = Append(@, e)]
  <2>1. CASE ch # Frame(t).chan
    BY <1>4, <1>6, <2>1 DEF TypeOK
  <2>2. CASE ch = Frame(t).chan
    <3> HIDE DEF e, t
    <3>1. log'[ch] = Append(log[ch], e)
      BY <1>6, <2>2 DEF TypeOK
    <3>2. /\ Append(log[ch], e) \in Seq(Entries)
          /\ Len(Append(log[ch], e)) = Len(log[ch]) + 1
          /\ \A i \in 1 .. Len(log[ch]) : Append(log[ch], e)[i] = log[ch][i]
          /\ Append(log[ch], e)[Len(log[ch]) + 1] = e
      BY <1>3, <1>4, AppendProperties
    <3>3. InHand(w) = t
      BY DEF t
    <3> QED  BY <1>3, <2>2, <3>1, <3>2, <3>3
  <2> QED  BY <2>1, <2>2
<1> QED  BY <1>1, <1>5, <1>6 DEF Written

LEMMA WriteTypeOK ==
    ASSUME TypeOK, NEW w \in Workers, WriteFrame(w) \/ WriteNotFound(w)
    PROVE  TypeOK'
<1>1. log' \in [Channels -> Seq(Entries)]
  <2>1. log' = [ch \in Channels |-> log'[ch]]
    BY DEF TypeOK, WriteFrame, WriteNotFound, Written
  <2> QED  BY <2>1, WriteEffect
<1> QED  BY <1>1, PutDownTypeOK DEF WriteFrame, WriteNotFound, Written

LEMMA NextTypeOK ==
    ASSUME TypeOK, [Next]_vars
    PROVE  TypeOK'
<1>1. CASE UNCHANGED vars
  BY <1>1 DEF TypeOK, vars, lisVars, wkVars
<1>2. ASSUME NEW c \in Conns, Join(c) \/ Cancel(c) \/ Leave(c) \/ Read(c) \/ Send(c)
      PROVE  TypeOK'
  BY <1>2, ConnTypeOK, SendTypeOK
<1>3. ASSUME NEW w \in Workers, Worker(w)
      PROVE  TypeOK'
  BY <1>3, TakeTypeOK, LookTypeOK, WriteTypeOK DEF Worker
<1> QED  BY <1>1, <1>2, <1>3 DEF Next

-----------------------------------------------------------------------------
(* Order *)

OrderInv == ChanInv /\ HandInv /\ LogInv /\ ChannelOrder

\* Listeners and workers that touch neither channels nor log, and at most put
\* a task down, disturb no order.
LEMMA Bystander ==
    ASSUME TypeOK, TypeOK', OrderInv, UNCHANGED <<chan, log>>,
           \A w \in Workers : hand'[w] = hand[w] \/ hand'[w] = <<>>,
           \A c \in Conns : Passed(c)' = Passed(c)
    PROVE  OrderInv'
<1> USE DEF OrderInv
<1>1. ChanInv'
  <2>1. \A w \in Workers : \A i \in DOMAIN chan[w] : chan[w][i].conn \in Conns
    BY ChanType, TaskType
  <2> QED  BY <2>1 DEF ChanInv
<1>2. HandInv'
  <2> SUFFICES ASSUME NEW w \in Workers, hand'[w] # <<>>
               PROVE  /\ WorkerFor(InHand(w)') = w
                      /\ InHand(w)'.n <= Passed(InHand(w).conn)'
                      /\ \A j \in DOMAIN chan'[w] : Before(InHand(w)', chan'[w][j])
    BY DEF HandInv, WorkerFor, Before, Frame
  <2>1. hand[w] # <<>> /\ InHand(w)' = InHand(w)
    BY DEF InHand
  <2>2. InHand(w).conn \in Conns
    BY <2>1, HandType, TaskType
  <2> QED  BY <2>1, <2>2 DEF HandInv
<1>3. LogInv'
  <2> SUFFICES ASSUME NEW ch \in Channels, NEW i \in DOMAIN log'[ch]
               PROVE  LogInv!(ch)!(i)'
    BY DEF LogInv
  <2> DEFINE t == log[ch][i].task
  <2>1. t.conn \in Conns /\ WorkerFor(t) \in Workers
    BY LogType, TaskType, WorkerForType
  <2>2. hand'[WorkerFor(t)] # <<>> =>
           hand[WorkerFor(t)] # <<>> /\ InHand(WorkerFor(t))' = InHand(WorkerFor(t))
    BY <2>1 DEF InHand
  <2> QED  BY <2>1, <2>2 DEF LogInv
<1>4. ChannelOrder'
  BY DEF ChannelOrder
<1> QED  BY <1>1, <1>2, <1>3, <1>4

\* What a listener sends comes after all that has passed it.
LEMMA SendOrder ==
    ASSUME TypeOK, TypeOK', OrderInv, NEW c \in Conns, Send(c)
    PROVE  OrderInv'
<1> DEFINE h == Held(c)
           k == WorkerFor(h)
<1>1. h \in Tasks /\ k \in Workers
  BY HeldType, WorkerForType DEF Send, Sent
<1>2. /\ h.conn = c /\ Passed(c)' = h.n /\ h.n \in Nat
      /\ \A t \in Tasks : t.n <= Passed(t.conn) =>
            t.n <= Passed(t.conn)' /\ Before(t, h)
  <2>1. lis[c] = "sending" /\ lis' = [lis EXCEPT ![c] = "reading"] /\ read' = read
    BY DEF Send, Sent
  <2>2. h.conn = c /\ h.n = read[c] /\ read[c] \in Nat
    BY DEF Held, TypeOK
  <2>3. \A d \in Conns : /\ Passed(d)' = IF d = c THEN Passed(d) + 1 ELSE Passed(d)
                         /\ d = c => Passed(d) = read[d] - 1
                         /\ Passed(d) \in Nat
    BY <2>1, PassedType DEF Passed, TypeOK
  <2>4. ASSUME NEW t \in Tasks, t.n <= Passed(t.conn)
        PROVE  t.n <= Passed(t.conn)' /\ Before(t, h)
    <3>1. t.conn \in Conns /\ t.n \in Nat
      BY TaskType
    <3>2. Passed(t.conn)' = IF t.conn = c THEN Passed(t.conn) + 1 ELSE Passed(t.conn)
      BY <2>3, <3>1
    <3> HIDE DEF h
    <3> QED  BY <2>2, <2>3, <2>4, <3>1, <3>2 DEF Before
  <2> HIDE DEF h
  <2> QED  BY <2>1, <2>2, <2>4 DEF Passed, TypeOK
<1>3. /\ \A w \in Workers \ {k} : chan'[w] = chan[w]
      /\ Len(chan'[k]) = Len(chan[k]) + 1 /\ Len(chan[k]) \in Nat
      /\ \A i \in 1 .. Len(chan[k]) : chan'[k][i] = chan[k][i]
      /\ chan'[k][Len(chan[k]) + 1] = h
      /\ \A w \in Workers : /\ DOMAIN chan[w] = 1 .. Len(chan[w])
                            /\ DOMAIN chan'[w] = 1 .. Len(chan'[w])
  <2>1. \A w \in Workers : /\ chan[w] \in Seq(Tasks) /\ chan'[w] \in Seq(Tasks)
                           /\ Len(chan[w]) \in Nat
    BY SendEffect DEF TypeOK
  <2> QED  BY <1>1, <2>1, SendEffect
<1>4. UNCHANGED <<hand, log>>
  BY DEF Send, Sent, wkVars
<1> USE DEF OrderInv
<1> HIDE DEF h, k
\* what is in the channel after the step
<1>5. \A w \in Workers : \A i \in DOMAIN chan'[w] :
         \/ i \in DOMAIN chan[w] /\ chan'[w][i] = chan[w][i]
         \/ w = k /\ i = Len(chan[k]) + 1 /\ chan'[w][i] = h
  BY <1>3
<1>6. ChanInv'
  <2> SUFFICES ASSUME NEW w \in Workers, NEW i \in DOMAIN chan'[w]
               PROVE  (/\ WorkerFor(chan[w][i]) = w
                       /\ chan[w][i].n <= Passed(chan[w][i].conn)
                       /\ \A j \in DOMAIN chan[w] :
                             i < j => Before(chan[w][i], chan[w][j]))'
    BY DEF ChanInv
  <2>1. chan'[w][i] \in Tasks /\ WorkerFor(h) = k
    BY ChanType, <1>1, <1>5 DEF k
  <2>2. CASE i \in DOMAIN chan[w] /\ chan'[w][i] = chan[w][i]
    BY <1>1, <1>2, <1>3, <1>5, <2>1, <2>2 DEF ChanInv
  <2>3. CASE w = k /\ i = Len(chan[k]) + 1 /\ chan'[w][i] = h
    <3>1. \A j \in DOMAIN chan'[w] : ~(i < j)
      BY <1>3, <2>3
    <3>2. WorkerFor(chan'[w][i]) = w /\ chan'[w][i].n <= Passed(c)' /\ chan'[w][i].conn = c
      BY <1>2, <2>1, <2>3
    <3> QED  BY <3>1, <3>2
  <2> QED  BY <1>5, <2>2, <2>3
<1>7. HandInv'
  <2> SUFFICES ASSUME NEW w \in Workers, hand'[w] # <<>>
               PROVE  /\ WorkerFor(InHand(w)) = w
                      /\ InHand(w).n <= Passed(InHand(w).conn)'
                      /\ \A j \in DOMAIN chan'[w] : Before(InHand(w), chan'[w][j])
    BY <1>4 DEF HandInv, InHand
  <2>1. InHand(w) \in Tasks /\ hand[w] # <<>>
    BY <1>4, HandType
  <2>2. /\ WorkerFor(InHand(w)) = w
        /\ InHand(w).n <= Passed(InHand(w).conn)
        /\ \A j \in DOMAIN chan[w] : Before(InHand(w), chan[w][j])
    BY <2>1 DEF HandInv
  <2>3. InHand(w).n <= Passed(InHand(w).conn)' /\ Before(InHand(w), h)
    <3>1. \A t \in Tasks : t = InHand(w) =>
             t.n <= Passed(t.conn)' /\ Before(t, h)
      BY <1>2, <2>2
    <3> QED  BY <1>4, <2>1, <3>1 DEF InHand
  <2> QED  BY <1>5, <2>2, <2>3
<1>8. LogInv'
  <2> SUFFICES ASSUME NEW ch \in Channels, NEW i \in DOMAIN log'[ch]
               PROVE  LogInv!(ch)!(i)'
    BY DEF LogInv
  <2> DEFINE t == log[ch][i].task
  <2>1. t \in Tasks /\ WorkerFor(t) \in Workers
    BY <1>4, LogType, WorkerForType
  <2>2. \A j \in DOMAIN chan'[WorkerFor(t)] : Before(t, chan'[WorkerFor(t)][j])
    BY <1>2, <1>4, <1>5, <2>1 DEF LogInv
  <2> QED  BY <1>2, <1>4, <2>1, <2>2 DEF LogInv, InHand
<1>9. ChannelOrder'
  BY <1>4 DEF ChannelOrder
<1> QED  BY <1>6, <1>7, <1>8, <1>9

\* A worker takes the first of its channel.
LEMMA TakeOrder ==
    ASSUME TypeOK, TypeOK', OrderInv, NEW w \in Workers, Take(w)
    PROVE  OrderInv'
<1> USE DEF OrderInv
<1>1. /\ InHand(w)' = chan[w][1] /\ 1 \in DOMAIN chan[w]
      /\ \A i \in DOMAIN chan'[w] : /\ i \in 1 .. Len(chan'[w]) /\ i + 1 \in DOMAIN chan[w]
                                    /\ chan'[w][i] = chan[w][i + 1] /\ i \in Int
      /\ \A v \in Workers \ {w} : chan'[v] = chan[v] /\ hand'[v] = hand[v]
  <2>1. chan[w] \in Seq(Tasks) /\ chan'[w] \in Seq(Tasks)
    BY DEF TypeOK
  <2> QED  BY <2>1, TakeEffect DEF InHand
<1>2. UNCHANGED log /\ \A c \in Conns : Passed(c)' = Passed(c)
  BY DEF Take, lisVars, Passed
<1>3. ChanInv'
  <2> SUFFICES ASSUME NEW v \in Workers, NEW i \in DOMAIN chan'[v]
               PROVE  (/\ WorkerFor(chan[v][i]) = v
                       /\ chan[v][i].n <= Passed(chan[v][i].conn)
                       /\ \A j \in DOMAIN chan[v] :
                             i < j => Before(chan[v][i], chan[v][j]))'
    BY DEF ChanInv
  <2>1. chan'[v][i] \in Tasks /\ chan'[v][i].conn \in Conns
    <3>1. chan'[v] \in Seq(Tasks)
      BY DEF TypeOK
    <3> QED  BY <3>1, TaskType
  <2>2. CASE v = w
    BY <1>1, <1>2, <2>1, <2>2 DEF ChanInv
  <2>3. CASE v # w
    BY <1>1, <1>2, <2>1, <2>3 DEF ChanInv
  <2> QED  BY <2>2, <2>3
<1>4. HandInv'
  <2> SUFFICES ASSUME NEW v \in Workers, hand'[v] # <<>>
               PROVE  (/\ WorkerFor(InHand(v)) = v
                       /\ InHand(v).n <= Passed(InHand(v).conn)
                       /\ \A j \in DOMAIN chan[v] : Before(InHand(v), chan[v][j]))'
    BY DEF HandInv
  <2>1. CASE v = w
    <3>1. chan[w][1] \in Tasks /\ chan[w][1].conn \in Conns
      BY <1>1, ChanType, TaskType
    <3> QED  BY <1>1, <1>2, <2>1, <3>1 DEF ChanInv
  <2>2. CASE v # w
    <3>1. hand[v] # <<>> /\ InHand(v)' = InHand(v) /\ chan'[v] = chan[v]
      BY <1>1, <2>2 DEF InHand
    <3>2. InHand(v).conn \in Conns
      BY <3>1, HandType, TaskType
    <3> QED  BY <1>2, <3>1, <3>2 DEF HandInv
  <2> QED  BY <2>1, <2>2
<1>5. LogInv'
  <2> SUFFICES ASSUME NEW ch \in Channels, NEW i \in DOMAIN log'[ch]
               PROVE  LogInv!(ch)!(i)'
    BY DEF LogInv
  <2> DEFINE t == log[ch][i].task
  <2>1. t \in Tasks /\ t.conn \in Conns /\ WorkerFor(t) \in Workers
    BY <1>2, LogType, TaskType, WorkerForType
  <2>2. CASE WorkerFor(t) = w
    <3>1. /\ Frame(t).chan = ch /\ t.n <= Passed(t.conn)
          /\ \A j \in DOMAIN chan[w] : Before(t, chan[w][j])
      BY <1>2, <2>2 DEF LogInv
    <3>2. /\ \A j \in DOMAIN chan'[w] : Before(t, chan'[w][j])
          /\ Before(t, InHand(w)')
      BY <1>1, <3>1
    <3> QED  BY <1>2, <2>1, <2>2, <3>1, <3>2
  <2>3. CASE WorkerFor(t) # w
    BY <1>1, <1>2, <2>1, <2>3 DEF LogInv, InHand
  <2> QED  BY <2>2, <2>3
<1>6. ChannelOrder'
  BY <1>2 DEF ChannelOrder
<1> QED  BY <1>3, <1>4, <1>5, <1>6

\* What is written comes after all that was written in its channel, and before
\* all that waits for its worker.
LEMMA WriteOrder ==
    ASSUME TypeOK, TypeOK', OrderInv, NEW w \in Workers,
           WriteFrame(w) \/ WriteNotFound(w)
    PROVE  OrderInv'
<1> DEFINE t == InHand(w)
<1>1. t \in Tasks /\ t.conn \in Conns /\ hand[w] # <<>>
  BY InHandType, TaskType DEF WriteFrame, WriteNotFound, Written, WorkerGoto
<1>2. /\ WorkerFor(t) = w /\ t.n <= Passed(t.conn)
      /\ \A j \in DOMAIN chan[w] : Before(t, chan[w][j])
  BY <1>1 DEF OrderInv, HandInv
<1>3. /\ UNCHANGED chan /\ \A c \in Conns : Passed(c)' = Passed(c)
      /\ hand'[w] = <<>> /\ \A v \in Workers \ {w} : hand'[v] = hand[v]
  BY DEF WriteFrame, WriteNotFound, Written, PutDown, lisVars, Passed, TypeOK
<1>4. \A ch \in Channels :
         /\ DOMAIN log[ch] = 1 .. Len(log[ch]) /\ Len(log[ch]) \in Nat
         /\ DOMAIN log'[ch] = 1 .. Len(log'[ch])
         /\ \/ log'[ch] = log[ch]
            \/ /\ ch = Frame(t).chan /\ Len(log'[ch]) = Len(log[ch]) + 1
               /\ \A i \in 1 .. Len(log[ch]) : log'[ch][i] = log[ch][i]
               /\ log'[ch][Len(log[ch]) + 1].task = t
  <2>1. \A ch \in Channels : log[ch] \in Seq(Entries) /\ log'[ch] \in Seq(Entries)
    BY DEF TypeOK
  <2> QED  BY <2>1, WriteEffect
<1> HIDE DEF t
<1>5. \A ch \in Channels : \A i \in DOMAIN log'[ch] :
         \/ i \in DOMAIN log[ch] /\ log'[ch][i] = log[ch][i]
         \/ /\ ch = Frame(t).chan /\ i = Len(log[ch]) + 1 /\ Len(log'[ch]) = i
            /\ log'[ch][i].task = t
  BY <1>4
<1>6. ChanInv'
  BY <1>3, ChanType, TaskType DEF OrderInv, ChanInv
<1>7. HandInv'
  <2> SUFFICES ASSUME NEW v \in Workers, hand'[v] # <<>>
               PROVE  (/\ WorkerFor(InHand(v)) = v
                       /\ InHand(v).n <= Passed(InHand(v).conn)
                       /\ \A j \in DOMAIN chan[v] : Before(InHand(v), chan[v][j]))'
    BY DEF HandInv
  <2>1. hand[v] # <<>> /\ InHand(v)' = InHand(v)
    BY <1>3 DEF InHand
  <2>2. InHand(v).conn \in Conns
    BY <2>1, HandType, TaskType
  <2> QED  BY <1>3, <2>1, <2>2 DEF OrderInv, HandInv
<1>8. LogInv'
  <2> SUFFICES ASSUME NEW ch \in Channels, NEW i \in DOMAIN log'[ch]
               PROVE  LogInv!(ch)!(i)'
    BY DEF LogInv
  <2> DEFINE u == log'[ch][i].task
  <2>1. /\ u \in Tasks /\ Frame(u).chan = ch /\ u.n <= Passed(u.conn)
        /\ \A j \in DOMAIN chan[WorkerFor(u)] : Before(u, chan[WorkerFor(u)][j])
        /\ WorkerFor(u) # w /\ hand[WorkerFor(u)] # <<>> =>
              Before(u, InHand(WorkerFor(u)))
    <3>1. CASE i \in DOMAIN log[ch] /\ log'[ch][i] = log[ch][i]
      BY <3>1, LogType DEF OrderInv, LogInv
    <3>2. CASE ch = Frame(t).chan /\ u = t
      BY <1>1, <1>2, <3>2
    <3> QED  BY <1>5, <3>1, <3>2
  <2>2. u.conn \in Conns /\ WorkerFor(u) \in Workers
    BY <2>1, TaskType, WorkerForType
  <2> QED  BY <1>3, <2>1, <2>2 DEF InHand
<1>9. ChannelOrder'
  <2> SUFFICES ASSUME NEW ch \in Channels, NEW i \in DOMAIN log'[ch],
                      NEW j \in DOMAIN log'[ch], i < j
               PROVE  Before(log'[ch][i].task, log'[ch][j].task)
    BY DEF ChannelOrder, Before
  <2>1. i \in DOMAIN log[ch] /\ log'[ch][i] = log[ch][i]
    BY <1>4, <1>5
  <2>2. CASE j \in DOMAIN log[ch] /\ log'[ch][j] = log[ch][j]
    BY <2>1, <2>2 DEF OrderInv, ChannelOrder
  <2>3. CASE ch = Frame(t).chan /\ log'[ch][j].task = t
    <3> DEFINE s == log[ch][i].task
    <3>1. Frame(s).chan = Frame(t).chan /\ WorkerFor(s) = w
      BY <1>2, <2>1, <2>3 DEF OrderInv, LogInv, WorkerFor
    <3>2. Before(s, t)
      BY <1>1, <2>1, <3>1 DEF OrderInv, LogInv, t
    <3> QED  BY <2>1, <2>3, <3>2
  <2> QED  BY <1>5, <2>2, <2>3
<1> QED  BY <1>6, <1>7, <1>8, <1>9 DEF OrderInv

LEMMA ConnOrder ==
    ASSUME TypeOK, TypeOK', OrderInv, NEW c \in Conns,
           Join(c) \/ Cancel(c) \/ Leave(c) \/ Read(c)
    PROVE  OrderInv'
<1>1. UNCHANGED <<chan, log, hand>>
  BY DEF Join, Cancel, Leave, Read, wkVars
<1>2. \A d \in Conns : Passed(d)' = Passed(d)
  BY DEF Join, Cancel, Leave, Read, Passed, TypeOK
<1> QED  BY <1>1, <1>2, Bystander

LEMMA LookOrder ==
    ASSUME TypeOK, TypeOK', OrderInv, NEW w \in Workers,
           FindTarget(w) \/ NobodyThere(w) \/ FindSource(w) \/ SourceGone(w)
    PROVE  OrderInv'
<1> USE DEF FindTarget, NobodyThere, FindSource, SourceGone, Find
<1>1. UNCHANGED <<chan, log>> /\ \A d \in Conns : Passed(d)' = Passed(d)
  BY DEF lisVars, Passed
<1>2. \A v \in Workers : hand'[v] = hand[v] \/ hand'[v] = <<>>
  BY DEF PutDown, TypeOK
<1> QED  BY <1>1, <1>2, Bystander

LEMMA NextOrder ==
    ASSUME TypeOK, OrderInv, [Next]_vars
    PROVE  OrderInv'
<1>1. TypeOK'
  BY NextTypeOK
<1>2. CASE UNCHANGED vars
  <2>1. UNCHANGED <<chan, log, hand>> /\ \A d \in Conns : Passed(d)' = Passed(d)
    BY <1>2 DEF vars, lisVars, wkVars, Passed
  <2> QED  BY <1>1, <2>1, Bystander
<1>3. ASSUME NEW c \in Conns, Join(c) \/ Cancel(c) \/ Leave(c) \/ Read(c) \/ Send(c)
      PROVE  OrderInv'
  BY <1>1, <1>3, ConnOrder, SendOrder
<1>4. ASSUME NEW w \in Workers, Worker(w)
      PROVE  OrderInv'
  BY <1>1, <1>4, TakeOrder, LookOrder, WriteOrder DEF Worker
<1> QED  BY <1>2, <1>3, <1>4 DEF Next

-----------------------------------------------------------------------------
(* Targets *)

LEMMA NextTarget ==
    ASSUME TypeOK, TargetInv, [Next]_vars
    PROVE  TargetInv'
<1> USE DEF TargetInv
<1>1. CASE UNCHANGED vars
  BY <1>1 DEF vars, lisVars, wkVars, InHand
<1>2. ASSUME NEW c \in Conns, Join(c) \/ Cancel(c) \/ Leave(c) \/ Read(c) \/ Send(c)
      PROVE  TargetInv'
  <2>1. UNCHANGED wkVars
    BY <1>2 DEF Join, Cancel, Leave, Read, Send, Sent
  <2>2. \A n \in Names : conns'[n] # NoConn => NameOf[conns'[n]] = n
    <3>1. CASE Join(c) \/ Leave(c)
      <4>1. \A n \in Names : \/ conns'[n] \in {conns[n], NoConn}
                             \/ n = NameOf[c] /\ conns'[n] = c
        BY <3>1 DEF TypeOK, Join, Leave
      <4> QED  BY <4>1
    <3>2. CASE Cancel(c) \/ Read(c) \/ Send(c)
      BY <3>2 DEF Cancel, Read, Send, Sent
    <3> QED  BY <1>2, <3>1, <3>2
  <2> QED  BY <2>1, <2>2 DEF wkVars, InHand
<1>3. ASSUME NEW w \in Workers, Worker(w)
      PROVE  TargetInv'
  <2>1. UNCHANGED conns
    BY <1>3 DEF Worker, Take, FindTarget, NobodyThere, FindSource, SourceGone, Find,
                WriteFrame, WriteNotFound, Written, lisVars
  <2>2. \A v \in Workers \ {w} : wk'[v] = wk[v] /\ hand'[v] = hand[v] /\ target'[v] = target[v]
    BY <1>3 DEF Worker, Take, FindTarget, NobodyThere, FindSource, SourceGone, Find,
                WriteFrame, WriteNotFound, Written, WorkerGoto, PutDown, TypeOK
  <2>3. CASE wk'[w] \in {"waiting", "lookup"}
    BY <2>1, <2>2, <2>3 DEF InHand
  <2>4. CASE FindTarget(w) /\ wk'[w] = "writing"
    <3>1. /\ wk[w] = "lookup" /\ UNCHANGED hand
          /\ target'[w] = conns[Frame(InHand(w)).to] /\ target'[w] # NoConn
      BY <2>4 DEF FindTarget, Find, WorkerGoto, TypeOK
    <3>2. Frame(InHand(w)).to \in Names
      BY <3>1, InHandType DEF FrameType
    <3> QED  BY <2>1, <2>2, <2>4, <3>1, <3>2 DEF InHand
  <2>5. CASE FindSource(w) /\ wk'[w] = "replying"
    <3>1. /\ wk[w] = "lookupSource" /\ UNCHANGED hand
          /\ target'[w] = conns[Frame(InHand(w)).from] /\ target'[w] # NoConn
      BY <2>5 DEF FindSource, Find, WorkerGoto, TypeOK
    <3>2. Frame(InHand(w)).from \in Names
      BY <3>1, InHandType DEF FrameType
    <3> QED  BY <2>1, <2>2, <2>5, <3>1, <3>2 DEF InHand
  <2>6. CASE NobodyThere(w) /\ wk'[w] = "lookupSource"
    <3>1. EndsRequest(InHand(w)) /\ UNCHANGED hand
      BY <2>6 DEF NobodyThere, WorkerGoto, TypeOK
    <3> QED  BY <2>1, <2>2, <2>6, <3>1 DEF InHand
  <2>7. \/ wk'[w] \in {"waiting", "lookup"}
        \/ FindTarget(w) /\ wk'[w] = "writing"
        \/ FindSource(w) /\ wk'[w] = "replying"
        \/ NobodyThere(w) /\ wk'[w] = "lookupSource"
    BY <1>3 DEF Worker, Take, FindTarget, NobodyThere, FindSource, SourceGone, Find,
                WriteFrame, WriteNotFound, Written, WorkerGoto, TypeOK
  <2> QED  BY <2>3, <2>4, <2>5, <2>6, <2>7
<1> QED  BY <1>1, <1>2, <1>3 DEF Next

-----------------------------------------------------------------------------
(* Counting positions: the k-th of a finite set of them *)

UpTo(P, i) == {j \in P : j <= i}
FinitePositions(P) == P \subseteq Nat /\ IsFiniteSet(P)

LEMMA RankType ==
    ASSUME NEW P, FinitePositions(P), NEW i \in P
    PROVE  /\ Cardinality(UpTo(P, i)) \in 1 .. Cardinality(P)
           /\ IsFiniteSet(UpTo(P, i))
<1>1. i \in UpTo(P, i) /\ UpTo(P, i) \in SUBSET P
  BY DEF UpTo, FinitePositions
<1>2. /\ IsFiniteSet(UpTo(P, i)) /\ Cardinality(UpTo(P, i)) <= Cardinality(P)
      /\ Cardinality(UpTo(P, i)) \in Nat /\ Cardinality(P) \in Nat
  BY <1>1, FS_Subset, FS_CardinalityType DEF FinitePositions
<1>3. Cardinality(UpTo(P, i)) # 0
  BY <1>1, <1>2, FS_EmptySet
<1> QED  BY <1>2, <1>3

LEMMA RankGrows ==
    ASSUME NEW P, FinitePositions(P), NEW i \in P, NEW j \in P, i < j
    PROVE  Cardinality(UpTo(P, i)) < Cardinality(UpTo(P, j))
<1>1. UpTo(P, i) \in SUBSET UpTo(P, j) /\ j \in UpTo(P, j) /\ j \notin UpTo(P, i)
  <2>1. \A l \in P : l \in Nat
    BY DEF FinitePositions
  <2>2. \A l \in P : l <= i => l <= j
    BY <2>1
  <2>3. j <= j /\ ~(j <= i)
    BY <2>1
  <2> QED  BY <2>2, <2>3 DEF UpTo
<1>2. /\ IsFiniteSet(UpTo(P, j)) /\ IsFiniteSet(UpTo(P, i))
      /\ Cardinality(UpTo(P, i)) \in Nat /\ Cardinality(UpTo(P, j)) \in Nat
  BY RankType
<1>3. /\ Cardinality(UpTo(P, i)) <= Cardinality(UpTo(P, j))
      /\ Cardinality(UpTo(P, j)) = Cardinality(UpTo(P, i)) => UpTo(P, j) = UpTo(P, i)
  BY <1>1, <1>2, FS_Subset
<1> QED  BY <1>1, <1>2, <1>3

LEMMA NthIs ==
    ASSUME NEW P, FinitePositions(P), NEW i \in P
    PROVE  Nth(P, Cardinality(UpTo(P, i))) = i
<1> DEFINE k == Cardinality(UpTo(P, i))
<1>1. \A j \in P : Cardinality(UpTo(P, j)) = k => j = i
  <2> SUFFICES ASSUME NEW j \in P, Cardinality(UpTo(P, j)) = k, j # i
               PROVE  FALSE
    OBVIOUS
  <2>1. i \in Nat /\ j \in Nat
    BY DEF FinitePositions
  <2>2. i < j \/ j < i
    BY <2>1
  <2>3. Cardinality(UpTo(P, i)) \in Nat /\ Cardinality(UpTo(P, j)) \in Nat
    BY RankType
  <2> QED  BY <2>2, <2>3, RankGrows
<1>2. \E j \in P : Cardinality({l \in P : l <= j}) = k
  BY DEF UpTo
<1>3. Nth(P, k) \in P /\ Cardinality({l \in P : l <= Nth(P, k)}) = k
  <2> HIDE DEF k
  <2> QED  BY <1>2 DEF Nth
<1>4. Cardinality(UpTo(P, Nth(P, k))) = k
  BY <1>3 DEF UpTo
<1> QED  BY <1>1, <1>3, <1>4

LEMMA NthType ==
    ASSUME NEW P, FinitePositions(P), NEW k \in 1 .. Cardinality(P)
    PROVE  Nth(P, k) \in P /\ Cardinality(UpTo(P, Nth(P, k))) = k
<1> DEFINE T == 1 .. Cardinality(P)
           f == [i \in P |-> Cardinality(UpTo(P, i))]
<1>1. Cardinality(P) \in Nat /\ IsFiniteSet(T) /\ Cardinality(T) = Cardinality(P)
  BY FS_CardinalityType, FS_Interval DEF FinitePositions
<1>2. f \in [P -> T]
  BY RankType
<1>3. \A i, j \in P : f[i] = f[j] => i = j
  BY NthIs
<1>4. f \in Injection(P, T)
  BY <1>2, <1>3 DEF Injection, IsInjective
<1>5. f \in Surjection(P, T)
  <2> HIDE DEF f, T
  <2> QED  BY <1>1, <1>4, FS_Injection
<1>6. PICK i \in P : f[i] = k
  BY <1>5 DEF Surjection
<1> QED  BY <1>6, NthIs

\* Adding a position after all the others.
LEMMA NthAdd ==
    ASSUME NEW P, FinitePositions(P), NEW m \in Nat, \A i \in P : i < m
    PROVE  LET Q == P \cup {m}
           IN  /\ FinitePositions(Q) /\ Cardinality(Q) = Cardinality(P) + 1
               /\ \A k \in 1 .. Cardinality(P) : Nth(Q, k) = Nth(P, k)
               /\ Nth(Q, Cardinality(P) + 1) = m
<1> DEFINE Q == P \cup {m}
<1>0. \A i \in P : i \in Nat
  BY DEF FinitePositions
<1>1. m \notin P
  BY <1>0
<1>2. FinitePositions(Q) /\ Cardinality(Q) = Cardinality(P) + 1
  BY <1>1, FS_AddElement DEF FinitePositions
<1>3. \A i \in P : UpTo(Q, i) = UpTo(P, i)
  BY <1>0 DEF UpTo
<1>4. UpTo(Q, m) = Q
  <2>1. m <= m /\ \A i \in P : i <= m
    BY <1>0
  <2> QED  BY <2>1 DEF UpTo
<1>5. \A k \in 1 .. Cardinality(P) : Nth(Q, k) = Nth(P, k)
  <2> SUFFICES ASSUME NEW k \in 1 .. Cardinality(P) PROVE Nth(Q, k) = Nth(P, k)
    OBVIOUS
  <2>1. Nth(P, k) \in P /\ Cardinality(UpTo(P, Nth(P, k))) = k
    BY NthType
  <2>2. Nth(P, k) \in Q /\ Cardinality(UpTo(Q, Nth(P, k))) = k
    BY <1>3, <2>1
  <2> QED  BY <1>2, <2>2, NthIs
<1>6. Nth(Q, Cardinality(P) + 1) = m
  <2>1. m \in Q /\ Cardinality(UpTo(Q, m)) = Cardinality(P) + 1
    BY <1>2, <1>4
  <2> QED  BY <1>2, <2>1, NthIs
<1> QED  BY <1>2, <1>5, <1>6

Shift(P) == {i + 1 : i \in P}

LEMMA ShiftCardinality ==
    ASSUME NEW P, FinitePositions(P)
    PROVE  FinitePositions(Shift(P)) /\ Cardinality(Shift(P)) = Cardinality(P)
<1> DEFINE f == [i \in P |-> i + 1]
<1>1. \A i \in P : i \in Nat
  BY DEF FinitePositions
<1>2. f \in [P -> Shift(P)] /\ \A i, j \in P : f[i] = f[j] => i = j
  BY <1>1 DEF Shift
<1>3. \A t \in Shift(P) : \E i \in P : f[i] = t
  BY DEF Shift
<1>4. f \in Bijection(P, Shift(P))
  <2> HIDE DEF f
  <2> QED  BY <1>2, <1>3 DEF Bijection, Injection, IsInjective, Surjection
<1>5. ExistsBijection(P, Shift(P))
  BY <1>4 DEF ExistsBijection
<1>6. IsFiniteSet(Shift(P)) /\ Cardinality(Shift(P)) = Cardinality(P)
  BY <1>5, FS_Bijection DEF FinitePositions
<1>7. Shift(P) \subseteq Nat
  BY <1>1 DEF Shift
<1> QED  BY <1>6, <1>7 DEF FinitePositions

\* Positions one further on, with or without a first one before them.
LEMMA NthShift ==
    ASSUME NEW P, FinitePositions(P), NEW k \in 1 .. Cardinality(P)
    PROVE  Nth(Shift(P), k) = Nth(P, k) + 1
<1> DEFINE i == Nth(P, k)
<1>1. i \in P /\ Cardinality(UpTo(P, i)) = k /\ \A j \in P : j \in Nat
  <2>1. \A j \in P : j \in Nat
    BY DEF FinitePositions
  <2> QED  BY <2>1, NthType
<1> HIDE DEF i
<1>2. UpTo(Shift(P), i + 1) = Shift(UpTo(P, i))
  BY <1>1 DEF UpTo, Shift
<1>3. FinitePositions(UpTo(P, i))
  <2>1. UpTo(P, i) \subseteq Nat
    BY <1>1 DEF UpTo
  <2> QED  BY <1>1, <2>1, RankType DEF FinitePositions
<1>4. Cardinality(UpTo(Shift(P), i + 1)) = k
  BY <1>1, <1>2, <1>3, ShiftCardinality
<1>5. i + 1 \in Shift(P) /\ FinitePositions(Shift(P))
  BY <1>1, ShiftCardinality DEF Shift
<1>6. Nth(Shift(P), k) = i + 1
  BY <1>4, <1>5, NthIs
<1> QED  BY <1>6 DEF i

LEMMA NthBehindFirst ==
    ASSUME NEW P, FinitePositions(P), 0 \notin P
    PROVE  LET Q == {1} \cup Shift(P)
           IN  /\ FinitePositions(Q) /\ Cardinality(Q) = Cardinality(P) + 1
               /\ Nth(Q, 1) = 1
               /\ \A k \in 1 .. Cardinality(P) : Nth(Q, k + 1) = Nth(P, k) + 1
<1> DEFINE Q == {1} \cup Shift(P)
<1>1. \A j \in P : j \in Nat /\ j > 0
  BY DEF FinitePositions
<1>2. \A R \in SUBSET P : 1 \notin Shift(R) /\ \A j \in Shift(R) : j \in Nat /\ j > 1
  BY <1>1 DEF Shift
<1>3. ASSUME NEW R \in SUBSET P, FinitePositions(R)
      PROVE  FinitePositions({1} \cup Shift(R)) /\ Cardinality({1} \cup Shift(R)) = Cardinality(R) + 1
  <2>1. FinitePositions(Shift(R)) /\ Cardinality(Shift(R)) = Cardinality(R) /\ 1 \notin Shift(R)
    BY <1>2, <1>3, ShiftCardinality
  <2>2. {1} \cup Shift(R) = Shift(R) \cup {1}
    OBVIOUS
  <2>3. IsFiniteSet(Shift(R) \cup {1}) /\ Cardinality(Shift(R) \cup {1}) = Cardinality(R) + 1
    BY <2>1, FS_AddElement DEF FinitePositions
  <2>4. {1} \cup Shift(R) \subseteq Nat
    BY <1>2
  <2> QED  BY <2>2, <2>3, <2>4 DEF FinitePositions
<1>4. FinitePositions(Q) /\ Cardinality(Q) = Cardinality(P) + 1
  BY <1>3
<1>5. Nth(Q, 1) = 1
  <2>1. UpTo(Q, 1) = {1}
    <3>1. \A j \in Shift(P) : ~(j <= 1)
      BY <1>2
    <3> QED  BY <3>1 DEF UpTo
  <2>2. Cardinality(UpTo(Q, 1)) = 1 /\ 1 \in Q
    BY <2>1, FS_Singleton
  <2> HIDE DEF Q
  <2> QED  BY <1>4, <2>2, NthIs
<1>6. ASSUME NEW k \in 1 .. Cardinality(P)
      PROVE  Nth(Q, k + 1) = Nth(P, k) + 1
  <2> DEFINE i == Nth(P, k)
  <2>1. i \in P /\ Cardinality(UpTo(P, i)) = k
    BY NthType
  <2> HIDE DEF i
  <2>2. UpTo(Q, i + 1) = {1} \cup Shift(UpTo(P, i))
    BY <1>1, <2>1 DEF UpTo, Shift
  <2>3. FinitePositions(UpTo(P, i)) /\ UpTo(P, i) \in SUBSET P
    <3>1. UpTo(P, i) \subseteq Nat /\ UpTo(P, i) \subseteq P
      BY <1>1 DEF UpTo
    <3>2. IsFiniteSet(UpTo(P, i))
      BY <2>1, RankType
    <3> QED  BY <3>1, <3>2 DEF FinitePositions
  <2>4. Cardinality(UpTo(Q, i + 1)) = k + 1
    BY <1>3, <2>1, <2>2, <2>3
  <2>5. i + 1 \in Q
    BY <2>1 DEF Shift
  <2>6. Nth(Q, k + 1) = i + 1
    <3> HIDE DEF Q
    <3> QED  BY <1>4, <2>4, <2>5, NthIs
  <2> QED  BY <2>6 DEF i
<1> QED  BY <1>4, <1>5, <1>6

-----------------------------------------------------------------------------
(* The tasks of a channel in a sequence of tasks *)

Where(s, ch) == {i \in DOMAIN s : Frame(s[i]).chan = ch}

LEMMA InChannelType ==
    ASSUME NEW s \in Seq(Tasks), NEW ch
    PROVE  /\ FinitePositions(Where(s, ch)) /\ 0 \notin Where(s, ch)
           /\ InChannel(s, ch) \in Seq(Tasks)
           /\ Len(InChannel(s, ch)) = Cardinality(Where(s, ch))
           /\ \A k \in 1 .. Cardinality(Where(s, ch)) :
                 /\ Nth(Where(s, ch), k) \in Where(s, ch)
                 /\ InChannel(s, ch)[k] = s[Nth(Where(s, ch), k)]
<1> DEFINE P == Where(s, ch)
<1>1. FinitePositions(P) /\ 0 \notin P /\ P \subseteq 1 .. Len(s)
  <2>1. Len(s) \in Nat /\ DOMAIN s = 1 .. Len(s)
    OBVIOUS
  <2>2. P \subseteq 1 .. Len(s)
    BY <2>1 DEF Where
  <2>3. IsFiniteSet(1 .. Len(s))
    BY <2>1, FS_Interval
  <2>4. IsFiniteSet(P)
    BY <2>2, <2>3, FS_Subset
  <2>5. P \subseteq Nat /\ 0 \notin P
    BY <2>1, <2>2
  <2> QED  BY <2>2, <2>4, <2>5 DEF FinitePositions
<1>2. InChannel(s, ch) = [k \in 1 .. Cardinality(P) |-> s[Nth(P, k)]]
  BY DEF InChannel, Where
<1>3. Cardinality(P) \in Nat
  BY <1>1, FS_CardinalityType DEF FinitePositions
<1>4. \A k \in 1 .. Cardinality(P) : Nth(P, k) \in P /\ s[Nth(P, k)] \in Tasks
  <2>1. \A k \in 1 .. Cardinality(P) : Nth(P, k) \in P
    BY <1>1, NthType
  <2>2. \A i \in P : s[i] \in Tasks
    BY <1>1
  <2> QED  BY <2>1, <2>2
<1> HIDE DEF P
<1>5. InChannel(s, ch) \in Seq(Tasks) /\ Len(InChannel(s, ch)) = Cardinality(P)
  BY <1>2, <1>3, <1>4
<1>6. \A k \in 1 .. Cardinality(P) : InChannel(s, ch)[k] = s[Nth(P, k)]
  BY <1>2
<1> QED  BY <1>1, <1>4, <1>5, <1>6 DEF P

\* Of a sequence without tasks of the channel.
LEMMA InChannelNone ==
    ASSUME NEW s \in Seq(Tasks), NEW ch, Where(s, ch) = {}
    PROVE  InChannel(s, ch) = <<>>
<1>1. Cardinality(Where(s, ch)) = 0
  BY FS_EmptySet
<1>2. InChannel(s, ch) \in Seq(Tasks) /\ Len(InChannel(s, ch)) = 0
  BY <1>1, InChannelType
<1> QED  BY <1>2

\* A task that joins at the end joins its channel at the end, and no other.
LEMMA InChannelAppend ==
    ASSUME NEW s \in Seq(Tasks), NEW t \in Tasks, NEW ch
    PROVE  InChannel(Append(s, t), ch) = IF Frame(t).chan = ch
                                         THEN Append(InChannel(s, ch), t)
                                         ELSE InChannel(s, ch)
<1> DEFINE u == Append(s, t)
           P == Where(s, ch)
           Q == Where(u, ch)
           n == Len(s) + 1
<1>1. /\ u \in Seq(Tasks) /\ Len(u) = n /\ n \in Nat \ {0} /\ u[n] = t
      /\ DOMAIN s = 1 .. Len(s) /\ Len(s) \in Nat /\ DOMAIN u = 1 .. n
      /\ \A i \in 1 .. Len(s) : u[i] = s[i]
  BY AppendProperties
<1> HIDE DEF u
<1>2. FinitePositions(P) /\ (\A i \in P : i < n /\ u[i] = s[i])
  <2>1. \A i \in P : i \in 1 .. Len(s)
    BY <1>1 DEF Where
  <2> QED  BY <1>1, <2>1, InChannelType
<1>3. CASE Frame(t).chan = ch
  <2>1. Q = P \cup {n}
    BY <1>1, <1>3 DEF Where
  <2>2. /\ Cardinality(Q) = Cardinality(P) + 1 /\ Nth(Q, Cardinality(P) + 1) = n
        /\ \A k \in 1 .. Cardinality(P) : Nth(Q, k) = Nth(P, k)
    <3> HIDE DEF P, Q, n
    <3> QED  BY <1>1, <1>2, <2>1, NthAdd
  <2>3. /\ InChannel(u, ch) \in Seq(Tasks) /\ Len(InChannel(u, ch)) = Cardinality(P) + 1
        /\ InChannel(s, ch) \in Seq(Tasks) /\ Len(InChannel(s, ch)) = Cardinality(P)
        /\ Cardinality(P) \in Nat
    BY <1>1, <1>2, <2>2, InChannelType, FS_CardinalityType DEF FinitePositions
  <2>4. \A k \in 1 .. Cardinality(P) : InChannel(u, ch)[k] = InChannel(s, ch)[k]
    <3> SUFFICES ASSUME NEW k \in 1 .. Cardinality(P)
                 PROVE  InChannel(u, ch)[k] = InChannel(s, ch)[k]
      OBVIOUS
    <3>1. k \in 1 .. Cardinality(Q)
      BY <2>2, <2>3
    <3>2. InChannel(u, ch)[k] = u[Nth(Q, k)] /\ Nth(P, k) \in P
          /\ InChannel(s, ch)[k] = s[Nth(P, k)]
      BY <1>1, <3>1, InChannelType
    <3> QED  BY <1>2, <2>2, <3>2
  <2>5. InChannel(u, ch)[Cardinality(P) + 1] = t
    <3>1. Cardinality(P) + 1 \in 1 .. Cardinality(Q)
      BY <2>2, <2>3
    <3>2. InChannel(u, ch)[Cardinality(P) + 1] = u[Nth(Q, Cardinality(P) + 1)]
      BY <1>1, <3>1, InChannelType
    <3> QED  BY <1>1, <2>2, <3>2
  <2> DEFINE a == InChannel(s, ch)
             b == InChannel(u, ch)
  <2>6. /\ Append(a, t) \in Seq(Tasks) /\ Len(Append(a, t)) = Len(a) + 1
        /\ \A k \in 1 .. Len(a) : Append(a, t)[k] = a[k]
        /\ Append(a, t)[Len(a) + 1] = t
    BY <2>3, AppendProperties
  <2>7. b = Append(a, t)
    <3>1. b \in Seq(Tasks) /\ Len(b) = Len(Append(a, t)) /\ Len(a) \in Nat
      BY <2>3, <2>6
    <3>2. \A k \in 1 .. Len(b) : b[k] = Append(a, t)[k]
      BY <2>3, <2>4, <2>5, <2>6
    <3> HIDE DEF a, b
    <3> QED  BY <2>6, <3>1, <3>2, SeqEqual
  <2> QED  BY <1>3, <2>7 DEF u
<1>4. CASE Frame(t).chan # ch
  <2>1. Q = P
    BY <1>1, <1>4 DEF Where
  <2>2. InChannel(u, ch) = [k \in 1 .. Cardinality(P) |-> u[Nth(P, k)]]
    BY <2>1 DEF InChannel, Where
  <2>3. InChannel(s, ch) = [k \in 1 .. Cardinality(P) |-> s[Nth(P, k)]]
    BY DEF InChannel, Where
  <2>4. \A k \in 1 .. Cardinality(P) : Nth(P, k) \in P
    BY InChannelType
  <2>5. \A k \in 1 .. Cardinality(P) : u[Nth(P, k)] = s[Nth(P, k)]
    BY <1>2, <2>4
  <2> QED  BY <1>4, <2>2, <2>3, <2>5 DEF u
<1> QED  BY <1>3, <1>4

\* A task that leaves at the front leaves its channel at the front, and no other.
LEMMA InChannelTail ==
    ASSUME NEW s \in Seq(Tasks), NEW r \in Seq(Tasks), NEW ch, Len(s) = Len(r) + 1,
           \A i \in 1 .. Len(r) : s[i + 1] = r[i]
    PROVE  IF Frame(s[1]).chan = ch
           THEN /\ InChannel(s, ch) # <<>> /\ Head(InChannel(s, ch)) = s[1]
                /\ Tail(InChannel(s, ch)) = InChannel(r, ch)
           ELSE InChannel(s, ch) = InChannel(r, ch)
<1> DEFINE P == Where(r, ch)
           Q == Where(s, ch)
           a == InChannel(s, ch)
           b == InChannel(r, ch)
<1>1. /\ DOMAIN s = 1 .. Len(r) + 1 /\ DOMAIN r = 1 .. Len(r) /\ Len(r) \in Nat
      /\ Cardinality(P) \in Nat /\ P \subseteq 1 .. Len(r)
      /\ \A k \in 1 .. Cardinality(P) : s[Nth(P, k) + 1] = r[Nth(P, k)]
  <2>1. DOMAIN s = 1 .. Len(r) + 1 /\ DOMAIN r = 1 .. Len(r) /\ Len(r) \in Nat
    OBVIOUS
  <2>2. P \subseteq 1 .. Len(r)
    BY <2>1 DEF Where
  <2>3. Cardinality(P) \in Nat /\ \A k \in 1 .. Cardinality(P) : Nth(P, k) \in P
    BY InChannelType, FS_CardinalityType DEF FinitePositions
  <2> QED  BY <2>1, <2>2, <2>3
<1>2. FinitePositions(P) /\ 0 \notin P
  BY InChannelType
<1>3. CASE Frame(s[1]).chan = ch
  <2>1. Q = {1} \cup Shift(P)
    <3>1. \A i \in 1 .. Len(r) + 1 :
             \/ i = 1
             \/ i - 1 \in 1 .. Len(r) /\ s[i] = r[i - 1] /\ i = (i - 1) + 1
      BY <1>1
    <3>2. Q \subseteq {1} \cup Shift(P)
      BY <1>1, <3>1 DEF Where, Shift
    <3>3. {1} \cup Shift(P) \subseteq Q
      BY <1>1, <1>3 DEF Where, Shift
    <3> QED  BY <3>2, <3>3
  <2>2. /\ Cardinality(Q) = Cardinality(P) + 1 /\ Nth(Q, 1) = 1
        /\ \A k \in 1 .. Cardinality(P) : Nth(Q, k + 1) = Nth(P, k) + 1
    <3> HIDE DEF P, Q
    <3> QED  BY <1>2, <2>1, NthBehindFirst
  <2>3. /\ a \in Seq(Tasks) /\ Len(a) = Cardinality(P) + 1
        /\ b \in Seq(Tasks) /\ Len(b) = Cardinality(P)
    BY <2>2, InChannelType
  <2>4. a[1] = s[1]
    <3>1. 1 \in 1 .. Cardinality(Q)
      BY <1>1, <2>2
    <3> QED  BY <2>2, <3>1, InChannelType
  <2>5. \A k \in 1 .. Cardinality(P) : a[k + 1] = b[k]
    <3> SUFFICES ASSUME NEW k \in 1 .. Cardinality(P) PROVE a[k + 1] = b[k]
      OBVIOUS
    <3>1. k + 1 \in 1 .. Cardinality(Q)
      BY <1>1, <2>2
    <3>2. a[k + 1] = s[Nth(Q, k + 1)] /\ b[k] = r[Nth(P, k)]
      BY <3>1, InChannelType
    <3> QED  BY <1>1, <2>2, <3>2
  <2> HIDE DEF a, b
  <2>6. a # <<>> /\ Head(a) = s[1]
    BY <1>1, <2>3, <2>4
  <2>7. /\ Tail(a) \in Seq(Tasks) /\ Len(Tail(a)) = Len(a) - 1
        /\ \A i \in 1 .. Len(Tail(a)) : Tail(a)[i] = a[i + 1]
    BY <2>3, <2>6, HeadTailProperties
  <2>8. Tail(a) = b
    <3>1. Len(Tail(a)) = Len(b) /\ \A k \in 1 .. Len(b) : Tail(a)[k] = b[k]
      BY <1>1, <2>3, <2>5, <2>7
    <3> QED  BY <2>3, <2>7, <3>1, SeqEqual
  <2> QED  BY <1>3, <2>6, <2>8 DEF a, b
<1>4. CASE Frame(s[1]).chan # ch
  <2>1. Q = Shift(P)
    <3>1. \A i \in 1 .. Len(r) + 1 :
             \/ i = 1
             \/ i - 1 \in 1 .. Len(r) /\ s[i] = r[i - 1] /\ i = (i - 1) + 1
      BY <1>1
    <3>2. Q \subseteq Shift(P)
      BY <1>1, <1>4, <3>1 DEF Where, Shift
    <3>3. Shift(P) \subseteq Q
      BY <1>1 DEF Where, Shift
    <3> QED  BY <3>2, <3>3
  <2>2. /\ Cardinality(Q) = Cardinality(P)
        /\ \A k \in 1 .. Cardinality(P) : Nth(Q, k) = Nth(P, k) + 1
    <3> HIDE DEF P, Q
    <3> QED  BY <1>2, <2>1, NthShift, ShiftCardinality
  <2>3. a = [k \in 1 .. Cardinality(Q) |-> s[Nth(Q, k)]]
    BY DEF InChannel, Where
  <2>4. b = [k \in 1 .. Cardinality(P) |-> r[Nth(P, k)]]
    BY DEF InChannel, Where
  <2>5. \A k \in 1 .. Cardinality(P) : s[Nth(Q, k)] = r[Nth(P, k)]
    BY <1>1, <2>2
  <2> HIDE DEF P, Q
  <2>6. a = b
    BY <2>2, <2>3, <2>4, <2>5
  <2> QED  BY <1>4, <2>6
<1> QED  BY <1>3, <1>4

-----------------------------------------------------------------------------
(* Dispatch implements Link *)

Serves(ch) == Hash[ch] % WorkerNumber

\* All that is past the listeners and on the way to a worker's write.
OnTheWay(w) == hand[w] \o chan[w]

LEMMA ServesType ==
    ASSUME NEW ch \in Channels
    PROVE  Serves(ch) \in Workers
<1>1. Hash[ch] \in Nat /\ WorkerNumber \in Nat \ {0}
  BY DispatchAssumption DEF DispatchAssumption
<1> DEFINE h == Hash[ch]
<1>2. h % WorkerNumber \in 0 .. WorkerNumber - 1
  <2> HIDE DEF h
  <2> QED  BY <1>1 DEF h
<1> QED  BY <1>2 DEF Serves, Workers

LEMMA OnTheWayType ==
    ASSUME TypeOK, NEW w \in Workers
    PROVE  /\ OnTheWay(w) \in Seq(Tasks) /\ hand[w] \in Seq(Tasks) /\ chan[w] \in Seq(Tasks)
           /\ Len(OnTheWay(w)) = Len(hand[w]) + Len(chan[w])
           /\ \A i \in 1 .. Len(OnTheWay(w)) :
                 OnTheWay(w)[i] = IF i <= Len(hand[w]) THEN hand[w][i]
                                  ELSE chan[w][i - Len(hand[w])]
<1>1. hand[w] \in Seq(Tasks) /\ chan[w] \in Seq(Tasks)
  BY DEF TypeOK
<1> QED  BY <1>1, ConcatProperties DEF OnTheWay

\* The same tasks on the way, in the same order, are the same queues.
LEMMA LinkStutter ==
    ASSUME UNCHANGED log, \A c \in Conns : Passed(c)' = Passed(c),
           \A w \in Workers : OnTheWay(w)' = OnTheWay(w)
    PROVE  UNCHANGED L!linkVars
<1>1. \A ch \in Channels : InTransit(ch)' = InTransit(ch)
  BY ServesType DEF InTransit, OnTheWay, Serves
<1> QED  BY <1>1 DEF L!linkVars

\* The task a worker holds is the first of its channel, and is gone from it
\* when the worker has put it down.
LEMMA PutDownLink ==
    ASSUME TypeOK, HandInv, NEW w \in Workers, wk[w] # "waiting",
           hand' = [hand EXCEPT ![w] = <<>>], UNCHANGED chan,
           \A c \in Conns : Passed(c)' = Passed(c)
    PROVE  LET ch == Frame(InHand(w)).chan
           IN  /\ ch \in Channels /\ L!Waiting(ch) /\ L!First(ch) = InHand(w)
               /\ L!ComesUp(ch)
<1> DEFINE t == InHand(w)
           own == Frame(t).chan
<1>1. t \in Tasks /\ own \in Channels /\ hand[w] # <<>>
  BY InHandType DEF FrameType
<1>2. Serves(own) = w
  BY <1>1 DEF HandInv, WorkerFor, Serves
<1>3. /\ OnTheWay(w) \in Seq(Tasks) /\ chan[w] \in Seq(Tasks)
      /\ Len(OnTheWay(w)) = Len(chan[w]) + 1 /\ OnTheWay(w)[1] = t
      /\ \A i \in 1 .. Len(chan[w]) : OnTheWay(w)[i + 1] = chan[w][i]
  <2>1. Len(hand[w]) = 1 /\ hand[w] \in Seq(Tasks) /\ t = hand[w][1]
    BY <1>1 DEF TypeOK, InHand
  <2>2. chan[w] \in Seq(Tasks) /\ Len(chan[w]) \in Nat
    BY DEF TypeOK
  <2> HIDE DEF t
  <2>0. /\ OnTheWay(w) \in Seq(Tasks)
        /\ Len(OnTheWay(w)) = Len(hand[w]) + Len(chan[w])
        /\ \A i \in 1 .. Len(OnTheWay(w)) :
              OnTheWay(w)[i] = IF i <= Len(hand[w]) THEN hand[w][i]
                               ELSE chan[w][i - Len(hand[w])]
    BY OnTheWayType
  <2>3. OnTheWay(w) \in Seq(Tasks) /\ Len(OnTheWay(w)) = Len(chan[w]) + 1
    BY <2>0, <2>1, <2>2
  <2>4. OnTheWay(w)[1] = t
    <3>1. 1 \in 1 .. Len(OnTheWay(w)) /\ 1 <= Len(hand[w])
      BY <2>1, <2>2, <2>3
    <3> QED  BY <2>0, <2>1, <3>1
  <2>5. ASSUME NEW i \in 1 .. Len(chan[w])
        PROVE  OnTheWay(w)[i + 1] = chan[w][i]
    <3>1. /\ i + 1 \in 1 .. Len(OnTheWay(w)) /\ ~(i + 1 <= Len(hand[w]))
          /\ (i + 1) - Len(hand[w]) = i
      BY <2>1, <2>2, <2>3
    <3> QED  BY <2>0, <3>1
  <2> QED  BY <2>2, <2>3, <2>4, <2>5
<1>4. OnTheWay(w)' = chan[w]
  <2>1. hand'[w] = <<>> /\ chan'[w] = chan[w]
    BY DEF TypeOK
  <2>2. <<>> \o chan[w] = chan[w]
    BY <1>3, ConcatEmptySeq
  <2> QED  BY <2>1, <2>2 DEF OnTheWay
<1>5. \A v \in Workers \ {w} : OnTheWay(v)' = OnTheWay(v)
  BY DEF OnTheWay, TypeOK
<1> HIDE DEF t, own
<1>6. ASSUME NEW ch \in Channels
      PROVE  InTransit(ch)' = IF ch = own THEN Tail(InTransit(ch)) ELSE InTransit(ch)
  <2>1. InTransit(ch) = InChannel(OnTheWay(Serves(ch)), ch) /\ Serves(ch) \in Workers
    BY ServesType DEF InTransit, OnTheWay, Serves
  <2>2. InTransit(ch)' = InChannel(OnTheWay(Serves(ch))', ch)
    BY DEF InTransit, OnTheWay, Serves
  <2>3. CASE Serves(ch) = w
    BY <1>2, <1>3, <1>4, <2>1, <2>2, <2>3, InChannelTail DEF own
  <2>4. CASE Serves(ch) # w
    BY <1>2, <1>5, <2>1, <2>2, <2>4
  <2> QED  BY <2>3, <2>4
<1>7. InTransit(own) # <<>> /\ Head(InTransit(own)) = t
  <2>1. InTransit(own) = InChannel(OnTheWay(w), own)
    BY <1>2 DEF InTransit, OnTheWay, Serves
  <2> QED  BY <1>3, <2>1, InChannelTail DEF own
<1>8. L!Waiting(own) /\ L!First(own) = t
  BY <1>1, <1>7 DEF L!Waiting, L!First
<1>9. L!ComesUp(own)
  BY <1>1, <1>6 DEF L!ComesUp
<1> QED  BY <1>1, <1>8, <1>9 DEF t, own

\* A task that enters the channel of its worker was accepted by Link.
LEMMA SendLink ==
    ASSUME TypeOK, NEW c \in Conns, Send(c)
    PROVE  L!Accept(c)
<1> DEFINE t == Held(c)
           own == Frame(t).chan
           w == WorkerFor(t)
<1>1. /\ t \in Tasks /\ own \in Channels /\ w \in Workers /\ w = Serves(own)
      /\ t = [conn |-> c, n |-> Passed(c) + 1]
  <2>1. t \in Tasks /\ lis[c] = "sending" /\ read[c] \in Nat
    BY HeldType DEF Send, Sent, TypeOK
  <2>2. read[c] = Passed(c) + 1
    BY <2>1 DEF Passed
  <2>3. t = [conn |-> c, n |-> Passed(c) + 1]
    BY <2>2 DEF Held
  <2> HIDE DEF t
  <2> QED  BY <2>1, <2>3, TaskType, WorkerForType DEF FrameType, WorkerFor, Serves
<1>2. Passed(c) < Len(Script[c])
  <2>1. Len(Script[c]) \in Nat
    BY FramesAssumption DEF FramesAssumption
  <2> QED  BY <2>1 DEF Send, Sent, TypeOK, Passed
<1>3. \A d \in Conns : Passed(d)' = IF d = c THEN Passed(c) + 1 ELSE Passed(d)
  BY DEF Send, Sent, TypeOK, Passed
<1>4. UNCHANGED <<hand, log>>
  BY DEF Send, Sent, wkVars
<1>5. ASSUME NEW v \in Workers
      PROVE  OnTheWay(v)' = IF v = w THEN Append(OnTheWay(v), t) ELSE OnTheWay(v)
  <2> DEFINE h == hand[v]
             s == chan[v]
  <2>1. h \in Seq(Tasks) /\ s \in Seq(Tasks)
    BY DEF TypeOK
  <2>2. CASE v = w
    <3>1. chan'[v] = Append(s, t)
      BY <2>2, SendEffect
    <3>2. h \o Append(s, t) = Append(h \o s, t)
      <4> HIDE DEF h, s, t
      <4>1. <<t>> \in Seq(Tasks) /\ h \o s \in Seq(Tasks)
        BY <1>1, <2>1, ConcatProperties
      <4>2. Append(s, t) = s \o <<t>> /\ Append(h \o s, t) = (h \o s) \o <<t>>
        BY <1>1, <2>1, <4>1, AppendIsConcat
      <4>3. (h \o s) \o <<t>> = h \o (s \o <<t>>)
        BY <2>1, <4>1, ConcatAssociative
      <4> QED  BY <4>2, <4>3
    <3> QED  BY <1>4, <2>2, <3>1, <3>2 DEF OnTheWay
  <2>3. CASE v # w
    BY <1>4, <2>3, SendEffect DEF OnTheWay
  <2> QED  BY <2>2, <2>3
<1> HIDE DEF t, own, w
<1>6. ASSUME NEW ch \in Channels
      PROVE  InTransit(ch)' = IF ch = own THEN Append(InTransit(ch), t) ELSE InTransit(ch)
  <2>1. InTransit(ch) = InChannel(OnTheWay(Serves(ch)), ch) /\ Serves(ch) \in Workers
    BY ServesType DEF InTransit, OnTheWay, Serves
  <2>2. InTransit(ch)' = InChannel(OnTheWay(Serves(ch))', ch)
    BY DEF InTransit, OnTheWay, Serves
  <2>3. CASE Serves(ch) = w
    <3>1. OnTheWay(w) \in Seq(Tasks)
      BY <1>1, OnTheWayType
    <3>2. InTransit(ch)' = InChannel(Append(OnTheWay(w), t), ch)
      BY <1>1, <1>5, <2>2, <2>3
    <3>3. t \in Tasks
      BY <1>1
    <3>4. InChannel(Append(OnTheWay(w), t), ch) =
             IF own = ch THEN Append(InChannel(OnTheWay(w), ch), t)
             ELSE InChannel(OnTheWay(w), ch)
      BY <3>1, <3>3, InChannelAppend, Zenon DEF own
    <3> QED  BY <2>1, <2>3, <3>2, <3>4
  <2>4. CASE Serves(ch) # w
    BY <1>1, <1>5, <2>1, <2>2, <2>4
  <2> QED  BY <2>3, <2>4
<1>7. [d \in Conns |-> Passed(d)]' = [[d \in Conns |-> Passed(d)] EXCEPT ![c] = @ + 1]
  BY <1>3
<1>8. [ch \in Channels |-> InTransit(ch)]' =
        [[ch \in Channels |-> InTransit(ch)] EXCEPT ![own] = Append(@, t)]
  BY <1>6
<1> QED  BY <1>1, <1>2, <1>4, <1>7, <1>8 DEF L!Accept, L!Frame, Frame, own

\* A worker takes a task: the task is still on its way.
LEMMA TakeLink ==
    ASSUME TypeOK, NEW w \in Workers, Take(w)
    PROVE  UNCHANGED L!linkVars
<1>1. UNCHANGED log /\ \A c \in Conns : Passed(c)' = Passed(c)
  BY DEF Take, lisVars, Passed
<1>2. \A v \in Workers \ {w} : OnTheWay(v)' = OnTheWay(v)
  BY TakeEffect DEF OnTheWay
<1>3. OnTheWay(w)' = OnTheWay(w)
  <2>1. chan[w] \in Seq(Tasks) /\ chan[w] # <<>> /\ hand[w] \in Seq(Tasks) /\ Len(hand[w]) = 0
    BY DEF TypeOK, Take, WorkerGoto
  <2>2. hand[w] = <<>>
    BY <2>1, EmptySeq
  <2>3. chan'[w] = Tail(chan[w]) /\ hand'[w] = <<Head(chan[w])>>
    BY DEF Take, TypeOK
  <2> DEFINE s == chan[w]
  <2>4. <<>> \o s = s
    BY <2>1, ConcatEmptySeq
  <2>5. <<Head(s)>> \o Tail(s) = s
    <3>1. /\ Head(s) \in Tasks /\ Tail(s) \in Seq(Tasks) /\ Len(Tail(s)) = Len(s) - 1
          /\ \A i \in 1 .. Len(Tail(s)) : Tail(s)[i] = s[i + 1]
      BY <2>1, HeadTailProperties
    <3>2. Head(s) = s[1] /\ Len(s) \in Nat \ {0}
      BY <2>1
    <3> DEFINE h == <<Head(s)>>
    <3>3. h \in Seq(Tasks) /\ Len(h) = 1 /\ h[1] = s[1]
      BY <3>1, <3>2
    <3> HIDE DEF h, s
    <3>4. h \in Seq(Tasks) /\ Tail(s) \in Seq(Tasks)
      BY <3>1, <3>3
    <3>5. /\ h \o Tail(s) \in Seq(Tasks) /\ Len(h \o Tail(s)) = Len(h) + Len(Tail(s))
          /\ \A i \in 1 .. Len(h) + Len(Tail(s)) :
                (h \o Tail(s))[i] = IF i <= Len(h) THEN h[i] ELSE Tail(s)[i - Len(h)]
      BY <3>4, ConcatProperties
    <3>6. \A i \in 1 .. Len(s) : (h \o Tail(s))[i] = s[i]
      <4> SUFFICES ASSUME NEW i \in 1 .. Len(s) PROVE (h \o Tail(s))[i] = s[i]
        OBVIOUS
      <4>1. CASE i = 1
        BY <3>1, <3>2, <3>3, <3>5, <4>1
      <4>2. CASE i # 1
        <5>1. i - 1 \in 1 .. Len(Tail(s)) /\ ~(i <= 1) /\ i \in 1 .. 1 + Len(Tail(s))
              /\ (i - 1) + 1 = i
          BY <3>1, <3>2, <4>2
        <5> QED  BY <3>1, <3>3, <3>5, <5>1
      <4> QED  BY <4>1, <4>2
    <3>7. Len(h \o Tail(s)) = Len(s)
      BY <3>1, <3>2, <3>3, <3>5
    <3>8. h \o Tail(s) = s
      BY <2>1, <3>5, <3>6, <3>7, SeqEqual DEF s
    <3> QED  BY <3>8 DEF h
  <2> QED  BY <2>2, <2>3, <2>4, <2>5 DEF OnTheWay
<1> QED  BY <1>1, <1>2, <1>3, LinkStutter

\* A worker looks for whom to write to: a task given up is lost.
LEMMA LookLink ==
    ASSUME TypeOK, HandInv, NEW w \in Workers,
           FindTarget(w) \/ NobodyThere(w) \/ FindSource(w) \/ SourceGone(w)
    PROVE  L!Next \/ UNCHANGED L!linkVars
<1> USE DEF FindTarget, NobodyThere, FindSource, SourceGone, Find
<1>1. wk[w] # "waiting" /\ UNCHANGED <<chan, log>> /\ \A c \in Conns : Passed(c)' = Passed(c)
  BY DEF WorkerGoto, lisVars, Passed
<1>2. UNCHANGED hand \/ hand' = [hand EXCEPT ![w] = <<>>]
  BY DEF PutDown
<1>3. CASE UNCHANGED hand
  BY <1>1, <1>3, LinkStutter DEF OnTheWay
<1>4. CASE hand' = [hand EXCEPT ![w] = <<>>]
  <2> DEFINE ch == Frame(InHand(w)).chan
  <2>1. ch \in Channels /\ L!Waiting(ch) /\ L!ComesUp(ch)
    BY <1>1, <1>4, PutDownLink
  <2>2. L!Lose(ch)
    BY <1>1, <2>1 DEF L!Lose
  <2> QED  BY <2>1, <2>2 DEF L!Next
<1> QED  BY <1>2, <1>3, <1>4

\* A write that succeeds delivers the frame, or its answer, where it belongs.
LEMMA WriteLink ==
    ASSUME TypeOK, HandInv, TargetInv, NEW w \in Workers,
           WriteFrame(w) \/ WriteNotFound(w)
    PROVE  L!Next
<1> DEFINE t == InHand(w)
           ch == Frame(t).chan
           d == target[w]
<1>1. /\ wk[w] \in {"writing", "replying"} /\ UNCHANGED chan
      /\ \A c \in Conns : Passed(c)' = Passed(c)
      /\ hand' = [hand EXCEPT ![w] = <<>>]
  BY DEF WriteFrame, WriteNotFound, Written, WorkerGoto, PutDown, lisVars, Passed
<1>2. ch \in Channels /\ L!Waiting(ch) /\ L!First(ch) = t /\ L!ComesUp(ch)
  BY <1>1, PutDownLink
<1>3. d \in Conns
  BY <1>1 DEF TypeOK
<1> HIDE DEF t
<1>4. CASE UNCHANGED log
  BY <1>2, <1>4 DEF L!Next, L!Lose
<1>5. CASE WriteFrame(w) /\ log' = [log EXCEPT ![ch] = Append(@, [task |-> t, to |-> d, what |-> "frame"])]
  <2>1. NameOf[d] = Frame(t).to
    BY <1>5 DEF WriteFrame, Written, WorkerGoto, TargetInv, t
  <2>2. L!Report(ch, d, "frame")
    BY <1>2, <1>5 DEF L!Report
  <2>3. L!Deliver(ch, d)
    BY <1>2, <2>1, <2>2 DEF L!Deliver, L!Frame, Frame
  <2> QED  BY <1>2, <1>3, <2>3 DEF L!Next
<1>6. CASE WriteNotFound(w) /\ log' = [log EXCEPT ![ch] = Append(@, [task |-> t, to |-> d, what |-> "404"])]
  <2>1. NameOf[d] = Frame(t).from /\ EndsRequest(t)
    BY <1>6 DEF WriteNotFound, Written, WorkerGoto, TargetInv, t
  <2>2. L!Report(ch, d, "404")
    BY <1>2, <1>6 DEF L!Report
  <2>3. L!EndsRequest(t)
    BY <2>1 DEF L!EndsRequest, EndsRequest, L!Frame, Frame
  <2>4. L!AnswerNotFound(ch, d)
    BY <1>2, <2>1, <2>2, <2>3 DEF L!AnswerNotFound, L!Frame, Frame
  <2> QED  BY <1>2, <1>3, <2>4 DEF L!Next
<1>7. \/ UNCHANGED log
      \/ /\ WriteFrame(w)
         /\ log' = [log EXCEPT ![ch] = Append(@, [task |-> t, to |-> d, what |-> "frame"])]
      \/ /\ WriteNotFound(w)
         /\ log' = [log EXCEPT ![ch] = Append(@, [task |-> t, to |-> d, what |-> "404"])]
  BY DEF WriteFrame, WriteNotFound, Written, t
<1> QED  BY <1>4, <1>5, <1>6, <1>7

LEMMA ConnLink ==
    ASSUME TypeOK, NEW c \in Conns, Join(c) \/ Cancel(c) \/ Leave(c) \/ Read(c)
    PROVE  UNCHANGED L!linkVars
<1>1. UNCHANGED <<chan, log, hand>>
  BY DEF Join, Cancel, Leave, Read, wkVars
<1>2. \A d \in Conns : Passed(d)' = Passed(d)
  BY DEF Join, Cancel, Leave, Read, Passed, TypeOK
<1> QED  BY <1>1, <1>2, LinkStutter DEF OnTheWay

LEMMA LinkStep ==
    ASSUME DispatchInv, [Next]_vars
    PROVE  L!Next \/ UNCHANGED L!linkVars
<1> USE DEF DispatchInv
<1>1. CASE UNCHANGED vars
  <2>1. UNCHANGED <<chan, log, hand>> /\ \A d \in Conns : Passed(d)' = Passed(d)
    BY <1>1 DEF vars, lisVars, wkVars, Passed
  <2> QED  BY <2>1, LinkStutter DEF OnTheWay
<1>2. ASSUME NEW c \in Conns, Join(c) \/ Cancel(c) \/ Leave(c) \/ Read(c) \/ Send(c)
      PROVE  L!Next \/ UNCHANGED L!linkVars
  BY <1>2, ConnLink, SendLink DEF L!Next
<1>3. ASSUME NEW w \in Workers, Worker(w)
      PROVE  L!Next \/ UNCHANGED L!linkVars
  BY <1>3, TakeLink, LookLink, WriteLink DEF Worker
<1> QED  BY <1>1, <1>2, <1>3 DEF Next

LEMMA InitLink == Init => L!Init
<1> SUFFICES ASSUME Init PROVE L!Init
  OBVIOUS
<1>1. \A c \in Conns : Passed(c) = 0
  BY DEF Init, Passed
<1>2. \A ch \in Channels : InTransit(ch) = <<>>
  <2> SUFFICES ASSUME NEW ch \in Channels PROVE InTransit(ch) = <<>>
    OBVIOUS
  <2>1. hand[Serves(ch)] = <<>> /\ chan[Serves(ch)] = <<>>
    BY ServesType DEF Init
  <2>2. <<>> \in Seq(Tasks) /\ <<>> \o <<>> = <<>> /\ Where(<<>>, ch) = {}
    BY LenEmpty, ConcatEmptySeq DEF Where
  <2>3. InChannel(<<>>, ch) = <<>>
    BY <2>2, InChannelNone
  <2> QED  BY <2>1, <2>2, <2>3 DEF InTransit, Serves
<1> QED  BY <1>1, <1>2 DEF Init, L!Init

-----------------------------------------------------------------------------
(* The theorems *)

LEMMA InitDispatchInv == Init => DispatchInv
<1> SUFFICES ASSUME Init PROVE DispatchInv
  OBVIOUS
<1>1. TypeOK
  BY InitTypeOK
<1>2. \A w \in Workers : chan[w] = <<>> /\ hand[w] = <<>> /\ wk[w] = "waiting"
  BY DEF Init
<1>3. \A ch \in Channels : log[ch] = <<>>
  BY DEF Init
<1>4. ChanInv /\ HandInv /\ LogInv /\ ChannelOrder
  BY <1>2, <1>3 DEF ChanInv, HandInv, LogInv, ChannelOrder
<1>5. TargetInv
  BY <1>2 DEF Init, TargetInv
<1> QED  BY <1>1, <1>4, <1>5 DEF DispatchInv

\* Whatever joins, leaves and is cancelled, and whatever the workers are busy
\* with: what waits, is in hand and was written is in order (room.rs lines
\* 183-464), and a worker writes to the names its frame states.
THEOREM Inductive == Spec => []DispatchInv
<1>1. DispatchInv /\ [Next]_vars => DispatchInv'
  BY NextTypeOK, NextOrder, NextTarget DEF DispatchInv, OrderInv
<1> QED  BY InitDispatchInv, <1>1, PTL DEF Spec

\* The frames a connection sends in a channel are written in its order, each
\* at most once: a channel has one worker (frame.rs line 238).
THEOREM FramesInOrder == Spec => []ChannelOrder
<1>1. DispatchInv => ChannelOrder
  BY DEF DispatchInv
<1> QED  BY Inductive, <1>1, PTL

\* Whatever the workers, their channels and the connections do, each channel
\* is the lossy queue of Link: nothing overtakes, nothing is repeated, what is
\* delivered goes to a connection of the frame's target and a 404 to one of
\* its source (room.rs lines 278-304 and 427-460).
THEOREM Refinement == Spec => ImplementsLink
<1>1. Init => L!Init
  BY InitLink
<1>2. DispatchInv /\ [Next]_vars => [L!Next]_(L!linkVars)
  BY LinkStep
<1> QED  BY <1>1, <1>2, Inductive, PTL DEF Spec, ImplementsLink, L!Spec
=============================================================================
