----------------------------- MODULE ConnProofs -----------------------------
(***************************************************************************)
(* Proofs about Conn, for any number of calls and any number of parts a    *)
(* frame: the inductive invariant ConnInv, the two wire properties that    *)
(* follow from it, and the refinement of FrameSink.                        *)
(***************************************************************************)
EXTENDS Conn, SequenceTheorems, TLAPS

\* Leaving the queue at any place leaves a queue of calls.
LEMMA RemoveAtInSeq ==
    ASSUME NEW S, NEW s \in Seq(S), NEW i \in DOMAIN s
    PROVE  RemoveAt(s, i) \in Seq(S)
<1>1. SubSeq(s, 1, i - 1) \in Seq(S)
  BY SubSeqProperties, LenProperties, ElementOfSeq
<1>2. SubSeq(s, i + 1, Len(s)) \in Seq(S)
  BY SubSeqProperties, LenProperties, ElementOfSeq
<1> QED  BY <1>1, <1>2, ConcatProperties DEF RemoveAt

\* The wire grows at its end only.
LEMMA AppendIsThere ==
    ASSUME NEW S, NEW s \in Seq(S), NEW e \in S
    PROVE  /\ Append(s, e) \in Seq(S)
           /\ Append(s, e) # <<>>
           /\ Len(Append(s, e)) = Len(s) + 1
           /\ Append(s, e)[Len(s) + 1] = e
           /\ \A j \in 1 .. Len(s) : Append(s, e)[j] = s[j]
  BY AppendProperties

-----------------------------------------------------------------------------
LEMMA InitTypeOK == Init => TypeOK
<1> SUFFICES ASSUME Init PROVE TypeOK
  OBVIOUS
<1>1. waiters \in Seq(Calls) /\ wire \in Seq(Parts)
  BY EmptySeq DEF Init
<1>2. sent \in [Writes -> 0 .. Chunks]
  BY ConnAssumption DEF ConnAssumption, Init
<1> QED  BY <1>1, <1>2 DEF Init, TypeOK

LEMMA NextTypeOK == TypeOK /\ [Next]_vars => TypeOK'
<1> SUFFICES ASSUME TypeOK, [Next]_vars PROVE TypeOK'
  OBVIOUS
<1> USE ConnAssumption DEF ConnAssumption, TypeOK, Calls
<1>w. ASSUME NEW w \in Writes, WriteTask(w) \/ WriteOutside(w) PROVE TypeOK'
  <2> w \in Calls
    OBVIOUS
  <2>1. CASE Enqueue(w)
    BY <2>1, AppendProperties DEF Enqueue, Goto
  <2>2. CASE Acquire(w)
    BY <2>2, HeadTailProperties DEF Acquire, MyTurn, Goto
  <2>3. CASE WriteLockTimeout(w)
    BY <2>3, RemoveAtInSeq DEF WriteLockTimeout, GiveUpLock, Return, Goto
  <2>4. CASE RecheckFails(w)
    BY <2>4 DEF RecheckFails, Return, Goto, Release
  <2>5. CASE BeginWrite(w)
    BY <2>5 DEF BeginWrite, Goto
  <2>6. CASE WriteTimeout(w)
    BY <2>6 DEF WriteTimeout, Return, Goto, Release
  <2>7. CASE WriteRefused(w)
    BY <2>7 DEF WriteRefused, Return, Goto
  <2>8. CASE WriteStart(w)
    BY <2>8 DEF WriteStart, Goto
  <2>9. CASE WritePart(w) \/ WriteLast(w)
    <3>1. sent[w] + 1 \in 1 .. Chunks
      BY <2>9 DEF WritePart, WriteLast
    <3>2. [call |-> w, part |-> sent[w] + 1] \in Parts
      BY <3>1 DEF Parts
    <3>3. SocketTakes(w)
      BY <2>9 DEF WritePart, WriteLast
    <3>4. wire' \in Seq(Parts)
      BY <3>2, <3>3, AppendProperties DEF SocketTakes
    <3>5. sent' \in [Writes -> 0 .. Chunks]
      BY <3>1, <3>3 DEF SocketTakes
    <3>6. CASE WritePart(w)
      BY <3>4, <3>5, <3>6 DEF WritePart
    <3>7. CASE WriteLast(w)
      BY <3>4, <3>5, <3>7 DEF WriteLast, Return, Goto, Release
    <3> QED  BY <2>9, <3>6, <3>7
  <2>10. CASE WriteError(w)
    BY <2>10 DEF WriteError, Return, Goto, Release
  <2> QED  BY <1>w, <2>1, <2>2, <2>3, <2>4, <2>5, <2>6, <2>7, <2>8, <2>9, <2>10
           DEF WriteTask, WriteOutside
<1>c. ASSUME NEW c \in Closes, CloseTask(c) \/ CloseOutside(c) PROVE TypeOK'
  <2> c \in Calls
    OBVIOUS
  <2>1. CASE Enqueue(c)
    BY <2>1, AppendProperties DEF Enqueue, Goto
  <2>2. CASE Acquire(c)
    BY <2>2, HeadTailProperties DEF Acquire, MyTurn, Goto
  <2>3. CASE CloseLockTimeout(c)
    BY <2>3, RemoveAtInSeq DEF CloseLockTimeout, GiveUpLock, Return, Goto
  <2>4. CASE CloseCancel(c)
    BY <2>4 DEF CloseCancel, Goto
  <2>5. CASE ShutdownTimeout(c) \/ ShutdownError(c)
    BY <2>5 DEF ShutdownTimeout, ShutdownError, Return, Goto, Release
  <2>6. CASE CloseAgain(c)
    BY <2>6 DEF CloseAgain, Return, Goto
  <2>7. CASE CloseFirst(c)
    BY <2>7 DEF CloseFirst, Goto
  <2>8. CASE ShutdownDone(c)
    <3>1. wire' \in Seq(Parts)
      BY <2>8, AppendProperties DEF ShutdownDone, Parts
    <3> QED  BY <2>8, <3>1 DEF ShutdownDone, Return, Goto, Release
  <2> QED  BY <1>c, <2>1, <2>2, <2>3, <2>4, <2>5, <2>6, <2>7, <2>8
           DEF CloseTask, CloseOutside
<1>s. CASE UNCHANGED vars
  BY <1>s DEF vars
<1> QED  BY <1>w, <1>c, <1>s DEF Next, Finished

\* Every state of every run is well typed.
THEOREM TypeCorrect == Spec => []TypeOK
  BY InitTypeOK, NextTypeOK, PTL DEF Spec

-----------------------------------------------------------------------------
(* The parts of the inductive invariant that do not mention the wire *)

LEMMA NextLock ==
    TypeOK /\ LockInv /\ CloseInv /\ [Next]_vars => LockInv' /\ CloseInv'
<1> SUFFICES ASSUME TypeOK, LockInv, CloseInv, [Next]_vars
             PROVE  LockInv' /\ CloseInv'
  OBVIOUS
<1>t. /\ pc \in [Calls -> {"idle", "enqueue", "waiting", "locked", "writing",
                           "shutting", "done"}]
      /\ holder \in Calls \cup {NoCall}
      /\ Writes \cap Closes = {} /\ NoCall \notin Calls
      /\ Calls = Writes \cup Closes
  BY ConnAssumption DEF TypeOK, ConnAssumption, Calls
<1> USE DEF LockInv, CloseInv, ClosedIsCancelled, Closing, Goto, Return, Release
<1>w. ASSUME NEW w \in Writes, WriteTask(w) \/ WriteOutside(w)
      PROVE  LockInv' /\ CloseInv'
  <2>0. w \in Calls /\ w \notin Closes
    BY <1>t
  <2>1. CASE Enqueue(w) \/ WriteStart(w) \/ WriteLockTimeout(w) \/ WriteRefused(w)
    BY <1>t, <2>0, <2>1 DEF Enqueue, WriteStart, WriteLockTimeout, WriteRefused
  <2>2. CASE Acquire(w)
    BY <1>t, <2>0, <2>2 DEF Acquire, MyTurn
  <2>3. CASE RecheckFails(w) \/ WriteTimeout(w) \/ WriteError(w) \/ WriteLast(w)
    <3>1. /\ pc[w] \in {"locked", "writing"} /\ pc' = [pc EXCEPT ![w] = "done"]
          /\ holder' = NoCall /\ closed' = closed /\ (cancelled => cancelled')
      BY <2>3 DEF RecheckFails, WriteTimeout, WriteError, WriteLast, SocketTakes
    <3> QED  BY <1>t, <2>0, <3>1
  <2>4. CASE BeginWrite(w) \/ WritePart(w)
    BY <1>t, <2>0, <2>4 DEF BeginWrite, WritePart
  <2> QED  BY <1>w, <2>1, <2>2, <2>3, <2>4 DEF WriteTask, WriteOutside
<1>c. ASSUME NEW c \in Closes, CloseTask(c) \/ CloseOutside(c)
      PROVE  LockInv' /\ CloseInv'
  <2>0. c \in Calls /\ c \notin Writes
    BY <1>t
  <2>1. CASE Enqueue(c) \/ CloseFirst(c) \/ CloseLockTimeout(c) \/ CloseAgain(c)
    BY <1>t, <2>0, <2>1 DEF Enqueue, CloseFirst, CloseLockTimeout, CloseAgain
  <2>2. CASE Acquire(c)
    BY <1>t, <2>0, <2>2 DEF Acquire, MyTurn
  <2>3. CASE CloseCancel(c)
    BY <1>t, <2>0, <2>3 DEF CloseCancel
  <2>4. CASE ShutdownDone(c) \/ ShutdownError(c) \/ ShutdownTimeout(c)
    <3>1. /\ pc[c] = "shutting" /\ pc' = [pc EXCEPT ![c] = "done"]
          /\ holder' = NoCall /\ closed' = closed /\ cancelled' = cancelled
      BY <2>4 DEF ShutdownDone, ShutdownError, ShutdownTimeout
    <3> QED  BY <1>t, <2>0, <3>1
  <2> QED  BY <1>c, <2>1, <2>2, <2>3, <2>4 DEF CloseTask, CloseOutside
<1>s. CASE UNCHANGED vars
  BY <1>s DEF vars
<1> QED  BY <1>w, <1>c, <1>s DEF Next, Finished

-----------------------------------------------------------------------------
(* The parts that do *)

WireInv == TailInv /\ WritingInv /\ FinInv /\ WellFramed

LEMMA WireFacts ==
    ASSUME TypeOK
    PROVE  /\ pc \in [Calls -> {"idle", "enqueue", "waiting", "locked",
                                "writing", "shutting", "done"}]
           /\ sent \in [Writes -> 0 .. Chunks]
           /\ Len(wire) \in Nat /\ DOMAIN wire = 1 .. Len(wire)
           /\ \A i \in 1 .. Len(wire) : wire[i] \in Parts
           /\ wire # <<>> <=> Len(wire) > 0
           /\ Chunks \in Nat \ {0} /\ NoCall \notin Writes
           /\ Writes \cap Closes = {} /\ Calls = Writes \cup Closes
<1>1. wire \in Seq(Parts)
  BY DEF TypeOK
<1>2. /\ Len(wire) \in Nat /\ DOMAIN wire = 1 .. Len(wire)
      /\ \A i \in 1 .. Len(wire) : wire[i] \in Parts
  BY <1>1, LenProperties, ElementOfSeq
<1>3. wire # <<>> <=> Len(wire) > 0
  BY <1>1, EmptySeq
<1> QED  BY <1>2, <1>3, ConnAssumption DEF TypeOK, ConnAssumption, Calls

\* A step that hands nothing to the socket and starts no write: the only way
\* to spoil the wire would be to stop writing and leave the others in.
LEMMA QuietStep ==
    ASSUME TypeOK, WireInv, NEW c \in Calls, NEW to,
           wire' = wire, sent' = sent,
           broken => broken', cancelled => cancelled', closed => closed',
           pc' = [pc EXCEPT ![c] = to],
           to # "writing",
           pc[c] = "writing" => cancelled' \/ broken',
           to \in {"idle", "enqueue", "waiting", "locked"} =>
               pc[c] \in {"idle", "enqueue", "waiting", "locked"},
           c \in Closes => to = "done" \/ pc[c] # "idle" \/ ~closed,
           c \in Closes => pc[c] # "done"
    PROVE  WireInv'
<1> USE WireFacts
<1>1. TailInv'
  BY DEF WireInv, TailInv, LastPart
<1>2. WritingInv'
  BY DEF WireInv, WritingInv, LastPart
<1>3. FinInv'
  BY DEF WireInv, FinInv, Closing
<1>4. WellFramed'
  BY DEF WireInv, WellFramed, Follows
<1> QED  BY <1>1, <1>2, <1>3, <1>4 DEF WireInv

\* A writer that passed the second check finds a whole frame, or a dead socket.
LEMMA BeginWriteStep ==
    ASSUME TypeOK, LockInv, CloseInv, WireInv, NEW w \in Writes, BeginWrite(w)
    PROVE  WireInv'
<1> USE WireFacts DEF BeginWrite, Goto
<1>1. \A v \in Writes : pc[v] # "writing"
  BY DEF LockInv
<1>2. TailInv'
  BY <1>1 DEF WireInv, TailInv, LastPart
<1>3. WritingInv'
  <2>1. broken \/ wire = <<>> \/ ~(LastPart.part < Chunks)
    BY <1>1 DEF WireInv, TailInv
  <2>2. wire # <<>> => LastPart.part \in 0 .. Chunks
    BY DEF LastPart, Parts, FIN
  <2>3. broken \/ wire = <<>> \/ LastPart.part = Chunks
    BY <2>1, <2>2
  <2>4. sent[w] = 0
    BY DEF WireInv, WritingInv
  <2> QED  BY <1>1, <2>3, <2>4 DEF WireInv, WritingInv, LastPart
<1>4. FinInv'
  BY DEF WireInv, FinInv, Closing
<1>5. WellFramed'
  BY DEF WireInv, WellFramed, Follows
<1> QED  BY <1>2, <1>3, <1>4, <1>5 DEF WireInv

LEMMA SocketTakesStep ==
    ASSUME TypeOK, LockInv, CloseInv, WireInv, NEW w \in Writes,
           WritePart(w) \/ WriteLast(w)
    PROVE  WireInv'
<1> USE WireFacts
<1> DEFINE n == Len(wire)
           new == [call |-> w, part |-> sent[w] + 1]
<1>1. /\ pc[w] = "writing" /\ ~broken /\ broken' = broken
      /\ wire' = Append(wire, new) /\ sent' = [sent EXCEPT ![w] = sent[w] + 1]
      /\ closed' = closed /\ cancelled' = cancelled
      /\ \/ sent[w] + 1 < Chunks /\ pc' = pc
         \/ sent[w] + 1 = Chunks /\ pc' = [pc EXCEPT ![w] = "done"]
  BY DEF WritePart, WriteLast, SocketTakes, Return, Goto
<1>2. new \in Parts /\ new # FIN
  BY <1>1 DEF Parts, FIN
<1>3. /\ wire' # <<>> /\ Len(wire') = n + 1 /\ wire'[n + 1] = new
      /\ DOMAIN wire' = 1 .. n + 1
      /\ \A j \in 1 .. n : wire'[j] = wire[j]
  <2>1. wire \in Seq(Parts)
    BY DEF TypeOK
  <2>2. wire' \in Seq(Parts)
    BY <1>1, <1>2, <2>1, AppendIsThere
  <2> QED  BY <1>1, <1>2, <2>1, <2>2, AppendIsThere, LenProperties
<1>4. \A v \in Writes : pc[v] = "writing" => v = w
  BY <1>1 DEF LockInv
<1>5. TailInv'
  BY <1>1, <1>3 DEF TailInv, LastPart
<1>6. WritingInv'
  BY <1>1, <1>3, <1>4 DEF WireInv, WritingInv, LastPart
<1>7. FinInv'
  <2>1. \A i \in 1 .. n : wire[i] # FIN
    BY <1>1 DEF WireInv, FinInv
  <2> QED  BY <1>2, <1>3, <2>1 DEF FinInv
<1>8. WellFramed'
  <2>1. ASSUME n > 0 PROVE Follows(wire[n], new)
    <3>1. wire # <<>> /\ sent[w] \in Nat
      BY <2>1
    <3>2. CASE sent[w] > 0
      <4>1. wire[n] = [call |-> w, part |-> sent[w]]
        BY <1>1, <3>2 DEF WireInv, WritingInv, LastPart
      <4> QED  BY <3>1, <3>2, <4>1 DEF Follows
    <3>3. CASE ~(sent[w] > 0)
      <4>1. broken \/ wire = <<>> \/ wire[n].part = Chunks
        BY <1>1, <3>3 DEF WireInv, WritingInv, LastPart
      <4>2. wire[n].part = Chunks
        BY <1>1, <3>1, <4>1
      <4>3. new.part = 1
        BY <3>1, <3>3
      <4> QED  BY <4>2, <4>3 DEF Follows
    <3> QED  BY <3>2, <3>3
  <2>2. n = 0 => new.part = 1
    BY <1>1 DEF WireInv, WritingInv
  <2>3. wire'[1] = FIN \/ wire'[1].part = 1
    BY <1>3, <2>2 DEF WireInv, WellFramed
  <2>4. ASSUME NEW i \in 1 .. n PROVE Follows(wire'[i], wire'[i + 1])
    <3>1. CASE i = n
      BY <1>3, <2>1, <3>1
    <3>2. CASE i # n
      <4>n. n \in Nat
        OBVIOUS
      <4> HIDE WireFacts DEF n
      <4>0. i \in 1 .. n - 1 /\ i + 1 \in 1 .. n
        BY <3>2, <4>n
      <4> USE WireFacts DEF n
      <4>1. Follows(wire[i], wire[i + 1])
        BY <4>0 DEF WireInv, WellFramed
      <4>2. wire'[i] = wire[i] /\ wire'[i + 1] = wire[i + 1]
        BY <1>3, <4>0
      <4> QED  BY <4>1, <4>2 DEF Follows
    <3> QED  BY <3>1, <3>2
  <2> QED  BY <1>3, <2>3, <2>4 DEF WellFramed
<1> QED  BY <1>5, <1>6, <1>7, <1>8 DEF WireInv

LEMMA ShutdownDoneStep ==
    ASSUME TypeOK, LockInv, CloseInv, WireInv, NEW c \in Closes, ShutdownDone(c)
    PROVE  WireInv'
<1> USE WireFacts
<1> DEFINE n == Len(wire)
<1>1. /\ pc[c] = "shutting" /\ pc' = [pc EXCEPT ![c] = "done"]
      /\ wire' = Append(wire, FIN) /\ sent' = sent
      /\ closed' = closed /\ cancelled' = cancelled /\ broken' = broken
  BY DEF ShutdownDone, Return, Goto
<1>2. /\ wire' # <<>> /\ Len(wire') = n + 1 /\ wire'[n + 1] = FIN
      /\ DOMAIN wire' = 1 .. n + 1
      /\ \A j \in 1 .. n : wire'[j] = wire[j]
  <2>1. wire \in Seq(Parts) /\ FIN \in Parts
    BY DEF TypeOK, Parts
  <2>2. wire' \in Seq(Parts)
    BY <1>1, <2>1, AppendIsThere
  <2> QED  BY <1>1, <2>1, <2>2, AppendIsThere, LenProperties
<1>3. closed /\ cancelled /\ \A d \in Closes : Closing(d) => d = c
  BY <1>1 DEF CloseInv, Closing
<1>4. \A v \in Writes : pc[v] # "writing"
  BY <1>1 DEF LockInv
<1>5. TailInv'
  BY <1>1, <1>3 DEF TailInv
<1>6. WritingInv'
  BY <1>1, <1>4 DEF WireInv, WritingInv
<1>7. FinInv'
  <2>1. \A i \in 1 .. n : wire[i] # FIN
    BY <1>1 DEF WireInv, FinInv, Closing
  <2> QED  BY <1>1, <1>2, <1>3, <1>4, <2>1 DEF FinInv, Closing
<1>8. WellFramed'
  <2>1. wire'[1] = FIN \/ wire'[1].part = 1
    BY <1>2 DEF WireInv, WellFramed
  <2>2. ASSUME NEW i \in 1 .. n PROVE Follows(wire'[i], wire'[i + 1])
    <3>1. CASE i = n
      BY <1>2, <3>1 DEF Follows
    <3>2. CASE i # n
      <4>n. n \in Nat
        OBVIOUS
      <4> HIDE WireFacts DEF n
      <4>0. i \in 1 .. n - 1 /\ i + 1 \in 1 .. n
        BY <3>2, <4>n
      <4> USE WireFacts DEF n
      <4>1. Follows(wire[i], wire[i + 1])
        BY <4>0 DEF WireInv, WellFramed
      <4>2. wire'[i] = wire[i] /\ wire'[i + 1] = wire[i + 1]
        BY <1>2, <4>0
      <4> QED  BY <4>1, <4>2 DEF Follows
    <3> QED  BY <3>1, <3>2
  <2> QED  BY <1>2, <2>1, <2>2 DEF WellFramed
<1> QED  BY <1>5, <1>6, <1>7, <1>8 DEF WireInv

LEMMA NextWire ==
    TypeOK /\ LockInv /\ CloseInv /\ WireInv /\ [Next]_vars => WireInv'
<1> SUFFICES ASSUME TypeOK, LockInv, CloseInv, WireInv, [Next]_vars
             PROVE  WireInv'
  OBVIOUS
<1>w. ASSUME NEW w \in Writes, WriteTask(w) \/ WriteOutside(w) PROVE WireInv'
  <2>0. w \in Calls /\ w \notin Closes
    BY WireFacts
  <2>1. CASE Enqueue(w) \/ Acquire(w)
    <3>1. CASE Enqueue(w)
      BY <2>0, <3>1, QuietStep DEF Enqueue, Goto
    <3>2. CASE Acquire(w)
      BY <2>0, <3>2, QuietStep DEF Acquire, Goto
    <3> QED  BY <2>1, <3>1, <3>2
  <2>2. CASE WriteLockTimeout(w) \/ WriteRefused(w) \/ RecheckFails(w)
    BY <2>0, <2>2, QuietStep DEF WriteLockTimeout, WriteRefused, RecheckFails, Return, Goto
  <2>3. CASE WriteStart(w)
    BY <2>0, <2>3, QuietStep DEF WriteStart, Goto
  <2>4. CASE BeginWrite(w)
    BY <2>4, BeginWriteStep
  <2>5. CASE WritePart(w) \/ WriteLast(w)
    BY <2>5, SocketTakesStep
  <2>6. CASE WriteTimeout(w) \/ WriteError(w)
    BY <2>0, <2>6, QuietStep DEF WriteTimeout, WriteError, Return, Goto
  <2> QED  BY <1>w, <2>1, <2>2, <2>3, <2>4, <2>5, <2>6 DEF WriteTask, WriteOutside
<1>c. ASSUME NEW c \in Closes, CloseTask(c) \/ CloseOutside(c) PROVE WireInv'
  <2>0. c \in Calls
    BY WireFacts
  <2>1. CASE Enqueue(c) \/ Acquire(c) \/ CloseFirst(c)
    <3>1. CASE Enqueue(c)
      BY <2>0, <3>1, QuietStep DEF Enqueue, Goto
    <3>2. CASE Acquire(c)
      BY <2>0, <3>2, QuietStep DEF Acquire, Goto
    <3>3. CASE CloseFirst(c)
      BY <2>0, <3>3, QuietStep DEF CloseFirst, Goto
    <3> QED  BY <2>1, <3>1, <3>2, <3>3
  <2>2. CASE CloseLockTimeout(c) \/ CloseAgain(c)
    BY <2>0, <2>2, QuietStep DEF CloseLockTimeout, CloseAgain, Return, Goto
  <2>3. CASE CloseCancel(c)
    BY <2>0, <2>3, QuietStep DEF CloseCancel, Goto
  <2>4. CASE ShutdownError(c) \/ ShutdownTimeout(c)
    BY <2>0, <2>4, QuietStep DEF ShutdownError, ShutdownTimeout, Return, Goto
  <2>5. CASE ShutdownDone(c)
    BY <2>5, ShutdownDoneStep
  <2> QED  BY <1>c, <2>1, <2>2, <2>3, <2>4, <2>5 DEF CloseTask, CloseOutside
<1>s. CASE UNCHANGED vars
  BY <1>s DEF vars, WireInv, TailInv, WritingInv, FinInv, WellFramed, LastPart, Closing
<1> QED  BY <1>w, <1>c, <1>s DEF Next, Finished

-----------------------------------------------------------------------------
(* The theorems *)

LEMMA InitInv == Init => ConnInv
<1> SUFFICES ASSUME Init PROVE ConnInv
  OBVIOUS
<1>1. TypeOK
  BY InitTypeOK
<1>2. wire = <<>> /\ Len(wire) = 0
  BY EmptySeq DEF Init
<1> QED  BY <1>1, <1>2, ConnAssumption
         DEF Init, ConnInv, LockInv, CloseInv, ClosedIsCancelled, Closing, TailInv,
             WritingInv, FinInv, WellFramed, Calls, ConnAssumption

LEMMA NextInv == ConnInv /\ [Next]_vars => ConnInv'
  BY NextTypeOK, NextLock, NextWire DEF ConnInv, WireInv

\* ConnInv holds in every reachable state.
THEOREM Inductive == Spec => []ConnInv
  BY InitInv, NextInv, PTL DEF Spec

\* Frames of concurrent writers never interleave, and a cut frame is followed by
\* nothing but the end, however many writers and closers there are.
THEOREM FramesStayWhole == Spec => []WellFramed
<1>1. ConnInv => WellFramed
  BY DEF ConnInv
<1> QED  BY <1>1, Inductive, PTL

\* The double check of write() and the once-only close() keep every byte before
\* the FIN.
THEOREM FinIsLast == Spec => []NothingAfterFin
<1>1. ConnInv => NothingAfterFin
  BY DEF ConnInv, FinInv, NothingAfterFin
<1> QED  BY <1>1, Inductive, PTL

\* Who waits for the close() that came first (Room: a listener, add_conn(), the
\* heartbeat) is released by nothing but a cancelled token.
THEOREM CloseCancels == Spec => []ClosedIsCancelled
<1>1. ConnInv => ClosedIsCancelled
  BY DEF ConnInv, CloseInv
<1> QED  BY <1>1, Inductive, PTL

-----------------------------------------------------------------------------
(* The refinement of FrameSink *)

LEMMA InitSink == Init => Sink!Init
<1> SUFFICES ASSUME Init PROVE Sink!Init
  OBVIOUS
<1>1. Delivered = {}
  BY ConnAssumption DEF Init, Delivered, ConnAssumption
<1>2. Answer = [c \in Calls |-> "none"]
  BY DEF Init, Answer
<1>3. ~IsClosing /\ ~IsShut
  BY DEF Init, IsClosing, IsShut
<1> QED  BY <1>1, <1>2, <1>3 DEF Sink!Init, Sink!Calls, Calls, IsClosing, IsShut

\* What a call is told changes where its program counter does.
LEMMA AnswerStep ==
    ASSUME TypeOK, NEW c \in Calls, NEW to,
           pc' = [pc EXCEPT ![c] = to],
           \A d \in Calls : d # c => result'[d] = result[d]
    PROVE  Answer' = [Answer EXCEPT ![c] = CASE to = "idle" -> "none"
                                             [] to = "done" -> result'[c]
                                             [] OTHER -> "pending"]
<1>1. \A d \in Calls : pc'[d] = IF d = c THEN to ELSE pc[d]
  BY DEF TypeOK
<1> QED  BY <1>1 DEF Answer

LEMMA SilentStep ==
    ASSUME TypeOK, NEW c \in Calls, NEW to, to \notin {"idle", "done"},
           pc[c] \notin {"idle", "done"},
           pc' = [pc EXCEPT ![c] = to], result' = result
    PROVE  Answer' = Answer
<1>1. \A d \in Calls : pc'[d] = IF d = c THEN to ELSE pc[d]
  BY DEF TypeOK
<1> QED  BY <1>1 DEF Answer

\* A write that ends without a frame: refused, timed out, or failed.
LEMMA FailStep ==
    ASSUME ConnInv, NEW w \in Writes,
           \/ WriteRefused(w) \/ WriteLockTimeout(w) \/ RecheckFails(w)
           \/ WriteTimeout(w) \/ WriteError(w)
    PROVE  Sink!Fail(w)
<1> USE DEF Return, Goto, IsClosing, IsShut
<1>1. TypeOK /\ w \in Calls /\ Calls = Writes \cup Closes
  BY DEF ConnInv, Calls
<1>2. /\ pc' = [pc EXCEPT ![w] = "done"]
      /\ \A d \in Calls : d # w => result'[d] = result[d]
  BY <1>1 DEF TypeOK, WriteRefused, WriteLockTimeout, RecheckFails, WriteTimeout, WriteError
<1>3. Answer' = [Answer EXCEPT ![w] = result'[w]]
  BY <1>1, <1>2, AnswerStep
<1>4. Answer[w] = CASE pc[w] = "idle" -> "none" [] pc[w] = "done" -> result[w]
                    [] OTHER -> "pending"
  BY <1>1 DEF Answer
<1>5. \A v \in Writes : pc'[v] = IF v = w THEN "done" ELSE pc[v]
  BY <1>1, <1>2 DEF TypeOK
<1>6. \A v \in Writes : pc[v] \in {"locked", "writing"} => holder = v
  BY <1>1 DEF ConnInv, LockInv
<1>7. Delivered' = Delivered
  BY DEF Delivered, WriteRefused, WriteLockTimeout, RecheckFails, WriteTimeout, WriteError
<1>8. CASE WriteRefused(w) \/ RecheckFails(w)
  <2>1. cancelled /\ UNCHANGED <<closed, cancelled, broken>> /\ result'[w] = "closed"
        /\ pc[w] \in {"idle", "locked"}
    BY <1>1, <1>8 DEF TypeOK, WriteRefused, RecheckFails
  <2> QED  BY <1>3, <1>4, <1>5, <1>7, <2>1 DEF Sink!Fail
<1>9. CASE WriteLockTimeout(w)
  <2>1. UNCHANGED <<closed, cancelled, broken>> /\ result'[w] = "timeout"
        /\ pc[w] = "waiting"
    BY <1>1, <1>9 DEF TypeOK, WriteLockTimeout
  <2> QED  BY <1>3, <1>4, <1>5, <1>7, <2>1 DEF Sink!Fail
<1>10. CASE WriteTimeout(w)
  <2>1. cancelled' /\ result'[w] = "timeout" /\ pc[w] = "writing"
    BY <1>1, <1>10 DEF TypeOK, WriteTimeout
  <2> QED  BY <1>3, <1>4, <1>5, <1>6, <1>7, <2>1 DEF Sink!Fail
<1>11. CASE WriteError(w)
  <2>1. broken' /\ UNCHANGED <<closed, cancelled>> /\ result'[w] = "error"
        /\ pc[w] = "writing"
    BY <1>1, <1>11 DEF TypeOK, WriteError
  <2> QED  BY <1>3, <1>4, <1>7, <2>1 DEF Sink!Fail
<1> QED  BY <1>8, <1>9, <1>10, <1>11

LEMMA DeliverStep ==
    ASSUME ConnInv, NEW w \in Writes, WriteLast(w)
    PROVE  Sink!Deliver(w)
<1> USE DEF Return, Goto, IsClosing, IsShut
<1>1. TypeOK /\ w \in Calls /\ Calls = Writes \cup Closes /\ Chunks \in Nat \ {0}
  BY ConnAssumption DEF ConnInv, Calls, ConnAssumption
<1>2. /\ pc[w] = "writing" /\ pc' = [pc EXCEPT ![w] = "done"] /\ result'[w] = "ok"
      /\ \A d \in Calls : d # w => result'[d] = result[d]
      /\ sent' = [sent EXCEPT ![w] = Chunks] /\ ~broken
      /\ UNCHANGED <<closed, cancelled, broken>>
  BY <1>1 DEF TypeOK, WriteLast, SocketTakes
<1>3. Answer' = [Answer EXCEPT ![w] = "ok"]
  BY <1>1, <1>2, AnswerStep
<1>4. Answer[w] = "pending"
  BY <1>1, <1>2 DEF Answer
<1>5. Delivered' = Delivered \cup {w}
  BY <1>1, <1>2 DEF TypeOK, Delivered
<1>6. IsShut' \in BOOLEAN /\ (IsShut' => IsClosing) /\ ~IsShut /\ IsClosing' = IsClosing
  BY <1>1, <1>2 DEF TypeOK
<1> QED  BY <1>2, <1>3, <1>4, <1>5, <1>6 DEF Sink!Deliver

LEMMA AcceptStep ==
    ASSUME ConnInv, NEW c \in Calls,
           (c \in Writes /\ WriteStart(c)) \/ (c \in Closes /\ CloseFirst(c))
    PROVE  Sink!Accept(c)
<1> USE DEF Goto, IsClosing, IsShut
<1>1. TypeOK /\ Calls = Writes \cup Closes /\ Writes \cap Closes = {}
  BY ConnAssumption DEF ConnInv, Calls, ConnAssumption
<1>2. /\ pc[c] = "idle" /\ pc' = [pc EXCEPT ![c] = "enqueue"] /\ result' = result
      /\ UNCHANGED <<cancelled, broken, sent>>
      /\ closed' = (closed \/ c \in Closes)
  BY <1>1 DEF TypeOK, WriteStart, CloseFirst
<1>3. Answer' = [Answer EXCEPT ![c] = "pending"]
  <2>1. \A d \in Calls : pc'[d] = IF d = c THEN "enqueue" ELSE pc[d]
    BY <1>1, <1>2 DEF TypeOK
  <2>2. \A d \in Calls : Answer'[d] = IF d = c THEN "pending" ELSE Answer[d]
    BY <1>2, <2>1 DEF Answer
  <2> QED  BY <2>2 DEF Answer
<1>4. Answer[c] = "none"
  BY <1>2 DEF Answer
<1>5. \A v \in Writes : pc'[v] = "writing" <=> pc[v] = "writing"
  BY <1>1, <1>2 DEF TypeOK
<1>6. IsShut' = IsShut
  <2>1. IsShut' <=> IsShut
    BY <1>2, <1>5
  <2> QED  BY <1>1, <2>1, <1>2 DEF TypeOK
<1>7. Delivered' = Delivered
  BY <1>2 DEF Delivered
<1>8. IsClosing' = (IsClosing \/ c \in Closes)
  BY <1>1, <1>2 DEF TypeOK
<1> QED  BY <1>3, <1>4, <1>6, <1>7, <1>8 DEF Sink!Accept

LEMMA CloseReturnsStep ==
    ASSUME ConnInv, NEW c \in Closes,
           \/ CloseAgain(c) \/ CloseLockTimeout(c)
           \/ ShutdownDone(c) \/ ShutdownError(c) \/ ShutdownTimeout(c)
    PROVE  Sink!CloseReturns(c)
<1> USE DEF Return, Goto
<1>1. TypeOK /\ c \in Calls /\ Calls = Writes \cup Closes /\ c \notin Writes
  BY ConnAssumption DEF ConnInv, Calls, ConnAssumption
<1>2. /\ pc' = [pc EXCEPT ![c] = "done"] /\ result'[c] \in {"ok", "error"}
      /\ \A d \in Calls : d # c => result'[d] = result[d]
      /\ pc[c] \in {"idle", "waiting", "shutting"}
      /\ (cancelled => cancelled') /\ (broken => broken')
      /\ closed' = closed /\ sent' = sent
  BY <1>1 DEF TypeOK, CloseAgain, CloseLockTimeout, ShutdownDone, ShutdownError,
              ShutdownTimeout
<1>3. closed
  BY DEF ConnInv, CloseInv, Closing, CloseAgain, CloseLockTimeout, ShutdownDone,
         ShutdownError, ShutdownTimeout
<1>4. Answer' = [Answer EXCEPT ![c] = result'[c]]
  BY <1>1, <1>2, AnswerStep
<1>5. Answer[c] \in {"none", "pending"}
  BY <1>1, <1>2 DEF Answer
<1>6. \A v \in Writes : pc'[v] = pc[v]
  BY <1>1, <1>2 DEF TypeOK
<1>7. IsShut' \in {IsShut, TRUE}
  BY <1>1, <1>2, <1>6, NextTypeOK DEF TypeOK, IsShut, CloseAgain, CloseLockTimeout,
     ShutdownDone, ShutdownError, ShutdownTimeout
<1>8. IsClosing' = TRUE /\ IsClosing = TRUE /\ Delivered' = Delivered
  BY <1>2, <1>3 DEF IsClosing, Delivered
<1> QED  BY <1>2, <1>4, <1>5, <1>7, <1>8 DEF Sink!CloseReturns

\* The steps a caller does not see: queueing, taking the mutex, a part of a
\* frame, a write let in.
LEMMA SilentSteps ==
    ASSUME ConnInv, NEW c \in Calls,
           \/ Enqueue(c) \/ Acquire(c)
           \/ c \in Writes /\ (BeginWrite(c) \/ WritePart(c))
    PROVE  UNCHANGED <<Delivered, Answer, IsClosing, IsShut>>
<1> USE DEF Goto
<1>1. TypeOK /\ Calls = Writes \cup Closes /\ Chunks \in Nat \ {0}
  BY ConnAssumption DEF ConnInv, Calls, ConnAssumption
<1>2. CASE Enqueue(c) \/ Acquire(c)
  <2>1. /\ pc[c] \in {"enqueue", "waiting"}
        /\ \E to \in {"waiting", "locked"} : pc' = [pc EXCEPT ![c] = to]
        /\ UNCHANGED <<result, sent, closed, cancelled, broken>>
    BY <1>2 DEF Enqueue, Acquire
  <2>2. \A v \in Calls : pc'[v] = "writing" <=> pc[v] = "writing"
    BY <1>1, <2>1 DEF TypeOK
  <2>3. Answer' = Answer
    BY <2>1, <1>1, SilentStep
  <2>4. IsShut' <=> IsShut
    BY <1>1, <2>1, <2>2 DEF IsShut
  <2> QED  BY <1>1, <2>1, <2>3, <2>4 DEF Delivered, IsClosing, IsShut, TypeOK
<1>3. CASE c \in Writes /\ BeginWrite(c)
  <2>1. /\ pc[c] = "locked" /\ pc' = [pc EXCEPT ![c] = "writing"] /\ ~cancelled
        /\ UNCHANGED <<result, sent, closed, cancelled, broken>>
    BY <1>3 DEF BeginWrite
  <2>2. Answer' = Answer
    BY <2>1, <1>1, SilentStep
  <2>3. IsShut' <=> IsShut
    BY <2>1 DEF IsShut
  <2> QED  BY <1>1, <2>1, <2>2, <2>3 DEF Delivered, IsClosing, IsShut, TypeOK
<1>4. CASE c \in Writes /\ WritePart(c)
  <2>1. /\ UNCHANGED <<pc, result, closed, cancelled, broken>>
        /\ sent[c] + 1 < Chunks /\ sent' = [sent EXCEPT ![c] = sent[c] + 1]
    BY <1>4 DEF WritePart, SocketTakes
  <2>2. Delivered' = Delivered
    BY <1>1, <2>1 DEF Delivered, TypeOK
  <2> QED  BY <2>1, <2>2 DEF Answer, IsClosing, IsShut
<1> QED  BY <1>2, <1>3, <1>4

LEMMA CloseCancelStep ==
    ASSUME ConnInv, NEW c \in Closes, CloseCancel(c)
    PROVE  Sink!Shut \/ UNCHANGED <<Delivered, Answer, IsClosing, IsShut>>
<1>1. TypeOK /\ c \in Calls /\ Calls = Writes \cup Closes /\ c \notin Writes
  BY ConnAssumption DEF ConnInv, Calls, ConnAssumption
<1>2. /\ pc[c] = "locked" /\ pc' = [pc EXCEPT ![c] = "shutting"] /\ cancelled' = TRUE
      /\ UNCHANGED <<result, sent, closed, broken>>
  BY DEF CloseCancel, Goto
<1>3. closed /\ IsClosing' = TRUE /\ IsClosing = TRUE
  BY <1>1, <1>2 DEF ConnInv, CloseInv, Closing, IsClosing, TypeOK
<1>4. \A v \in Writes : pc'[v] # "writing"
  BY <1>1, <1>2 DEF ConnInv, LockInv, TypeOK
<1>5. Answer' = Answer
  BY <1>1, <1>2, SilentStep
<1>6. Delivered' = Delivered
  BY <1>2 DEF Delivered
<1>7. IsShut' = TRUE
  BY <1>2, <1>4 DEF IsShut
<1>8. IsShut \in BOOLEAN
  BY <1>1 DEF IsShut, TypeOK
<1> QED  BY <1>3, <1>5, <1>6, <1>7, <1>8 DEF Sink!Shut

LEMMA NextSink == ConnInv /\ [Next]_vars => [Sink!Next]_<<Delivered, Answer, IsClosing, IsShut>>
<1> SUFFICES ASSUME ConnInv, [Next]_vars
             PROVE  Sink!Next \/ UNCHANGED <<Delivered, Answer, IsClosing, IsShut>>
  OBVIOUS
<1>1. Calls = Writes \cup Closes /\ Sink!Calls = Calls
  BY DEF Calls, Sink!Calls
<1>w. ASSUME NEW w \in Writes, WriteTask(w) \/ WriteOutside(w)
      PROVE  Sink!Next \/ UNCHANGED <<Delivered, Answer, IsClosing, IsShut>>
  <2>1. CASE Enqueue(w) \/ Acquire(w) \/ BeginWrite(w) \/ WritePart(w)
    BY <1>1, <2>1, SilentSteps
  <2>2. CASE \/ WriteRefused(w) \/ WriteLockTimeout(w) \/ RecheckFails(w)
             \/ WriteTimeout(w) \/ WriteError(w)
    BY <1>1, <2>2, FailStep DEF Sink!Next
  <2>3. CASE WriteLast(w)
    BY <1>1, <2>3, DeliverStep DEF Sink!Next
  <2>4. CASE WriteStart(w)
    BY <1>1, <2>4, AcceptStep DEF Sink!Next
  <2> QED  BY <1>w, <2>1, <2>2, <2>3, <2>4 DEF WriteTask, WriteOutside
<1>c. ASSUME NEW c \in Closes, CloseTask(c) \/ CloseOutside(c)
      PROVE  Sink!Next \/ UNCHANGED <<Delivered, Answer, IsClosing, IsShut>>
  <2>1. CASE Enqueue(c) \/ Acquire(c)
    BY <1>1, <2>1, SilentSteps
  <2>2. CASE CloseCancel(c)
    BY <2>2, CloseCancelStep DEF Sink!Next
  <2>3. CASE CloseFirst(c)
    BY <1>1, <2>3, AcceptStep DEF Sink!Next
  <2>4. CASE \/ CloseAgain(c) \/ CloseLockTimeout(c)
             \/ ShutdownDone(c) \/ ShutdownError(c) \/ ShutdownTimeout(c)
    BY <1>1, <2>4, CloseReturnsStep DEF Sink!Next
  <2> QED  BY <1>c, <2>1, <2>2, <2>3, <2>4 DEF CloseTask, CloseOutside
<1>s. CASE UNCHANGED vars
  BY <1>s DEF vars, Delivered, Answer, IsClosing, IsShut
<1> QED  BY <1>w, <1>c, <1>s DEF Next, Finished

\* A TcpConn is a FrameSink: a write that returns Ok delivered its frame whole,
\* one that returns an error did not, and nothing is delivered after the end.
THEOREM Refinement == Spec => ImplementsSink
  BY InitSink, NextSink, Inductive, PTL DEF Spec, ImplementsSink, Sink!SafeSpec, Sink!sinkVars
=============================================================================
