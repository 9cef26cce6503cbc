-------------------------------- MODULE Conn --------------------------------
(***************************************************************************)
(* fernqd/src/server/conn.rs: one TcpConn shared by its clones.  Every     *)
(* call of write() and close() is a task of its own with a program         *)
(* counter; the tasks meet at the writer's FIFO mutex, the cancellation    *)
(* token and the closed flag.  A frame reaches the socket in Chunks parts  *)
(* (write_all may need several writes), so a write that stops half-way     *)
(* leaves a cut frame.  A definition marked "variant" is a plausible slip  *)
(* in the one after it: no action of the specification, but what a         *)
(* property must be able to tell from the code.                            *)
(***************************************************************************)
EXTENDS Naturals, Sequences, SequencesExt

CONSTANTS Writes,   (* the calls of write(), one frame each              *)
          Closes,   (* the calls of close()                              *)
          Chunks,   (* the parts a frame is cut into by the socket       *)
          NoCall    (* nobody: a free mutex, and the sender of a FIN     *)

Calls == Writes \cup Closes

ASSUME ConnAssumption == /\ Chunks \in Nat \ {0}
                         /\ Writes \cap Closes = {}
                         /\ NoCall \notin Calls

VARIABLES pc,         (* where each call is                              *)
          result,     (* what each call returned                         *)
          closed,     (* AtomicBool of line 67                           *)
          cancelled,  (* the CancellationToken of line 58                *)
          holder,     (* the call that holds the writer's mutex          *)
          waiters,    (* the calls queued for it, first come first served*)
          wire,       (* what was handed to the socket, in order         *)
          sent,       (* how many parts of each frame the socket took    *)
          broken      (* the socket has failed: every later write fails  *)

vars == <<pc, result, closed, cancelled, holder, waiters, wire, sent, broken>>

FIN == [call |-> NoCall, part |-> 0]

Init == /\ pc = [c \in Calls |-> "idle"]
        /\ result = [c \in Calls |-> "none"]
        /\ closed = FALSE
        /\ cancelled = FALSE
        /\ holder = NoCall
        /\ waiters = <<>>
        /\ wire = <<>>
        /\ sent = [w \in Writes |-> 0]
        /\ broken = FALSE

-----------------------------------------------------------------------------
Goto(c, from, to) == /\ pc[c] = from
                     /\ pc' = [pc EXCEPT ![c] = to]

Return(c, from, r) == /\ Goto(c, from, "done")
                      /\ result' = [result EXCEPT ![c] = r]

\* writer.lock(): the mutex is fair, so the first in the queue gets it.
MyTurn(c) == holder = NoCall /\ waiters # <<>> /\ Head(waiters) = c

Enqueue(c) ==
    /\ Goto(c, "enqueue", "waiting")
    /\ waiters' = Append(waiters, c)
    /\ UNCHANGED <<result, closed, cancelled, holder, wire, sent, broken>>

Acquire(c) ==
    /\ MyTurn(c)
    /\ Goto(c, "waiting", "locked")
    /\ holder' = c
    /\ waiters' = Tail(waiters)
    /\ UNCHANGED <<result, closed, cancelled, wire, sent, broken>>

\* timeout() looks at the lock before the clock: a call that has been handed
\* the mutex does not time out.
GiveUpLock(c) ==
    /\ ~MyTurn(c)
    /\ \E i \in DOMAIN waiters : /\ waiters[i] = c
                                 /\ waiters' = RemoveAt(waiters, i)

Release == holder' = NoCall

-----------------------------------------------------------------------------
(* write() *)

\* The fast path: a closed connection is refused without the lock.
WriteRefused(w) ==
    /\ cancelled
    /\ Return(w, "idle", "closed")
    /\ UNCHANGED <<closed, cancelled, holder, waiters, wire, sent, broken>>

WriteStart(w) ==
    /\ ~cancelled
    /\ Goto(w, "idle", "enqueue")
    /\ UNCHANGED <<result, closed, cancelled, holder, waiters, wire, sent, broken>>

WriteLockTimeout(w) ==
    /\ GiveUpLock(w)
    /\ Return(w, "waiting", "timeout")
    /\ UNCHANGED <<closed, cancelled, holder, wire, sent, broken>>

\* The second check, with the lock held.
RecheckFails(w) ==
    /\ cancelled
    /\ Return(w, "locked", "closed")
    /\ Release
    /\ UNCHANGED <<closed, cancelled, waiters, wire, sent, broken>>

\* (variant: the second check is forgotten)
BeginWriteUnchecked(w) ==
    /\ Goto(w, "locked", "writing")
    /\ UNCHANGED <<result, closed, cancelled, holder, waiters, wire, sent, broken>>

BeginWrite(w) ==
    /\ ~cancelled
    /\ Goto(w, "locked", "writing")
    /\ UNCHANGED <<result, closed, cancelled, holder, waiters, wire, sent, broken>>

SocketTakes(w) ==
    /\ ~broken
    /\ wire' = Append(wire, [call |-> w, part |-> sent[w] + 1])
    /\ sent' = [sent EXCEPT ![w] = @ + 1]

WritePart(w) ==
    /\ pc[w] = "writing"
    /\ sent[w] + 1 < Chunks
    /\ SocketTakes(w)
    /\ UNCHANGED <<pc, result, closed, cancelled, holder, waiters, broken>>

WriteLast(w) ==
    /\ sent[w] + 1 = Chunks
    /\ SocketTakes(w)
    /\ Return(w, "writing", "ok")
    /\ Release
    /\ UNCHANGED <<closed, cancelled, waiters, broken>>

\* (variant: the error is swallowed)
WriteErrorSwallowed(w) ==
    /\ Return(w, "writing", "ok")
    /\ Release
    /\ broken' = TRUE
    /\ UNCHANGED <<closed, cancelled, waiters, wire, sent>>

\* write_all fails: the error is returned, the token is left alone.
WriteError(w) ==
    /\ Return(w, "writing", "error")
    /\ Release
    /\ broken' = TRUE
    /\ UNCHANGED <<closed, cancelled, waiters, wire, sent>>

\* (variants: a timeout that leaves the token alone; a write_all without one)
WriteTimeoutNoCancel(w) ==
    /\ Return(w, "writing", "timeout")
    /\ Release
    /\ UNCHANGED <<closed, cancelled, waiters, wire, sent, broken>>

WriteTimeoutNever(w) == w = NoCall /\ UNCHANGED vars

WriteTimeout(w) ==
    /\ Return(w, "writing", "timeout")
    /\ Release
    /\ cancelled' = TRUE
    /\ UNCHANGED <<closed, waiters, wire, sent, broken>>

-----------------------------------------------------------------------------
(* close() *)

CloseAgain(c) ==
    /\ closed
    /\ Return(c, "idle", "ok")
    /\ UNCHANGED <<closed, cancelled, holder, waiters, wire, sent, broken>>

\* (variant: the flag is set without a look at its old value)
CloseFirstAlways(c) ==
    /\ closed' = TRUE
    /\ Goto(c, "idle", "enqueue")
    /\ UNCHANGED <<result, cancelled, holder, waiters, wire, sent, broken>>

CloseFirst(c) ==
    /\ ~closed
    /\ closed' = TRUE
    /\ Goto(c, "idle", "enqueue")
    /\ UNCHANGED <<result, cancelled, holder, waiters, wire, sent, broken>>

\* (variant: giving up without the forced cancel)
CloseLockTimeoutNoCancel(c) ==
    /\ GiveUpLock(c)
    /\ Return(c, "waiting", "ok")
    /\ UNCHANGED <<closed, cancelled, holder, wire, sent, broken>>

CloseLockTimeout(c) ==
    /\ GiveUpLock(c)
    /\ cancelled' = TRUE
    /\ Return(c, "waiting", "ok")
    /\ UNCHANGED <<closed, holder, wire, sent, broken>>

CloseCancel(c) ==
    /\ cancelled' = TRUE
    /\ Goto(c, "locked", "shutting")
    /\ UNCHANGED <<result, closed, holder, waiters, wire, sent, broken>>

ShutdownDone(c) ==
    /\ ~broken
    /\ wire' = Append(wire, FIN)
    /\ Return(c, "shutting", "ok")
    /\ Release
    /\ UNCHANGED <<closed, cancelled, waiters, sent, broken>>

ShutdownError(c) ==
    /\ Return(c, "shutting", "error")
    /\ Release
    /\ broken' = TRUE
    /\ UNCHANGED <<closed, cancelled, waiters, wire, sent>>

ShutdownTimeout(c) ==
    /\ Return(c, "shutting", "ok")
    /\ Release
    /\ UNCHANGED <<closed, cancelled, waiters, wire, sent, broken>>

-----------------------------------------------------------------------------
\* What the call itself does once started, its timeouts included ...
WriteTask(w) == \/ Enqueue(w) \/ Acquire(w) \/ WriteLockTimeout(w)
                \/ RecheckFails(w) \/ BeginWrite(w) \/ WriteTimeout(w)

CloseTask(c) == \/ Enqueue(c) \/ Acquire(c) \/ CloseLockTimeout(c)
                \/ CloseCancel(c) \/ ShutdownTimeout(c)

\* ... and what its caller and the socket decide.
WriteOutside(w) == \/ WriteRefused(w) \/ WriteStart(w)
                   \/ WritePart(w) \/ WriteLast(w) \/ WriteError(w)

CloseOutside(c) == \/ CloseAgain(c) \/ CloseFirst(c)
                   \/ ShutdownDone(c) \/ ShutdownError(c)

Finished == /\ \A c \in Calls : pc[c] \in {"idle", "done"}
            /\ UNCHANGED vars

Next == \/ \E w \in Writes : WriteTask(w) \/ WriteOutside(w)
        \/ \E c \in Closes : CloseTask(c) \/ CloseOutside(c)
        \/ Finished

\* The runtime keeps polling a started call and its timers fire; nothing is
\* assumed of callers that have not called, nor of the socket.
Fairness == /\ \A w \in Writes : WF_vars(WriteTask(w))
            /\ \A c \in Closes : WF_vars(CloseTask(c))

Spec == Init /\ [][Next]_vars
FairSpec == Spec /\ Fairness
-----------------------------------------------------------------------------
(* What must hold *)

Parts == [call : Writes, part : 1..Chunks] \cup {FIN}

\* Every variable has the shape the code gives it.
TypeOK ==
    /\ pc \in [Calls -> {"idle", "enqueue", "waiting", "locked", "writing",
                         "shutting", "done"}]
    /\ result \in [Calls -> {"none", "ok", "closed", "timeout", "error"}]
    /\ closed \in BOOLEAN /\ cancelled \in BOOLEAN /\ broken \in BOOLEAN
    /\ holder \in Calls \cup {NoCall}
    /\ waiters \in Seq(Calls)
    /\ wire \in Seq(Parts)
    /\ sent \in [Writes -> 0..Chunks]

\* y may come right after x on the wire: the next part of the same frame, the
\* first part of a frame after a whole one, or the end.
Follows(x, y) == \/ y = FIN
                 \/ y.part = 1 /\ x.part = Chunks
                 \/ y.part > 1 /\ y.call = x.call /\ y.part = x.part + 1

\* "Mutex keeps the frames of concurrent writers from interleaving" (lines 49,
\* 246): a peer that reads the wire always finds the frames whole and one
\* after the other, up to one cut frame that nothing but a FIN follows.
WellFramed ==
    /\ wire # <<>> => wire[1] = FIN \/ wire[1].part = 1
    /\ \A i \in 1 .. Len(wire) - 1 : Follows(wire[i], wire[i + 1])

\* Lines 180-181: one close runs and no write gets past it, so the FIN is the
\* last thing the socket is given.
NothingAfterFin ==
    \A i \in DOMAIN wire : wire[i] = FIN => i = Len(wire)

\* Inside the mutex there is its holder and nobody else.
LockInv ==
    /\ holder # NoCall => pc[holder] \in {"locked", "writing", "shutting"}
    /\ \A c \in Calls :
          pc[c] \in {"locked", "writing", "shutting"} => holder = c

Closing(c) == pc[c] \notin {"idle", "done"}

\* What the tasks of a room rely on that wait for close() (Room): the first one
\* returns only when the token is cancelled, whichever way it went.
ClosedIsCancelled == closed => cancelled \/ \E c \in Closes : Closing(c)

\* Line 167, "runs once only": the first close() is the only one that goes on.
CloseInv ==
    /\ ClosedIsCancelled
    /\ \A c \in Closes : Closing(c) => closed
    /\ \A c, d \in Closes : Closing(c) /\ Closing(d) => c = d
    /\ \A c \in Closes : pc[c] # "writing" /\ (pc[c] = "shutting" => cancelled)
    /\ \A w \in Writes : pc[w] # "shutting"

LastPart == wire[Len(wire)]

\* A frame that is not whole is being written, or the connection is lost.
TailInv ==
    wire # <<>> /\ LastPart.part < Chunks =>
        \/ cancelled \/ broken
        \/ /\ LastPart.call \in Writes
           /\ pc[LastPart.call] = "writing"

\* A writer continues its own frame, or starts after a whole one.
WritingInv ==
    \A w \in Writes :
        /\ pc[w] = "writing" =>
             /\ sent[w] < Chunks
             /\ IF sent[w] > 0
                THEN wire # <<>> /\ LastPart = [call |-> w, part |-> sent[w]]
                ELSE broken \/ wire = <<>> \/ LastPart.part = Chunks
        /\ pc[w] \in {"idle", "enqueue", "waiting", "locked"} => sent[w] = 0

\* After the FIN nobody is left who could write or shut down.
FinInv ==
    \A i \in DOMAIN wire : wire[i] = FIN =>
        /\ i = Len(wire)
        /\ closed /\ cancelled
        /\ \A c \in Closes : ~Closing(c)
        /\ \A w \in Writes : pc[w] # "writing"

\* The inductive invariant behind WellFramed and NothingAfterFin: each cut
\* frame has an owner in the mutex, or a token that keeps the others out.
ConnInv == /\ TypeOK /\ LockInv /\ CloseInv /\ TailInv /\ WritingInv
           /\ FinInv /\ WellFramed

-----------------------------------------------------------------------------
(* What the connection promises *)

Delivered == {w \in Writes : sent[w] = Chunks}
Answer == [c \in Calls |-> CASE pc[c] = "idle" -> "none"
                             [] pc[c] = "done" -> result[c]
                             [] OTHER -> "pending"]
IsClosing == closed \/ cancelled
IsShut == broken \/ (cancelled /\ \A w \in Writes : pc[w] # "writing")

Sink == INSTANCE FrameSink WITH delivered <- Delivered, answer <- Answer,
                                closing <- IsClosing, shut <- IsShut

\* Conn implements FrameSink: "ok" means the whole frame went out, a refused
\* or failed frame never does, and nothing goes out after the shutdown.
ImplementsSink == Sink!SafeSpec

\* Line 24: the 30 s timeouts on every blocking step let every call return,
\* whatever the peer does.
CallsReturn == Sink!EveryCallAnswered

\* Lines 170-177: once someone closes, the token is cancelled and the
\* connection shut, also when a stuck writer keeps the mutex.
CloseTakesEffect == Sink!ClosingEnds
=============================================================================
