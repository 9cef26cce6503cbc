------------------------------ MODULE Dispatch ------------------------------
(***************************************************************************)
(* fernqd/src/server/room.rs: the way of a frame through an open room.     *)
(* The listener of its source reads it and puts it into the channel of a   *)
(* worker chosen by its channel id; the worker looks its target up in the  *)
(* map and writes it, or answers 404 to the source.  Meanwhile connections *)
(* join, supersede one another, are cancelled and leave; how they do, and  *)
(* how the room closes, is in Room.  A write is what Conn promises: refused*)
(* by a cancelled connection, and else delivered whole or not at all.      *)
(* A definition marked "variant" is a plausible slip in the one after it.  *)
(***************************************************************************)
EXTENDS Frames, FiniteSets

CONSTANTS WorkerNumber,  (* a power of two, 32 in the server               *)
          Hash,          (* the number hash_u64 makes of a channel id      *)
          Cap,           (* the capacity of a worker's channel             *)
          NoConn

Workers == 0 .. WorkerNumber - 1

ASSUME DispatchAssumption == /\ WorkerNumber \in Nat \ {0}
                             /\ Hash \in [Channels -> Nat]
                             /\ Cap \in Nat \ {0}
                             /\ NoConn \notin Conns

VARIABLES conns,   (* DashMap, line 40                                     *)
          token,   (* TcpConn.cancel_token                                 *)
          lis,     (* each listener; "sending" waits for space in a channel*)
          read,    (* how many frames it has read                          *)
          chan,    (* the channel of each worker                           *)
          wk,      (* where each worker is ...                             *)
          hand,    (* ... with what task, if any ...                       *)
          target,  (* ... and for which connection                         *)
          log      (* what was written, by channel; nobody reads it        *)

lisVars == <<conns, token, lis, read>>
wkVars  == <<wk, hand, target>>
vars    == <<lisVars, chan, wkVars, log>>

Init == /\ conns = [n \in Names |-> NoConn]
        /\ token = [c \in Conns |-> FALSE]
        /\ lis = [c \in Conns |-> "new"]
        /\ read = [c \in Conns |-> 0]
        /\ chan = [w \in Workers |-> <<>>]
        /\ wk = [w \in Workers |-> "waiting"]
        /\ hand = [w \in Workers |-> <<>>]
        /\ target = [w \in Workers |-> NoConn]
        /\ log = [ch \in Channels |-> <<>>]

-----------------------------------------------------------------------------
(* The connections come and go *)

\* A newcomer takes the place of whoever has its name.
Join(c) ==
    /\ lis[c] = "new"
    /\ lis' = [lis EXCEPT ![c] = "reading"]
    /\ conns' = [conns EXCEPT ![NameOf[c]] = c]
    /\ UNCHANGED <<token, read, chan, wkVars, log>>

\* By its successor, by the heartbeat, or by a write that timed out.
Cancel(c) ==
    /\ lis[c] # "new"
    /\ ~token[c]
    /\ token' = [token EXCEPT ![c] = TRUE]
    /\ UNCHANGED <<conns, lis, read, chan, wkVars, log>>

Leave(c) ==
    /\ lis[c] = "reading"
    /\ lis' = [lis EXCEPT ![c] = "gone"]
    /\ conns' = [conns EXCEPT ![NameOf[c]] = IF @ = c THEN NoConn ELSE @]
    /\ token' = [token EXCEPT ![c] = TRUE]
    /\ UNCHANGED <<read, chan, wkVars, log>>

-----------------------------------------------------------------------------
(* listener() *)

\* (variant: the frames are dealt to the workers in turn)
WorkerInTurn(t) == t.n % WorkerNumber

\* assign_target_fast: hash & (n - 1) is hash % n, for n is a power of two.
WorkerFor(t) == Hash[Frame(t).chan] % WorkerNumber

Held(c) == [conn |-> c, n |-> read[c]]

Read(c) ==
    /\ lis[c] = "reading"
    /\ ~token[c]
    /\ read[c] < Len(Script[c])
    /\ lis' = [lis EXCEPT ![c] = "sending"]
    /\ read' = [read EXCEPT ![c] = @ + 1]
    /\ UNCHANGED <<conns, token, chan, wkVars, log>>

Sent(c) == /\ lis[c] = "sending"
           /\ lis' = [lis EXCEPT ![c] = "reading"]
           /\ UNCHANGED <<conns, token, read, wkVars, log>>

Push(c) == chan' = [chan EXCEPT ![WorkerFor(Held(c))] = Append(@, Held(c))]

\* (variants: a channel without a limit; try_send, whose error is ignored)
SendUnbounded(c) == Sent(c) /\ Push(c)
TrySend(c) == /\ Sent(c)
              /\ IF Len(chan[WorkerFor(Held(c))]) < Cap THEN Push(c) ELSE UNCHANGED chan

\* send().await: the tokens are not looked at while it waits.
Send(c) ==
    /\ Sent(c)
    /\ Len(chan[WorkerFor(Held(c))]) < Cap
    /\ Push(c)

-----------------------------------------------------------------------------
(* worker() *)

WorkerGoto(w, from, to) == wk[w] = from /\ wk' = [wk EXCEPT ![w] = to]

Take(w) ==
    /\ WorkerGoto(w, "waiting", "lookup")
    /\ chan[w] # <<>>
    /\ hand' = [hand EXCEPT ![w] = <<Head(chan[w])>>]
    /\ chan' = [chan EXCEPT ![w] = Tail(@)]
    /\ UNCHANGED <<lisVars, target, log>>

InHand(w) == Head(hand[w])

\* The task is done with, or given up.
PutDown(w) == /\ hand' = [hand EXCEPT ![w] = <<>>]
              /\ target' = [target EXCEPT ![w] = NoConn]

\* conns.get(); write() refuses a connection that is cancelled already.
Find(w, name, from, next) ==
    /\ wk[w] = from
    /\ conns[name] # NoConn
    /\ IF token[conns[name]]
       THEN WorkerGoto(w, from, "waiting") /\ PutDown(w)
       ELSE /\ WorkerGoto(w, from, next)
            /\ target' = [target EXCEPT ![w] = conns[name]]
            /\ UNCHANGED hand
    /\ UNCHANGED <<lisVars, chan, log>>

FindTarget(w) == Find(w, Frame(InHand(w)).to, "lookup", "writing")

\* (variant: a worker that leaves its loop)
NobodyThereEnds(w) ==
    /\ WorkerGoto(w, "lookup", "ended")
    /\ conns[Frame(InHand(w)).to] = NoConn
    /\ PutDown(w)
    /\ UNCHANGED <<lisVars, chan, log>>

\* Only the last frame of a request is worth an answer.
NobodyThere(w) ==
    /\ wk[w] = "lookup"
    /\ conns[Frame(InHand(w)).to] = NoConn
    /\ IF EndsRequest(InHand(w))
       THEN WorkerGoto(w, "lookup", "lookupSource") /\ UNCHANGED <<hand, target>>
       ELSE WorkerGoto(w, "lookup", "waiting") /\ PutDown(w)
    /\ UNCHANGED <<lisVars, chan, log>>

FindSource(w) == Find(w, Frame(InHand(w)).from, "lookupSource", "replying")

SourceGone(w) ==
    /\ WorkerGoto(w, "lookupSource", "waiting")
    /\ conns[Frame(InHand(w)).from] = NoConn
    /\ PutDown(w)
    /\ UNCHANGED <<lisVars, chan, log>>

\* write() returns: the frame, or the 404 of its channel, went out or did not.
\* The result is not looked at.
Written(w, from, what) ==
    /\ WorkerGoto(w, from, "waiting")
    /\ PutDown(w)
    /\ \/ UNCHANGED log
       \/ LET t == InHand(w)
          IN log' = [log EXCEPT ![Frame(t).chan] =
                       Append(@, [task |-> t, to |-> target[w], what |-> what])]
    /\ UNCHANGED <<lisVars, chan>>

WriteFrame(w) == Written(w, "writing", "frame")
WriteNotFound(w) == Written(w, "replying", "404")

-----------------------------------------------------------------------------
Worker(w) == \/ Take(w) \/ FindTarget(w) \/ NobodyThere(w) \/ FindSource(w)
             \/ SourceGone(w) \/ WriteFrame(w) \/ WriteNotFound(w)

Next == \/ \E c \in Conns : Join(c) \/ Cancel(c) \/ Leave(c) \/ Read(c) \/ Send(c)
        \/ \E w \in Workers : Worker(w)

\* Workers are scheduled and their writes return (CallsReturn of Conn).  A
\* channel serves the senders that wait for it in their order: strong fairness.
Fairness == /\ \A w \in Workers : WF_vars(Worker(w))
            /\ \A c \in Conns : SF_vars(Send(c))

Spec == Init /\ [][Next]_vars
FairSpec == Spec /\ Fairness

-----------------------------------------------------------------------------
(* What must hold *)

Entries == [task : Tasks, to : Conns, what : {"frame", "404"}]

TypeOK ==
    /\ conns \in [Names -> Conns \cup {NoConn}]
    /\ token \in [Conns -> BOOLEAN]
    /\ lis \in [Conns -> {"new", "reading", "sending", "gone"}]
    /\ read \in [Conns -> Nat]
    /\ \A c \in Conns : /\ read[c] <= Len(Script[c])
                        /\ lis[c] = "sending" => read[c] > 0
    /\ chan \in [Workers -> Seq(Tasks)]
    /\ \A w \in Workers : Len(chan[w]) <= Cap
    /\ wk \in [Workers -> {"waiting", "lookup", "writing", "lookupSource", "replying"}]
    /\ hand \in [Workers -> Seq(Tasks)]
    /\ \A w \in Workers : Len(hand[w]) = IF wk[w] = "waiting" THEN 0 ELSE 1
    /\ target \in [Workers -> Conns \cup {NoConn}]
    /\ \A w \in Workers : wk[w] \in {"writing", "replying"} => target[w] \in Conns
    /\ log \in [Channels -> Seq(Entries)]

\* How far the frames of c have got that are past its listener.
Passed(c) == IF lis[c] = "sending" THEN read[c] - 1 ELSE read[c]

\* s comes before t in the stream of their connection, if they share one.
Before(s, t) == s.conn = t.conn => s.n < t.n

\* What waits in a channel belongs there, was read, and waits in order.
ChanInv ==
    \A w \in Workers : \A i \in DOMAIN chan[w] :
        /\ WorkerFor(chan[w][i]) = w
        /\ chan[w][i].n <= Passed(chan[w][i].conn)
        /\ \A j \in DOMAIN chan[w] : i < j => Before(chan[w][i], chan[w][j])

\* What a worker has in hand comes before what waits for it.
HandInv ==
    \A w \in Workers : hand[w] # <<>> =>
        /\ WorkerFor(InHand(w)) = w
        /\ InHand(w).n <= Passed(InHand(w).conn)
        /\ \A j \in DOMAIN chan[w] : Before(InHand(w), chan[w][j])

\* What was written comes before both.
LogInv ==
    \A ch \in Channels : \A i \in DOMAIN log[ch] :
        LET t == log[ch][i].task
        IN /\ Frame(t).chan = ch
           /\ t.n <= Passed(t.conn)
           /\ \A j \in DOMAIN chan[WorkerFor(t)] : Before(t, chan[WorkerFor(t)][j])
           /\ hand[WorkerFor(t)] # <<>> => Before(t, InHand(WorkerFor(t)))

\* "One worker serves a channel" (frame.rs line 238, consistent hashing): the
\* frames one connection sends in a channel are written in the order they were
\* sent, each at most once, whichever connections they were written to, and a
\* frame that was answered 404 was not delivered as well.
ChannelOrder ==
    \A ch \in Channels : \A i, j \in DOMAIN log[ch] :
        i < j => Before(log[ch][i].task, log[ch][j].task)

\* Who a worker is about to write to was registered under the name it looked up.
TargetInv ==
    /\ \A n \in Names : conns[n] # NoConn => NameOf[conns[n]] = n
    /\ \A w \in Workers :
          /\ wk[w] = "writing" => NameOf[target[w]] = Frame(InHand(w)).to
          /\ wk[w] = "replying" => NameOf[target[w]] = Frame(InHand(w)).from
          /\ wk[w] \in {"lookupSource", "replying"} => EndsRequest(InHand(w))

\* The inductive invariant.
DispatchInv == /\ TypeOK /\ ChanInv /\ HandInv /\ LogInv /\ TargetInv
               /\ ChannelOrder

\* The tasks of ch in a sequence of tasks, in their order: the k-th of them is
\* at the position up to which there are k.
Nth(P, k) == CHOOSE i \in P : Cardinality({j \in P : j <= i}) = k
InChannel(s, ch) ==
    LET P == {i \in DOMAIN s : Frame(s[i]).chan = ch}
    IN [k \in 1 .. Cardinality(P) |-> s[Nth(P, k)]]

\* Dispatch implements Link: a lossy queue for each channel.
InTransit(ch) == LET w == Hash[ch] % WorkerNumber
                 IN InChannel(hand[w] \o chan[w], ch)

L == INSTANCE Link WITH taken <- [c \in Conns |-> Passed(c)],
                        queue <- [ch \in Channels |-> InTransit(ch)]
ImplementsLink == L!Spec

\* Every frame that was read is dealt with in the end, with channels full and
\* targets that come and go: no worker stops for what becomes of one frame.
Pending(t) == \/ lis[t.conn] = "sending" /\ t = Held(t.conn)
              \/ \E w \in Workers : \E i \in DOMAIN (hand[w] \o chan[w]) :
                    t = (hand[w] \o chan[w])[i]
FramesDealtWith == \A t \in Tasks : Pending(t) ~> ~Pending(t)
=============================================================================
