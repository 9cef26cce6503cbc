-------------------------- MODULE HeartbeatProofs --------------------------
(***************************************************************************)
(* Proofs about Heartbeat, for any number of connections and any limit:    *)
(* the inductive invariant HeartbeatInv, and that nobody is condemned who  *)
(* did not leave MaxPending pings unanswered.                              *)
(***************************************************************************)
EXTENDS Heartbeat, TLAPS

LEMMA InitInv == Init => HeartbeatInv
<1> SUFFICES ASSUME Init PROVE HeartbeatInv
  OBVIOUS
<1>1. TypeOK
  BY DEF Init, TypeOK
<1>2. Counts /\ Bounded
  BY HeartbeatAssumption DEF Init, Counts, Bounded, HeartbeatAssumption
<1> QED  BY <1>1, <1>2 DEF HeartbeatInv

-----------------------------------------------------------------------------
(* Steps that leave the counters alone *)

\* What the listeners, the newcomers and the closers do touches no counter.
LEMMA ConnKeepsInv ==
    ASSUME HeartbeatInv, NEW c \in Conns,
           Join(c) \/ TakeMessage(c) \/ Leave(c) \/ Superseded(c) \/ Cancel(c)
    PROVE  HeartbeatInv'
<1>1. TypeOK' /\ UNCHANGED <<counters, hbVars>>
  BY DEF HeartbeatInv, TypeOK, Join, TakeMessage, Leave, Superseded, Cancel, Goto,
         connVars, counters, hbVars
<1> QED  BY <1>1 DEF HeartbeatInv, Counts, Bounded, counters, hbVars

\* A step of the heartbeat that leaves the counters alone, and is not about to
\* write or count.
LEMMA BeatKeepsInv ==
    ASSUME HeartbeatInv, Tick \/ RoundEnds \/ PingFails \/ Close \/ CloseReturns
    PROVE  HeartbeatInv'
<1>1. /\ TypeOK' /\ UNCHANGED counters
      /\ hb # "counting" /\ hb' \notin {"writing", "counting"}
  <2>1. CASE Tick \/ RoundEnds
    BY <2>1 DEF HeartbeatInv, TypeOK, Tick, RoundEnds, HbGoto, connVars, counters
  <2>2. CASE PingFails \/ CloseReturns
    BY <2>2 DEF HeartbeatInv, TypeOK, PingFails, CloseReturns, HbGoto, connVars, counters
  <2>3. CASE Close
    BY <2>3 DEF HeartbeatInv, TypeOK, Close, counters
  <2> QED  BY <2>1, <2>2, <2>3
<1>2. Counts'
  BY <1>1 DEF HeartbeatInv, Counts, counters
<1>3. Bounded'
  BY <1>1 DEF HeartbeatInv, Bounded, counters
<1> QED  BY <1>1, <1>2, <1>3 DEF HeartbeatInv

-----------------------------------------------------------------------------
(* Steps of the counters *)

LEMMA ResetKeepsInv ==
    ASSUME HeartbeatInv, NEW c \in Conns, PongTaken(c) \/ Handled(c)
    PROVE  HeartbeatInv'
<1>1. /\ TypeOK' /\ UNCHANGED hbVars
      /\ pending' = [pending EXCEPT ![c] = 0] /\ unanswered' = [unanswered EXCEPT ![c] = 0]
  BY DEF HeartbeatInv, TypeOK, PongTaken, Handled, Goto, Reset, connVars, hbVars
<1>2. \A d \in Conns : IF d = c THEN pending'[d] = 0 /\ unanswered'[d] = 0
                       ELSE pending'[d] = pending[d] /\ unanswered'[d] = unanswered[d]
  BY <1>1 DEF HeartbeatInv, TypeOK
<1>3. Counts'
  BY <1>1, <1>2 DEF HeartbeatInv, Counts, TypeOK, hbVars
<1>4. Bounded'
  BY <1>1, <1>2, HeartbeatAssumption
  DEF HeartbeatInv, Bounded, TypeOK, hbVars, HeartbeatAssumption
<1> QED  BY <1>1, <1>3, <1>4 DEF HeartbeatInv

\* Whom the heartbeat decides to ping is within the limit.
LEMMA PickKeepsInv ==
    ASSUME HeartbeatInv, NEW c \in Conns, Pick(c)
    PROVE  HeartbeatInv'
<1>1. /\ TypeOK' /\ UNCHANGED counters /\ hb = "polling" /\ cur' = c
      /\ hb' # "counting" /\ (hb' = "writing" => ~(pending[c] > MaxPending))
  BY DEF HeartbeatInv, TypeOK, Pick, Picked, HbGoto, connVars, counters
<1>2. Counts'
  BY <1>1 DEF HeartbeatInv, Counts, counters
<1>3. Bounded'
  <2>1. unanswered[c] <= pending[c]
    BY <1>1 DEF HeartbeatInv, Counts, TypeOK
  <2> QED  BY <1>1, <2>1, HeartbeatAssumption
           DEF HeartbeatInv, Bounded, TypeOK, counters, HeartbeatAssumption
<1> QED  BY <1>1, <1>2, <1>3 DEF HeartbeatInv

LEMMA PingKeepsInv ==
    ASSUME HeartbeatInv, PingWritten
    PROVE  HeartbeatInv'
<1>1. /\ TypeOK' /\ UNCHANGED <<pending, cur>> /\ hb = "writing" /\ hb' = "counting"
      /\ unanswered' = [unanswered EXCEPT ![cur] = @ + 1] /\ cur \in Conns
  BY DEF HeartbeatInv, TypeOK, PingWritten, HbGoto, connVars
<1>2. \A d \in Conns : unanswered'[d] = IF d = cur THEN unanswered[d] + 1 ELSE unanswered[d]
  BY <1>1 DEF HeartbeatInv, TypeOK
<1>3. Counts'
  BY <1>1, <1>2 DEF HeartbeatInv, Counts, TypeOK
<1>4. Bounded'
  BY <1>1, <1>2, HeartbeatAssumption DEF HeartbeatInv, Bounded, TypeOK, HeartbeatAssumption
<1> QED  BY <1>1, <1>3, <1>4 DEF HeartbeatInv

LEMMA CountKeepsInv ==
    ASSUME HeartbeatInv, Counted
    PROVE  HeartbeatInv'
<1>1. /\ TypeOK' /\ UNCHANGED <<unanswered, cur>> /\ hb = "counting" /\ hb' = "polling"
      /\ pending' = [pending EXCEPT ![cur] = @ + 1] /\ cur \in Conns
  BY DEF HeartbeatInv, TypeOK, Counted, HbGoto, connVars
<1>2. \A d \in Conns : pending'[d] = IF d = cur THEN pending[d] + 1 ELSE pending[d]
  BY <1>1 DEF HeartbeatInv, TypeOK
<1>3. Counts'
  BY <1>1, <1>2 DEF HeartbeatInv, Counts, TypeOK
<1>4. Bounded'
  BY <1>1, <1>2, HeartbeatAssumption DEF HeartbeatInv, Bounded, TypeOK, HeartbeatAssumption
<1> QED  BY <1>1, <1>3, <1>4 DEF HeartbeatInv

-----------------------------------------------------------------------------
(* The theorems *)

LEMMA NextKeepsInv == HeartbeatInv /\ [Next]_vars => HeartbeatInv'
<1> SUFFICES ASSUME HeartbeatInv, [Next]_vars PROVE HeartbeatInv'
  OBVIOUS
<1>1. CASE UNCHANGED vars
  BY <1>1 DEF HeartbeatInv, TypeOK, Counts, Bounded, vars, connVars, counters, hbVars
<1>2. CASE Beat
  BY <1>2, BeatKeepsInv, PickKeepsInv, PingKeepsInv, CountKeepsInv DEF Beat
<1>3. CASE \E c \in Conns : \/ Join(c) \/ PongTaken(c) \/ TakeMessage(c) \/ Handled(c)
                            \/ Leave(c) \/ Superseded(c) \/ Cancel(c)
  BY <1>3, ConnKeepsInv, ResetKeepsInv
<1> QED  BY <1>1, <1>2, <1>3 DEF Next

\* However pongs, messages, closes and newcomers meet with the heartbeat, its
\* counters are right up to one, and a silent peer gets a bounded number of
\* pings (room.rs lines 381-411).
THEOREM Inductive == Spec => []HeartbeatInv
  BY InitInv, NextKeepsInv, PTL DEF Spec

\* Only a connection that left MaxPending pings unanswered is taken for dead.
THEOREM CondemnedWereSilent == Spec => ClosedWasSilent
<1>1. ASSUME HeartbeatInv, [Next]_vars, hb # "condemning", hb' = "condemning"
      PROVE  unanswered[cur'] >= MaxPending
  <2>1. PICK c \in Conns : Pick(c)
    BY <1>1 DEF Next, Beat, vars, hbVars, Join, PongTaken, TakeMessage, Handled, Leave,
                Superseded, Cancel, Tick, RoundEnds, PingWritten, PingFails, Counted,
                Close, CloseReturns, HbGoto
  <2>2. cur' = c /\ hb = "polling" /\ pending[c] > MaxPending
    BY <1>1, <2>1 DEF Pick, Picked, HbGoto
  <2>3. pending[c] <= unanswered[c] + 1
    BY <1>1, <2>2 DEF HeartbeatInv, Counts, TypeOK
  <2> QED  BY <1>1, <2>2, <2>3, HeartbeatAssumption DEF HeartbeatInv, TypeOK, HeartbeatAssumption
<1>2. HeartbeatInv /\ [Next]_vars =>
        [hb # "condemning" /\ hb' = "condemning" => unanswered[cur'] >= MaxPending]_vars
  BY <1>1
<1> QED  BY Inductive, <1>2, PTL DEF Spec, ClosedWasSilent
=============================================================================
