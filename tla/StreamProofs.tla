---------------------------- MODULE StreamProofs ----------------------------
(***************************************************************************)
(* Proofs about Stream, for any lengths of headers, names, frames and      *)
(* messages: the inductive invariant StreamInv, and with it that the       *)
(* reader finds every frame that was written.                              *)
(***************************************************************************)
EXTENDS Stream, SequenceTheorems, TLAPS

LEMMA LenEmpty == /\ \A S : <<>> \in Seq(S)
                  /\ Len(<<>>) = 0 /\ DOMAIN <<>> = {}
<1>1. \A S : <<>> \in Seq(S)
  BY EmptySeq
<1>2. Len(<<>>) = 0
  BY EmptySeq
<1> QED  BY <1>1, <1>2, SMT

\* What the frames are, and what Written is.
LEMMA FramesFacts ==
    ASSUME StreamTypeOK
    PROVE  /\ Len(frames) \in Nat /\ DOMAIN frames = 1 .. Len(frames)
           /\ frames = <<>> <=> Len(frames) = 0
           /\ \A k \in 1 .. Len(frames) : frames[k] \in FrameType
           /\ Written \in Nat
           /\ frames # <<>> => Written = frames[Len(frames)].at + frames[Len(frames)].size
<1>1. frames \in Seq(FrameType)
  BY DEF StreamTypeOK
<1>2. Len(frames) \in Nat /\ DOMAIN frames = 1 .. Len(frames)
  BY <1>1, LenProperties
<1>3. frames = <<>> <=> Len(frames) = 0
  BY <1>1, EmptySeq
<1>4. \A k \in 1 .. Len(frames) : frames[k] \in FrameType
  BY <1>1, ElementOfSeq
<1>5. frames # <<>> => Written = frames[Len(frames)].at + frames[Len(frames)].size
  BY DEF Written
<1>6. Written \in Nat
  <2>1. CASE frames = <<>>
    BY <2>1 DEF Written
  <2>2. CASE frames # <<>>
    <3>1. frames[Len(frames)] \in FrameType
      BY <1>2, <1>3, <1>4, <2>2
    <3> QED  BY <1>5, <2>2, <3>1 DEF FrameType
  <2> QED  BY <2>1, <2>2
<1> QED  BY <1>2, <1>3, <1>4, <1>5, <1>6

\* A frame more.
LEMMA Appended ==
    ASSUME StreamTypeOK, NEW f \in FrameType, frames' = Append(frames, f)
    PROVE  /\ frames' \in Seq(FrameType)
           /\ Len(frames') = Len(frames) + 1
           /\ DOMAIN frames' = 1 .. Len(frames) + 1
           /\ \A k \in 1 .. Len(frames) : frames'[k] = frames[k]
           /\ frames'[Len(frames) + 1] = f
           /\ frames' # <<>>
           /\ Written' = f.at + f.size
<1>1. frames \in Seq(FrameType)
  BY DEF StreamTypeOK
<1>2. /\ frames' \in Seq(FrameType)
      /\ Len(frames') = Len(frames) + 1
      /\ \A k \in 1 .. Len(frames) : frames'[k] = frames[k]
      /\ frames'[Len(frames) + 1] = f
  BY <1>1, AppendProperties
<1>3. frames' # <<>>
  BY <1>1, <1>2, EmptySeq, LenProperties
<1>4. DOMAIN frames' = 1 .. Len(frames) + 1
  BY <1>2, LenProperties
<1> QED  BY <1>2, <1>3, <1>4 DEF Written

\* No two frames begin at the same place.
LEMMA OnePlace ==
    ASSUME StreamTypeOK, Layout,
           NEW j \in DOMAIN frames, NEW k \in DOMAIN frames,
           frames[j].at = frames[k].at
    PROVE  j = k
<1>1. frames[j] \in FrameType /\ frames[k] \in FrameType /\ j \in Nat /\ k \in Nat
  BY FramesFacts
<1>2. ASSUME j < k PROVE FALSE
  <2>1. frames[j].at + frames[j].size <= frames[k].at /\ frames[j].size > HeaderLen
    BY <1>2 DEF Layout
  <2> QED  BY <1>1, <2>1, StreamAssumption DEF FrameType, StreamAssumption
<1>3. ASSUME k < j PROVE FALSE
  <2>1. frames[k].at + frames[k].size <= frames[j].at /\ frames[k].size > HeaderLen
    BY <1>3 DEF Layout
  <2> QED  BY <1>1, <2>1, StreamAssumption DEF FrameType, StreamAssumption
<1> QED  BY <1>1, <1>2, <1>3

\* A frame behind the others keeps the layout, and the reader where it is.
LEMMA AppendedLayout ==
    ASSUME StreamTypeOK, Layout, NEW f \in FrameType, frames' = Append(frames, f),
           f.at = Written, f.size > HeaderLen, f.size <= MaxFrame
    PROVE  Layout'
<1>1. HeaderLen \in Nat /\ MaxFrame \in Nat
  BY StreamAssumption DEF StreamAssumption
<1>2. f.at \in Nat /\ f.size \in Nat
  BY DEF FrameType
<1> SUFFICES ASSUME NEW k \in 1 .. Len(frames) + 1
             PROVE  /\ frames'[k].size > HeaderLen /\ frames'[k].size <= MaxFrame
                    /\ frames'[k].at + frames'[k].size <= Written'
                    /\ k = 1 => frames'[k].at = 0
                    /\ k > 1 => frames'[k].at = frames'[k - 1].at + frames'[k - 1].size
                    /\ \A j \in 1 .. Len(frames) + 1 :
                          j < k => frames'[j].at + frames'[j].size <= frames'[k].at
  BY Appended DEF Layout
<1>3. \A j \in 1 .. Len(frames) : /\ frames[j].at \in Nat /\ frames[j].size \in Nat
                                  /\ frames[j].at + frames[j].size <= Written
  BY FramesFacts DEF Layout, FrameType
<1>4. CASE k \in 1 .. Len(frames)
  <2>1. frames'[k] = frames[k] /\ \A j \in 1 .. Len(frames) : frames'[j] = frames[j]
    BY <1>4, Appended
  <2>2. /\ frames[k].size > HeaderLen /\ frames[k].size <= MaxFrame
        /\ k = 1 => frames[k].at = 0
        /\ k > 1 => frames[k].at = frames[k - 1].at + frames[k - 1].size
        /\ \A j \in 1 .. Len(frames) :
              j < k => frames[j].at + frames[j].size <= frames[k].at
    BY <1>4, FramesFacts DEF Layout
  <2>3. frames[k].at + frames[k].size <= Written'
    BY <1>2, <1>3, <1>4, Appended, FramesFacts
  <2>4. k > 1 => frames'[k - 1] = frames[k - 1]
    BY <1>4, <2>1, FramesFacts
  <2>5. \A j \in 1 .. Len(frames) + 1 : j < k => j \in 1 .. Len(frames)
    BY <1>4, FramesFacts
  <2> QED  BY <2>1, <2>2, <2>3, <2>4, <2>5
<1>5. CASE k = Len(frames) + 1
  <2>1. frames'[k] = f /\ Written' = f.at + f.size
    BY <1>5, Appended
  <2>2. k = 1 => f.at = 0
    BY <1>5, FramesFacts DEF Written
  <2>3. k > 1 => f.at = frames'[k - 1].at + frames'[k - 1].size
    <3>1. k - 1 = Len(frames) /\ (k > 1 => Len(frames) \in 1 .. Len(frames))
      BY <1>5, FramesFacts
    <3>2. k > 1 => frames'[k - 1] = frames[Len(frames)]
      BY <3>1, Appended
    <3>3. k > 1 => f.at = frames[Len(frames)].at + frames[Len(frames)].size
      BY <3>1, FramesFacts
    <3> QED  BY <3>2, <3>3
  <2>4. \A j \in 1 .. Len(frames) + 1 :
           j < k => frames'[j].at + frames'[j].size <= f.at
    BY <1>3, <1>5, FramesFacts, Appended
  <2> QED  BY <1>2, <2>1, <2>2, <2>3, <2>4
<1> QED  BY <1>4, <1>5, FramesFacts

\* Where the reader is to go on.
Upcoming == IF Len(decoded) = Len(frames) THEN Written ELSE frames[Len(decoded) + 1].at

LEMMA AppendedAtFrame ==
    ASSUME StreamTypeOK, Layout, AtFrame, NEW f \in FrameType, frames' = Append(frames, f),
           f.at = Written, UNCHANGED <<arrived, readerVars>>
    PROVE  AtFrame'
<1>1. Len(decoded) \in Nat /\ Len(decoded) <= Len(frames)
  BY LenProperties DEF StreamTypeOK, AtFrame
<1>2. Len(decoded') <= Len(frames') /\ Len(decoded') # Len(frames') /\ decoded' = decoded
  BY <1>1, Appended, FramesFacts DEF readerVars
<1>3. frames'[Len(decoded) + 1].at = Upcoming
  BY <1>1, Appended, FramesFacts DEF Upcoming
<1>4. Len(decoded) < Len(frames) => frames'[Len(decoded) + 1] = frames[Len(decoded) + 1]
  BY <1>1, Appended, FramesFacts
<1>5. Written <= Written' /\ Written \in Nat /\ Written' \in Nat
  BY Appended, FramesFacts DEF FrameType
<1>6. arrived \in Nat
  BY DEF StreamTypeOK
<1>7. Len(decoded) < Len(frames) => Len(decoded') < Len(frames')
  BY <1>1, <1>2, Appended, FramesFacts
<1> QED
  BY <1>1, <1>2, <1>3, <1>4, <1>5, <1>6, <1>7 DEF AtFrame, readerVars, Upcoming

USE StreamAssumption DEF StreamAssumption

LEMMA AppendedPing ==
    ASSUME StreamTypeOK, AtFrame, PingEnds, NEW f \in FrameType, frames' = Append(frames, f),
           f.size < FixedLen <=> f.kind # "message", UNCHANGED readerVars
    PROVE  PingEnds'
<1>1. /\ DOMAIN frames' = 1 .. Len(frames) + 1 /\ frames'[Len(frames) + 1] = f
      /\ \A k \in 1 .. Len(frames) : frames'[k] = frames[k]
      /\ Len(frames) \in Nat /\ DOMAIN frames = 1 .. Len(frames)
  BY Appended, FramesFacts
<1>2. stage' = stage /\ decoded' = decoded
  BY DEF readerVars
<1>3. \A k \in 1 .. Len(frames) + 1 : k \in 1 .. Len(frames) \/ k = Len(frames) + 1
  BY <1>1
<1>4. \A i \in DOMAIN decoded : i \in 1 .. Len(frames)
  <2>1. DOMAIN decoded = 1 .. Len(decoded) /\ Len(decoded) \in Nat
    BY LenProperties DEF StreamTypeOK
  <2>2. Len(decoded) <= Len(frames)
    BY DEF AtFrame
  <2> QED  BY <1>1, <2>1, <2>2
<1>5. \A k \in DOMAIN frames' : frames'[k].size < FixedLen <=> frames'[k].kind # "message"
  BY <1>1, <1>3 DEF PingEnds
<1>6. \A i \in DOMAIN decoded : frames'[i] = frames[i]
  BY <1>1, <1>4
<1> QED  BY <1>2, <1>5, <1>6 DEF PingEnds

-----------------------------------------------------------------------------
(* The steps, one lemma each *)

LEMMA StartStep ==
    ASSUME StreamInv, NEW size \in 0 .. MaxStream, NEW n \in NameLens, Start(size, n)
    PROVE  StreamInv'
<1> USE DEF StreamInv
<1>1. msgs \in Seq(0 .. MaxStream) /\ Len(msgs) \in Nat /\ DOMAIN msgs = 1 .. Len(msgs)
  BY LenProperties DEF StreamTypeOK
<1>2. /\ msgs' \in Seq(0 .. MaxStream) /\ Len(msgs') = Len(msgs) + 1
      /\ DOMAIN msgs' = 1 .. Len(msgs) + 1
      /\ \A m \in 1 .. Len(msgs) : msgs'[m] = msgs[m]
      /\ msgs'[Len(msgs) + 1] = size
  <2>1. msgs' = Append(msgs, size)
    BY DEF Start
  <2> QED  BY <1>1, <2>1, AppendProperties, LenProperties
<1>3. /\ total = 0 /\ total' = size /\ names' = n
      /\ UNCHANGED <<offset, frames, arrived, stage, pos, need, decoded>>
  BY DEF Start, readerVars
<1>4. StreamTypeOK'
  <2>1. msgs' # <<>>
    BY <1>1, <1>2, LenEmpty
  <2> QED  BY <1>1, <1>2, <1>3, <2>1 DEF StreamTypeOK
<1>5. Written' = Written
  BY <1>3 DEF Written
<1>6. Layout'
  BY <1>3, <1>5 DEF Layout
<1>7. Tiling'
  <2>1. \A k \in DOMAIN frames : frames[k].msg \in Nat
    BY FramesFacts DEF FrameType
  <2>2. \A k \in DOMAIN frames : frames[k].kind = "message" =>
           frames[k].msg \in 1 .. Len(msgs) /\ msgs'[frames[k].msg] = msgs[frames[k].msg]
    BY <1>1, <1>2 DEF Tiling
  <2> QED  BY <1>1, <1>2, <1>3, <2>1, <2>2 DEF Tiling, After, PayloadLen
<1>8. Ends'
  <2> SUFFICES ASSUME NEW m \in 1 .. Len(msgs) + 1
               PROVE  /\ msgs'[m] > 0 /\ (m < Len(msgs') \/ total' = 0) =>
                            \E k \in DOMAIN frames : /\ frames[k].kind = "message"
                                                     /\ frames[k].msg = m /\ frames[k].end
                      /\ m < Len(msgs') \/ total' = 0 =>
                            ((\E k \in DOMAIN frames : /\ frames[k].kind = "message"
                                                       /\ frames[k].msg = m /\ frames[k].end)
                                => msgs'[m] > 0)
                      /\ msgs'[m] = 0 => \A k \in DOMAIN frames :
                            frames[k].kind = "message" => frames[k].msg # m
    BY <1>2, <1>3 DEF Ends
  <2>1. CASE m \in 1 .. Len(msgs)
    BY <1>1, <1>2, <1>3, <2>1 DEF Ends
  <2>2. CASE m = Len(msgs) + 1
    <3>1. \A k \in DOMAIN frames : frames[k].msg \in Nat /\ frames[k].msg <= Len(msgs)
      BY FramesFacts DEF FrameType, Tiling
    <3>2. \A k \in DOMAIN frames : frames[k].msg # m
      BY <1>1, <2>2, <3>1
    <3> QED  BY <1>1, <1>2, <1>3, <2>2, <3>2
  <2> QED  BY <1>1, <2>1, <2>2
<1>9. AtFrame'
  BY <1>3, <1>5 DEF AtFrame
<1>10. Patient'
  <2> SUFFICES ASSUME stage = "node"
               PROVE  /\ Len(msgs') <= 1 /\ Len(frames) <= 1
                      /\ msgs' = <<>> => frames = <<>>
                      /\ total' > 0 => frames = <<>> /\ total' <= MaxPayload(names')
    BY <1>3, LenEmpty DEF Patient
  <2>1. msgs = <<>> /\ size <= MaxPayload(n)
    BY DEF Start
  <2>2. Len(msgs) = 0
    BY <2>1, LenEmpty
  <2>3. frames = <<>>
    BY <2>1 DEF Patient
  <2> QED  BY <1>2, <1>3, <2>1, <2>2, <2>3 DEF Patient
<1>11. PingEnds'
  BY <1>3 DEF PingEnds
<1> QED  BY <1>4, <1>6, <1>7, <1>8, <1>9, <1>10, <1>11

LEMMA CutStep ==
    ASSUME StreamInv, Cut
    PROVE  StreamInv'
<1> USE DEF StreamInv
<1> DEFINE max  == MaxPayload(names)
           len  == IF max < total - offset THEN max ELSE total - offset
           last == offset + len >= total
           f    == [kind |-> "message", at |-> Written, size |-> FixedLen + names + len,
                    names |-> names, msg |-> Len(msgs), off |-> offset, end |-> last]
<1>1. /\ total > 0 /\ frames' = Append(frames, f)
      /\ offset' = IF last THEN 0 ELSE offset + len
      /\ total' = IF last THEN 0 ELSE total
      /\ msgs' = msgs /\ names' = names /\ arrived' = arrived
      /\ stage' = stage /\ pos' = pos /\ need' = need /\ decoded' = decoded
  BY DEF Cut, CutOff, readerVars
<1>2. /\ names \in NameLens /\ names \in Nat /\ total \in Nat /\ offset \in Nat
      /\ total = msgs[Len(msgs)] /\ offset < total
      /\ msgs # <<>> /\ msgs \in Seq(0 .. MaxStream)
      /\ Len(msgs) \in Nat /\ Len(msgs) \in 1 .. Len(msgs) /\ DOMAIN msgs = 1 .. Len(msgs)
  <2>1. /\ names \in NameLens /\ names \in Nat /\ total \in Nat /\ offset \in Nat
        /\ total = msgs[Len(msgs)] /\ offset < total
        /\ msgs # <<>> /\ msgs \in Seq(0 .. MaxStream)
    BY <1>1 DEF StreamTypeOK
  <2>2. Len(msgs) \in Nat /\ Len(msgs) # 0 /\ DOMAIN msgs = 1 .. Len(msgs)
    BY <2>1, EmptySeq, LenProperties
  <2> QED  BY <2>1, <2>2
<1>3. FixedLen + names < MaxFrame /\ max \in Nat /\ max > 0
  BY <1>2 DEF MaxPayload
<1>4. /\ len \in Nat /\ len > 0 /\ len <= max /\ offset + len <= total
      /\ last <=> offset + len = total
  BY <1>2, <1>3
<1>5. /\ f \in FrameType /\ f.at = Written /\ f.size > HeaderLen /\ f.size <= MaxFrame
      /\ f.kind = "message" /\ f.msg = Len(msgs) /\ f.off = offset /\ f.end = last
      /\ ~(f.size < FixedLen)
      /\ PayloadLen(f) = len /\ After(f) = IF last THEN 0 ELSE offset + len
  <2> HIDE DEF max, len, last
  <2>1. last \in BOOLEAN
    BY DEF last
  <2>2. FixedLen + names + len <= MaxFrame
    BY <1>2, <1>3, <1>4 DEF max, MaxPayload
  <2>3. f \in FrameType
    BY <1>2, <1>4, <2>1, FramesFacts DEF FrameType
  <2>4. PayloadLen(f) = len
    BY <1>2, <1>4 DEF PayloadLen
  <2> QED  BY <1>2, <1>4, <2>1, <2>2, <2>3, <2>4 DEF After
<1> HIDE DEF max, len, last, f
<1>6. /\ frames' \in Seq(FrameType) /\ Len(frames') = Len(frames) + 1
      /\ DOMAIN frames' = 1 .. Len(frames) + 1
      /\ \A k \in 1 .. Len(frames) : frames'[k] = frames[k]
      /\ frames'[Len(frames) + 1] = f /\ frames' # <<>>
      /\ DOMAIN frames = 1 .. Len(frames) /\ Len(frames) \in Nat
  BY <1>1, <1>5, Appended, FramesFacts
<1>7. StreamTypeOK'
  <2>1. /\ total' \in 0 .. MaxStream /\ offset' \in Nat
        /\ total' > 0 => total' = total /\ offset' < total'
        /\ total' = 0 => offset' = 0
    <3>1. total \in 0 .. MaxStream
      BY DEF StreamTypeOK
    <3>2. CASE last
      BY <1>1, <3>2
    <3>3. CASE ~last
      BY <1>1, <1>2, <1>4, <3>1, <3>3
    <3> QED  BY <3>2, <3>3
  <2> QED  BY <1>1, <1>6, <2>1 DEF StreamTypeOK
<1>8. Layout'
  BY <1>1, <1>5, AppendedLayout
<1>9. AtFrame'
  BY <1>1, <1>5, AppendedAtFrame DEF readerVars
<1>10. Tiling'
  <2>1. offset' = After(frames'[Len(frames')])
    BY <1>1, <1>5, <1>6
  <2>2. ASSUME NEW k \in 1 .. Len(frames) + 1
        PROVE  /\ k = 1 => frames'[k].off = 0
               /\ k > 1 => frames'[k].off = After(frames'[k - 1])
               /\ frames'[k].msg <= Len(msgs)
               /\ frames'[k].kind = "message" =>
                     /\ frames'[k].msg \in DOMAIN msgs
                     /\ PayloadLen(frames'[k]) > 0
                     /\ frames'[k].off + PayloadLen(frames'[k]) <= msgs[frames'[k].msg]
                     /\ frames'[k].end <=>
                           frames'[k].off + PayloadLen(frames'[k]) = msgs[frames'[k].msg]
    <3>1. CASE k \in 1 .. Len(frames)
      <4>1. frames'[k] = frames[k] /\ (k > 1 => frames'[k - 1] = frames[k - 1])
        BY <1>6, <3>1
      <4> QED  BY <1>6, <3>1, <4>1 DEF Tiling
    <3>2. CASE k = Len(frames) + 1
      <4>1. frames'[k] = f
        BY <1>6, <3>2
      <4>2. k > 1 => frames # <<>> /\ frames'[k - 1] = frames[Len(frames)]
        BY <1>6, <3>2, FramesFacts
      <4>3. k = 1 => frames = <<>>
        BY <1>6, <3>2, FramesFacts
      <4>4. /\ k = 1 => f.off = 0
            /\ k > 1 => f.off = After(frames'[k - 1])
        BY <1>5, <4>2, <4>3 DEF Tiling
      <4> QED  BY <1>2, <1>4, <1>5, <4>1, <4>4
    <3> QED  BY <1>6, <3>1, <3>2
  <2>3. msgs' = msgs /\ frames' # <<>> /\ DOMAIN frames' = 1 .. Len(frames) + 1
    BY <1>1, <1>6
  <2> QED  BY <2>1, <2>2, <2>3 DEF Tiling, After, PayloadLen
<1>11. Ends'
  <2> SUFFICES ASSUME NEW m \in 1 .. Len(msgs)
               PROVE  /\ m < Len(msgs) \/ total' = 0 =>
                            (msgs[m] > 0 <=>
                               \E k \in DOMAIN frames' : /\ frames'[k].kind = "message"
                                                         /\ frames'[k].msg = m /\ frames'[k].end)
                      /\ msgs[m] = 0 => \A k \in DOMAIN frames' :
                            frames'[k].kind = "message" => frames'[k].msg # m
    <3>1. msgs' = msgs /\ DOMAIN msgs = 1 .. Len(msgs)
      BY <1>1, <1>2
    <3> QED  BY <3>1, Zenon DEF Ends
  <2>1. CASE m = Len(msgs)
    <3>1. msgs[m] > 0
      BY <1>1, <1>2, <2>1
    <3>2. total' = 0 => last
      BY <1>1, <1>2
    <3>3. total' = 0 => /\ frames'[Len(frames) + 1].kind = "message"
                        /\ frames'[Len(frames) + 1].msg = m /\ frames'[Len(frames) + 1].end
      BY <1>5, <1>6, <2>1, <3>2
    <3>4. Len(frames) + 1 \in DOMAIN frames'
      BY <1>6
    <3>5. msgs[m] # 0 /\ ~(m < Len(msgs))
      BY <1>2, <2>1, <3>1
    <3> QED  BY <3>1, <3>3, <3>4, <3>5
  <2>2. CASE m # Len(msgs)
    <3>1. m < Len(msgs)
      <4>1. Len(msgs) \in Nat
        BY <1>2
      <4> QED  BY <2>2, <4>1
    <3>2. \A k \in DOMAIN frames' : frames'[k].msg = m =>
             k \in DOMAIN frames /\ frames'[k] = frames[k]
      BY <1>5, <1>6, <2>2
    <3>3. \A k \in DOMAIN frames : k \in DOMAIN frames' /\ frames'[k] = frames[k]
      BY <1>6
    <3>4. m \in DOMAIN msgs
      BY <1>2
    <3> QED  BY <3>1, <3>2, <3>3, <3>4 DEF Ends
  <2> QED  BY <2>1, <2>2
<1>12. Patient'
  <2> SUFFICES ASSUME stage = "node"
               PROVE  /\ Len(msgs) <= 1 /\ Len(frames') <= 1
                      /\ msgs = <<>> => frames' = <<>>
                      /\ total' > 0 => frames' = <<>> /\ total' <= MaxPayload(names)
                      /\ \A k \in DOMAIN frames' : frames'[k].kind = "message"
    BY <1>1 DEF Patient
  <2>1. Len(msgs) <= 1 /\ frames = <<>> /\ total <= max
    BY <1>1 DEF Patient, max
  <2>2. offset = 0
    BY <2>1 DEF Tiling
  <2>3. last
    BY <1>2, <1>3, <2>1, <2>2 DEF last, len
  <2>4. \A k \in DOMAIN frames' : frames'[k] = f
    BY <1>6, <2>1, FramesFacts
  <2> QED  BY <1>1, <1>2, <1>5, <1>6, <2>1, <2>3, <2>4, FramesFacts
<1>13. PingEnds'
  BY <1>1, <1>5, AppendedPing DEF readerVars
<1> QED  BY <1>7, <1>8, <1>9, <1>10, <1>11, <1>12, <1>13

LEMMA BeatStep ==
    ASSUME StreamInv, Beat
    PROVE  StreamInv'
<1> USE DEF StreamInv
<1>0. PICK kind \in {"ping", "pong"} :
        frames' = Append(frames,
           [kind |-> kind, at |-> Written, size |-> HeaderLen + CrcLen,
            names |-> 0, msg |-> Len(msgs), off |-> offset, end |-> TRUE])
  BY DEF Beat
<1> DEFINE f == [kind |-> kind, at |-> Written, size |-> HeaderLen + CrcLen,
                 names |-> 0, msg |-> Len(msgs), off |-> offset, end |-> TRUE]
<1>1. /\ stage # "node" /\ frames' = Append(frames, f)
      /\ msgs' = msgs /\ total' = total /\ names' = names /\ offset' = offset
      /\ arrived' = arrived /\ stage' = stage /\ pos' = pos /\ need' = need
      /\ decoded' = decoded
  BY <1>0 DEF Beat, readerVars
<1>2. Len(msgs) \in Nat /\ offset \in Nat
  BY LenProperties DEF StreamTypeOK
<1>3. /\ f \in FrameType /\ f.at = Written /\ f.size > HeaderLen /\ f.size <= MaxFrame
      /\ f.kind # "message" /\ f.msg = Len(msgs) /\ f.off = offset
      /\ f.size < FixedLen
  BY <1>2, FramesFacts DEF FrameType
<1>4. After(f) = offset
  BY <1>2, <1>3 DEF After, PayloadLen
<1> HIDE DEF f
<1>5. /\ frames' \in Seq(FrameType) /\ Len(frames') = Len(frames) + 1
      /\ DOMAIN frames' = 1 .. Len(frames) + 1
      /\ \A k \in 1 .. Len(frames) : frames'[k] = frames[k]
      /\ frames'[Len(frames) + 1] = f /\ frames' # <<>>
      /\ DOMAIN frames = 1 .. Len(frames) /\ Len(frames) \in Nat
  BY <1>1, <1>3, Appended, FramesFacts
<1>6. StreamTypeOK'
  BY <1>1, <1>5 DEF StreamTypeOK
<1>7. Layout'
  BY <1>1, <1>3, AppendedLayout
<1>8. AtFrame'
  BY <1>1, <1>3, AppendedAtFrame DEF readerVars
<1>9. Tiling'
  <2>1. offset' = After(frames'[Len(frames')])
    BY <1>1, <1>4, <1>5
  <2>2. ASSUME NEW k \in 1 .. Len(frames) + 1
        PROVE  /\ k = 1 => frames'[k].off = 0
               /\ k > 1 => frames'[k].off = After(frames'[k - 1])
               /\ frames'[k].msg <= Len(msgs)
               /\ frames'[k].kind = "message" =>
                     /\ frames'[k].msg \in DOMAIN msgs
                     /\ PayloadLen(frames'[k]) > 0
                     /\ frames'[k].off + PayloadLen(frames'[k]) <= msgs[frames'[k].msg]
                     /\ frames'[k].end <=>
                           frames'[k].off + PayloadLen(frames'[k]) = msgs[frames'[k].msg]
    <3>1. CASE k \in 1 .. Len(frames)
      <4>1. frames'[k] = frames[k] /\ (k > 1 => frames'[k - 1] = frames[k - 1])
        BY <1>5, <3>1
      <4> QED  BY <1>5, <3>1, <4>1 DEF Tiling
    <3>2. CASE k = Len(frames) + 1
      <4>1. frames'[k] = f
        BY <1>5, <3>2
      <4>2. k > 1 => frames # <<>> /\ frames'[k - 1] = frames[Len(frames)]
        BY <1>5, <3>2, FramesFacts
      <4>3. k = 1 => frames = <<>>
        BY <1>5, <3>2, FramesFacts
      <4>4. /\ k = 1 => f.off = 0
            /\ k > 1 => f.off = After(frames'[k - 1])
        BY <1>3, <4>2, <4>3 DEF Tiling
      <4> QED  BY <1>2, <1>3, <4>1, <4>4
    <3> QED  BY <1>5, <3>1, <3>2
  <2>3. msgs' = msgs /\ frames' # <<>> /\ DOMAIN frames' = 1 .. Len(frames) + 1
    BY <1>1, <1>5
  <2> QED  BY <2>1, <2>2, <2>3 DEF Tiling, After, PayloadLen
<1>10. Ends'
  <2>1. \A k \in DOMAIN frames' : frames'[k].kind = "message" =>
           k \in DOMAIN frames /\ frames'[k] = frames[k]
    BY <1>3, <1>5
  <2>2. \A k \in DOMAIN frames : k \in DOMAIN frames' /\ frames'[k] = frames[k]
    BY <1>5
  <2>3. msgs' = msgs /\ total' = total
    BY <1>1
  <2>4. ASSUME NEW m \in DOMAIN msgs
        PROVE  (\E k \in DOMAIN frames' : /\ frames'[k].kind = "message"
                                          /\ frames'[k].msg = m /\ frames'[k].end)
               <=> (\E k \in DOMAIN frames : /\ frames[k].kind = "message"
                                             /\ frames[k].msg = m /\ frames[k].end)
    BY <2>1, <2>2
  <2>5. ASSUME NEW m \in DOMAIN msgs,
               \A k \in DOMAIN frames : frames[k].kind = "message" => frames[k].msg # m
        PROVE  \A k \in DOMAIN frames' : frames'[k].kind = "message" => frames'[k].msg # m
    BY <2>1, <2>5
  <2> QED  BY <2>3, <2>4, <2>5 DEF Ends
<1>11. Patient'
  BY <1>1 DEF Patient
<1>12. PingEnds'
  BY <1>1, <1>3, AppendedPing DEF readerVars
<1> QED  BY <1>6, <1>7, <1>8, <1>9, <1>10, <1>11, <1>12

\* A reader's step leaves the writer's part of the invariant alone.
LEMMA WriterKept ==
    ASSUME StreamInv, UNCHANGED encVars
    PROVE  Layout' /\ Tiling' /\ Ends' /\ Written' = Written
<1>1. /\ msgs' = msgs /\ total' = total /\ names' = names
      /\ offset' = offset /\ frames' = frames
  BY DEF encVars
<1>2. Written' = Written
  BY <1>1 DEF Written
<1>3. Layout'
  BY <1>1, <1>2 DEF StreamInv, Layout
<1>4. Tiling'
  BY <1>1 DEF StreamInv, Tiling, After, PayloadLen
<1>5. Ends'
  BY <1>1 DEF StreamInv, Ends
<1> QED  BY <1>2, <1>3, <1>4, <1>5

LEMMA ArriveStep ==
    ASSUME StreamInv, Arrive
    PROVE  StreamInv'
<1>1. /\ UNCHANGED encVars /\ stage' = stage /\ pos' = pos /\ need' = need
      /\ decoded' = decoded
  BY DEF Arrive, readerVars
<1>2. PICK n \in arrived + 1 .. Written : arrived' = n
  BY DEF Arrive
<1>3. arrived' \in Nat /\ arrived <= arrived' /\ arrived' <= Written
  BY <1>2, FramesFacts DEF StreamInv, StreamTypeOK
<1>4. StreamTypeOK'
  BY <1>1, <1>3 DEF StreamInv, StreamTypeOK, encVars
<1>5. AtFrame'
  <2>1. pos \in Nat /\ arrived \in Nat /\ pos <= arrived
    BY DEF StreamInv, StreamTypeOK, AtFrame
  <2>2. Written' = Written
    BY <1>1, WriterKept
  <2> QED  BY <1>1, <1>3, <2>1, <2>2 DEF StreamInv, AtFrame, encVars
<1>6. Patient'
  BY <1>1 DEF StreamInv, Patient, encVars, MaxPayload
<1>7. PingEnds'
  BY <1>1 DEF StreamInv, PingEnds, encVars
<1> QED  BY <1>1, <1>4, <1>5, <1>6, <1>7, WriterKept DEF StreamInv

\* The next frame, when the reader has bytes ahead of it.
LEMMA UpcomingFrame ==
    ASSUME StreamInv, need > 0 \/ pos + HeaderLen <= arrived
    PROVE  LET n == Len(decoded)
           IN /\ n \in Nat /\ n < Len(frames) /\ n + 1 \in DOMAIN frames
              /\ frames[n + 1].at \in Nat /\ frames[n + 1].size \in Nat
              /\ pos = frames[n + 1].at + (IF need = 0 THEN 0 ELSE HeaderLen)
              /\ frames[n + 1].size > HeaderLen /\ frames[n + 1].size <= MaxFrame
              /\ frames[n + 1].at + frames[n + 1].size
                    = IF n + 1 = Len(frames) THEN Written ELSE frames[n + 2].at
<1> USE DEF StreamInv
<1> DEFINE n == Len(decoded)
<1>1. n \in Nat /\ n <= Len(frames) /\ Len(frames) \in Nat /\ DOMAIN frames = 1 .. Len(frames)
  BY FramesFacts, LenProperties DEF StreamTypeOK, AtFrame
<1>2. pos \in Nat /\ need \in Nat /\ arrived \in Nat /\ Written \in Nat
  BY FramesFacts DEF StreamTypeOK
<1>3. n # Len(frames)
  BY <1>1, <1>2 DEF AtFrame
<1>4. n < Len(frames) /\ n + 1 \in DOMAIN frames
  BY <1>1, <1>3
<1>5. frames[n + 1] \in FrameType
  BY <1>1, <1>4, FramesFacts
<1>6. pos = frames[n + 1].at + (IF need = 0 THEN 0 ELSE HeaderLen)
  BY <1>2, <1>3, <1>5 DEF AtFrame, FrameType
<1>7. frames[n + 1].size > HeaderLen /\ frames[n + 1].size <= MaxFrame
  BY <1>4 DEF Layout
<1>8. frames[n + 1].at + frames[n + 1].size
        = IF n + 1 = Len(frames) THEN Written ELSE frames[n + 2].at
  <2>1. CASE n + 1 = Len(frames)
    BY <1>1, <1>4, <2>1, FramesFacts
  <2>2. CASE n + 1 # Len(frames)
    <3>1. n + 2 \in DOMAIN frames
      <4>1. \A a, b \in Nat : a < b /\ a + 1 # b => a + 2 \in 1 .. b
        OBVIOUS
      <4>2. n \in Nat /\ Len(frames) \in Nat /\ n < Len(frames) /\ n + 1 # Len(frames)
        BY <1>1, <1>4, <2>2
      <4>3. n + 2 \in 1 .. Len(frames)
        BY <4>1, <4>2
      <4> QED  BY <1>1, <4>3
    <3>2. PICK k \in DOMAIN frames : k = n + 2
      BY <3>1
    <3>3. k > 1 => frames[k].at = frames[k - 1].at + frames[k - 1].size
      BY DEF Layout
    <3>4. k > 1 /\ k - 1 = n + 1
      BY <1>1, <3>2
    <3>5. frames[k].at = frames[n + 1].at + frames[n + 1].size
      BY <3>3, <3>4
    <3> QED  BY <2>2, <3>2, <3>5
  <2> QED  BY <2>1, <2>2
<1> QED  BY <1>1, <1>4, <1>5, <1>6, <1>7, <1>8 DEF FrameType

\* It is the only one there.
LEMMA OnlyUpcoming ==
    ASSUME StreamInv, need > 0 \/ pos + HeaderLen <= arrived,
           NEW k \in DOMAIN frames,
           frames[k].at + (IF need = 0 THEN 0 ELSE HeaderLen) = pos
    PROVE  k = Len(decoded) + 1
<1>1. frames[k] \in FrameType
  BY FramesFacts DEF StreamInv
<1>2. frames[k].at = frames[Len(decoded) + 1].at
  <2>1. frames[k].at \in Nat
    BY <1>1 DEF FrameType
  <2> QED  BY <2>1, UpcomingFrame
<1> QED  BY <1>2, UpcomingFrame, OnePlace DEF StreamInv

\* The next frame is taken in whole.
LEMMA TakenIn ==
    ASSUME StreamInv, need > 0 \/ pos + HeaderLen <= arrived, UNCHANGED encVars,
           arrived' = arrived, need' = 0, stage \in {"node", "listener", "client"},
           stage' = IF Unreadable(frames[Len(decoded) + 1]) THEN "ended" ELSE stage,
           decoded' = Append(decoded, Len(decoded) + 1),
           pos' = frames[Len(decoded) + 1].at + frames[Len(decoded) + 1].size,
           pos' <= arrived
    PROVE  StreamInv'
<1> DEFINE n == Len(decoded)
<1>1. /\ n \in Nat /\ n < Len(frames) /\ n + 1 \in DOMAIN frames
      /\ frames[n + 1].at \in Nat /\ frames[n + 1].size \in Nat
      /\ frames[n + 1].at + frames[n + 1].size
            = IF n + 1 = Len(frames) THEN Written ELSE frames[n + 2].at
  BY UpcomingFrame
<1>2. decoded \in Seq(Nat) /\ n + 1 \in Nat /\ Len(frames) \in Nat
  BY <1>1, FramesFacts DEF StreamInv, StreamTypeOK
<1>3. /\ decoded' \in Seq(Nat) /\ Len(decoded') = n + 1
      /\ \A i \in 1 .. n : decoded'[i] = decoded[i]
      /\ decoded'[n + 1] = n + 1
  BY <1>2, AppendProperties
<1>4. DOMAIN decoded' = 1 .. n + 1 /\ DOMAIN decoded = 1 .. n
  BY <1>2, <1>3, LenProperties
<1>5. /\ msgs' = msgs /\ total' = total /\ names' = names
      /\ offset' = offset /\ frames' = frames
  BY DEF encVars
<1>6. pos' \in Nat
  BY <1>1
<1>7. StreamTypeOK'
  BY <1>3, <1>5, <1>6 DEF StreamInv, StreamTypeOK
<1>8. Written' = Written /\ Layout' /\ Tiling' /\ Ends'
  BY WriterKept
<1>9. AtFrame'
  <2>1. \A i \in DOMAIN decoded' : decoded'[i] = i
    <3>1. \A i \in 1 .. n : decoded[i] = i
      BY <1>4 DEF StreamInv, AtFrame
    <3> QED  BY <1>1, <1>3, <1>4, <3>1
  <2>2. Len(decoded') <= Len(frames')
    BY <1>1, <1>2, <1>3, <1>5
  <2>3. pos' = IF Len(decoded') = Len(frames') THEN Written' ELSE frames'[Len(decoded') + 1].at
    BY <1>1, <1>3, <1>5, <1>8
  <2>4. arrived <= Written /\ stage # "failed"
    BY DEF StreamInv, AtFrame
  <2> QED  BY <1>8, <2>1, <2>2, <2>3, <2>4 DEF AtFrame
<1>10. Patient'
  BY <1>5 DEF StreamInv, Patient, MaxPayload
<1>11. PingEnds'
  <2>1. frames[n + 1] \in FrameType
    BY <1>1, FramesFacts DEF StreamInv
  <2>2. Unreadable(frames[n + 1]) <=> stage = "listener" /\ frames[n + 1].kind = "ping"
    BY <1>1, <2>1 DEF Unreadable, StreamInv, PingEnds, FrameType
  <2>3. stage \in {"node", "client"} => stage' = stage
    BY <2>2
  <2>4. stage = "listener" => \A i \in 1 .. n : frames[i].kind # "ping"
    BY <1>4 DEF StreamInv, PingEnds
  <2>5. decoded' # <<>>
    BY <1>1, <1>3, LenEmpty
  <2>6. ASSUME stage = "listener", NEW i \in 1 .. n + 1
        PROVE  frames[i].kind = "ping" <=> stage' = "ended" /\ i = n + 1
    <3>1. CASE i = n + 1
      BY <2>2, <2>6, <3>1
    <3>2. CASE i # n + 1
      BY <1>1, <2>4, <2>6, <3>2
    <3> QED  BY <3>1, <3>2
  <2> HIDE DEF n
  <2> QED  BY <1>3, <1>4, <1>5, <2>3, <2>5, <2>6 DEF StreamInv, PingEnds
<1> QED  BY <1>7, <1>8, <1>9, <1>10, <1>11 DEF StreamInv

LEMMA ReadHeaderStep ==
    ASSUME StreamInv, ReadHeader
    PROVE  StreamInv'
<1> DEFINE n == Len(decoded)
<1>1. /\ UNCHANGED encVars /\ arrived' = arrived
      /\ stage \in {"node", "listener"} /\ need = 0 /\ pos + HeaderLen <= arrived
  BY DEF ReadHeader
<1>2. /\ n \in Nat /\ n < Len(frames) /\ n + 1 \in DOMAIN frames
      /\ frames[n + 1].at \in Nat /\ frames[n + 1].size \in Nat
      /\ pos = frames[n + 1].at + (IF need = 0 THEN 0 ELSE HeaderLen)
      /\ frames[n + 1].size > HeaderLen /\ frames[n + 1].size <= MaxFrame
  BY <1>1, UpcomingFrame
<1>3. Here(n + 1) /\ frames[n + 1].size - HeaderLen <= MaxFrame
  BY <1>1, <1>2 DEF Here
<1>4. /\ \E k \in DOMAIN frames : Here(k) /\ need' = frames[k].size - HeaderLen
      /\ pos' = pos + HeaderLen /\ stage' = stage /\ decoded' = decoded
  BY <1>2, <1>3 DEF ReadHeader
<1>5. PICK k \in DOMAIN frames : Here(k) /\ need' = frames[k].size - HeaderLen
  BY <1>4
<1>6. k = n + 1
  <2>1. frames[k] \in FrameType
    BY FramesFacts DEF StreamInv
  <2>2. frames[k].at + (IF need = 0 THEN 0 ELSE HeaderLen) = pos
    BY <1>1, <1>5, <2>1 DEF Here, FrameType
  <2> QED  BY <1>1, <2>2, OnlyUpcoming
<1>7. /\ need' = frames[n + 1].size - HeaderLen /\ need' \in Nat /\ need' > 0
      /\ pos' = frames[n + 1].at + HeaderLen /\ pos' \in Nat
  <2>1. need' = frames[n + 1].size - HeaderLen
    BY <1>5, <1>6
  <2>2. \A a, b \in Nat : a > b => a - b \in Nat /\ a - b > 0
    OBVIOUS
  <2>3. need' \in Nat /\ need' > 0
    BY <1>2, <2>1, <2>2
  <2>4. pos = frames[n + 1].at
    BY <1>1, <1>2
  <2>5. pos' = frames[n + 1].at + HeaderLen /\ pos' \in Nat
    BY <1>2, <1>4, <2>4
  <2> QED  BY <2>1, <2>3, <2>5
<1>8. StreamTypeOK'
  BY <1>1, <1>4, <1>7 DEF StreamInv, StreamTypeOK, encVars
<1>9. AtFrame'
  <2>1. Written' = Written /\ frames' = frames
    BY <1>1, WriterKept DEF encVars
  <2>2. Len(frames) \in Nat
    BY FramesFacts DEF StreamInv
  <2>3. pos' <= arrived
    BY <1>1, <1>4
  <2>4. Len(decoded') < Len(frames') /\ Len(decoded') # Len(frames') /\ need' # 0
    BY <1>2, <1>4, <1>7, <2>1, <2>2
  <2>5. /\ arrived <= Written /\ stage \in {"node", "listener"}
        /\ \A i \in DOMAIN decoded : decoded[i] = i
    BY <1>1 DEF StreamInv, AtFrame
  <2>6. Len(decoded') <= Len(frames')
    BY <1>2, <1>4, <2>1, <2>2
  <2>7. frames'[Len(decoded') + 1] = frames[n + 1]
    BY <1>4, <2>1
  <2>8. pos' <= arrived' /\ arrived' <= Written' /\ stage' # "failed" /\ stage' # "client"
    BY <1>1, <1>4, <2>1, <2>3, <2>5
  <2>9. \A i \in DOMAIN decoded' : decoded'[i] = i
    BY <1>4, <2>5
  <2>10. /\ pos' = frames'[Len(decoded') + 1].at + HeaderLen
         /\ need' = frames'[Len(decoded') + 1].size - HeaderLen
    BY <1>7, <2>7
  <2> QED  BY <2>4, <2>6, <2>8, <2>9, <2>10 DEF AtFrame
<1>10. Patient'
  BY <1>1, <1>4 DEF StreamInv, Patient, encVars, MaxPayload
<1>11. PingEnds'
  BY <1>1, <1>4 DEF StreamInv, PingEnds, encVars
<1> QED  BY <1>1, <1>8, <1>9, <1>10, <1>11, WriterKept DEF StreamInv

LEMMA ReadBodyStep ==
    ASSUME StreamInv, ReadBody
    PROVE  StreamInv'
<1> DEFINE n == Len(decoded)
<1>1. /\ UNCHANGED encVars /\ arrived' = arrived /\ stage \in {"node", "listener"}
      /\ need > 0 /\ pos' = pos + need /\ pos' <= arrived /\ need' = 0
  BY DEF ReadBody, ReadUpTo
<1>2. PICK k \in DOMAIN frames : /\ frames[k].at + HeaderLen = pos
                                 /\ decoded' = Append(decoded, k)
                                 /\ stage' = IF Unreadable(frames[k]) THEN "ended" ELSE stage
  BY DEF ReadBody, ReadUpTo
<1>3. need # 0
  BY <1>1 DEF StreamInv, StreamTypeOK
<1>4. k = n + 1
  BY <1>1, <1>2, <1>3, OnlyUpcoming
<1>5. /\ frames[n + 1].at \in Nat /\ frames[n + 1].size \in Nat
      /\ frames[n + 1].size > HeaderLen
  BY <1>1, UpcomingFrame
<1>6. need = frames[n + 1].size - HeaderLen
  BY <1>1 DEF StreamInv, AtFrame
<1>7. pos' = frames[n + 1].at + frames[n + 1].size
  BY <1>1, <1>2, <1>4, <1>5, <1>6
<1> QED  BY <1>1, <1>2, <1>4, <1>7, TakenIn

LEMMA HandOverStep ==
    ASSUME StreamInv, HandOver
    PROVE  StreamInv'
<1> USE DEF StreamInv
<1>1. /\ stage = "node" /\ decoded # <<>> /\ stage' = "listener" /\ pos' \in pos .. arrived
      /\ UNCHANGED encVars /\ arrived' = arrived /\ need' = need /\ decoded' = decoded
  BY DEF HandOver
<1>2. Len(frames) <= 1 /\ Len(frames) \in Nat /\ Written \in Nat
  BY <1>1, FramesFacts DEF Patient
<1>3. Len(decoded) \in Nat /\ Len(decoded) # 0
  BY <1>1, EmptySeq, LenProperties DEF StreamTypeOK
<1>4. Len(decoded) = Len(frames)
  BY <1>2, <1>3 DEF AtFrame
<1>5. need \in Nat /\ pos \in Nat /\ arrived \in Nat
  BY DEF StreamTypeOK
<1>6. pos = Written /\ need = 0
  BY <1>2, <1>4, <1>5 DEF AtFrame
<1>7. arrived <= Written
  BY DEF AtFrame
<1>8. pos' = pos
  BY <1>1, <1>2, <1>5, <1>6, <1>7
<1>9. StreamTypeOK'
  BY <1>1, <1>8 DEF StreamTypeOK, encVars
<1>10. AtFrame'
  <2>1. Written' = Written /\ frames' = frames
    BY <1>1, WriterKept DEF encVars
  <2> QED  BY <1>1, <1>8, <2>1 DEF AtFrame
<1>11. Patient'
  BY <1>1 DEF Patient
<1>12. PingEnds'
  <2>1. \A i \in DOMAIN decoded : i \in DOMAIN frames
    BY <1>4, FramesFacts, LenProperties DEF StreamTypeOK
  <2>2. \A i \in DOMAIN decoded : frames[i].kind = "message"
    BY <1>1, <2>1 DEF Patient
  <2> QED  BY <1>1, <2>2 DEF PingEnds, encVars
<1> QED  BY <1>1, <1>9, <1>10, <1>11, <1>12, WriterKept

LEMMA DecodeBasicStep ==
    ASSUME StreamInv, DecodeBasic
    PROVE  StreamInv'
<1> DEFINE n == Len(decoded)
<1>1. /\ UNCHANGED encVars /\ arrived' = arrived
      /\ stage = "client" /\ pos + HeaderLen <= arrived
  BY DEF DecodeBasic
<1>2. need = 0
  BY <1>1 DEF StreamInv, AtFrame
<1>3. /\ n + 1 \in DOMAIN frames
      /\ frames[n + 1].at \in Nat /\ frames[n + 1].size \in Nat
      /\ pos = frames[n + 1].at + (IF need = 0 THEN 0 ELSE HeaderLen)
  BY <1>1, UpcomingFrame
<1>4. Here(n + 1)
  BY <1>2, <1>3 DEF Here
<1>5. /\ \E k \in DOMAIN frames : /\ Here(k)
                                  /\ pos' = pos + frames[k].size
                                  /\ decoded' = Append(decoded, k)
      /\ pos' <= arrived /\ stage' = stage /\ need' = need
  BY <1>3, <1>4 DEF DecodeBasic
<1>6. PICK k \in DOMAIN frames : /\ Here(k)
                                 /\ pos' = pos + frames[k].size
                                 /\ decoded' = Append(decoded, k)
  BY <1>5
<1>7. k = n + 1
  <2>1. frames[k] \in FrameType
    BY FramesFacts DEF StreamInv
  <2>2. frames[k].at + (IF need = 0 THEN 0 ELSE HeaderLen) = pos
    BY <1>2, <1>6, <2>1 DEF Here, FrameType
  <2> QED  BY <1>1, <2>2, OnlyUpcoming
<1>8. pos' = frames[n + 1].at + frames[n + 1].size
  BY <1>2, <1>3, <1>6, <1>7
<1>9. ~Unreadable(frames[n + 1])
  BY <1>1 DEF Unreadable
<1> QED  BY <1>1, <1>2, <1>5, <1>6, <1>7, <1>8, <1>9, TakenIn

-----------------------------------------------------------------------------
\* encoder.rs, decoder.rs and the readers: the frames tile messages and stream, and
\* the reader is at the border of two of them, whatever the lengths are.
THEOREM Inductive == Spec => []StreamInv
<1>1. Init => StreamInv
  <2> SUFFICES ASSUME Init PROVE StreamInv
    OBVIOUS
  <2>1. /\ msgs = <<>> /\ total = 0 /\ names = 0 /\ offset = 0
        /\ frames = <<>> /\ arrived = 0 /\ stage \in {"node", "client"}
        /\ pos = 0 /\ need = 0 /\ decoded = <<>>
    BY DEF Init
  <2>2. StreamTypeOK
    BY <2>1, LenEmpty DEF StreamTypeOK
  <2>3. Written = 0
    BY <2>1 DEF Written
  <2> QED
    BY <2>1, <2>2, <2>3, LenEmpty
       DEF StreamInv, Layout, Tiling, Ends, AtFrame, Patient, PingEnds
<1>2. StreamInv /\ [Next]_streamVars => StreamInv'
  <2> SUFFICES ASSUME StreamInv, [Next]_streamVars PROVE StreamInv'
    OBVIOUS
  <2>1. ASSUME NEW size \in 0 .. MaxStream, NEW n \in NameLens, Start(size, n)
        PROVE  StreamInv'
    BY <2>1, StartStep
  <2>2. CASE Cut
    BY <2>2, CutStep
  <2>3. CASE Beat
    BY <2>3, BeatStep
  <2>4. CASE Arrive
    BY <2>4, ArriveStep
  <2>5. CASE Reader
    BY <2>5, ReadHeaderStep, ReadBodyStep, HandOverStep, DecodeBasicStep DEF Reader
  <2>6. CASE UNCHANGED streamVars
    <3>1. /\ UNCHANGED encVars /\ arrived' = arrived /\ stage' = stage
          /\ pos' = pos /\ need' = need /\ decoded' = decoded
      BY <2>6 DEF streamVars, readerVars
    <3>2. StreamTypeOK'
      BY <3>1 DEF StreamInv, StreamTypeOK, encVars
    <3>3. Written' = Written
      BY <3>1, WriterKept
    <3>4. AtFrame'
      BY <3>1, <3>3 DEF StreamInv, AtFrame, encVars
    <3>5. Patient'
      BY <3>1 DEF StreamInv, Patient, encVars, MaxPayload
    <3>6. PingEnds'
      BY <3>1 DEF StreamInv, PingEnds, encVars
    <3> QED  BY <3>1, <3>2, <3>4, <3>5, <3>6, WriterKept DEF StreamInv
  <2> QED  BY <2>1, <2>2, <2>3, <2>4, <2>5, <2>6 DEF Next
<1> QED  BY <1>1, <1>2, PTL DEF Spec

\* room.rs, lines 240-313, and decode_basic: however the bytes arrive, the reader
\* gets the frames that were written, in their order, and never loses its place; only
\* a client's ping ends the reading.
THEOREM NothingIsLost == Spec => []StreamIntact
<1>1. StreamInv => StreamIntact
  <2> SUFFICES ASSUME StreamInv PROVE StreamIntact
    OBVIOUS
  <2>1. stage # "failed" /\ \A i \in DOMAIN decoded : decoded[i] = i
    BY DEF StreamInv, AtFrame
  <2>2. stage \in {"listener", "ended"} =>
           (stage = "ended" <=> \E i \in DOMAIN decoded : frames[i].kind = "ping")
    <3>1. decoded # <<>> => Len(decoded) \in DOMAIN decoded
      <4>1. Len(decoded) \in Nat /\ DOMAIN decoded = 1 .. Len(decoded)
        BY LenProperties DEF StreamInv, StreamTypeOK
      <4>2. decoded # <<>> => Len(decoded) # 0
        BY EmptySeq DEF StreamInv, StreamTypeOK
      <4> QED  BY <4>1, <4>2
    <3> QED  BY <3>1 DEF StreamInv, PingEnds
  <2>3. ASSUME arrived = Written, Len(decoded) # Len(frames)
        PROVE  IF need = 0 THEN pos + HeaderLen <= arrived ELSE pos + need <= arrived
    <3> DEFINE n == Len(decoded)
    <3>1. n \in Nat /\ Len(frames) \in Nat /\ n < Len(frames) /\ need \in Nat
      <4>1. n \in Nat /\ need \in Nat
        BY LenProperties DEF StreamInv, StreamTypeOK
      <4>2. Len(frames) \in Nat
        BY FramesFacts DEF StreamInv
      <4> QED  BY <2>3, <4>1, <4>2 DEF StreamInv, AtFrame
    <3>2. n + 1 \in DOMAIN frames /\ frames[n + 1] \in FrameType
      BY <3>1, FramesFacts DEF StreamInv
    <3>3. /\ frames[n + 1].at \in Nat /\ frames[n + 1].size \in Nat /\ Written \in Nat
          /\ frames[n + 1].size > HeaderLen
          /\ frames[n + 1].at + frames[n + 1].size <= Written
      BY <3>2, FramesFacts DEF StreamInv, FrameType, Layout
    <3>4. CASE need = 0
      <4>1. pos = frames[n + 1].at
        BY <2>3, <3>4 DEF StreamInv, AtFrame
      <4> QED  BY <2>3, <3>3, <3>4, <4>1
    <3>5. CASE need # 0
      <4>1. need > 0
        BY <3>1, <3>5
      <4>2. pos = frames[n + 1].at + HeaderLen /\ need = frames[n + 1].size - HeaderLen
        BY <2>3, <4>1 DEF StreamInv, AtFrame
      <4> QED  BY <2>3, <3>3, <3>5, <4>2
    <3> QED  BY <3>4, <3>5
  <2> QED  BY <2>1, <2>2, <2>3 DEF StreamIntact
<1> QED  BY <1>1, Inductive, PTL
=============================================================================
