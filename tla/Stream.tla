------------------------------- MODULE Stream -------------------------------
(***************************************************************************)
(* fernq-core/src/protocol, encoder.rs and decoder.rs, with the readers of *)
(* the server (room.rs lines 222-313, node.rs lines 264-336): one writer   *)
(* cuts messages into frames, the bytes arrive in pieces of any size, and  *)
(* a reader finds the frames again.  Towards the server that is the node   *)
(* for the first frame and the listener for the others; towards a client   *)
(* it is decode_basic on the bytes it has collected.                       *)
(* A frame is where it lies in the stream and what its fields say; a reader*)
(* that looks for a frame where none begins finds no magic number.         *)
(* A definition marked "variant" is a plausible slip in the one after it.  *)
(***************************************************************************)
EXTENDS Naturals, Sequences

CONSTANTS HeaderLen,    (* FIXED_HEADER_LEN                                *)
          CrcLen,       (* the checksum                                    *)
          FixedLen,     (* MESSAGE_FIXED_LEN: all but names and payload    *)
          MaxFrame,     (* MAX_FRAME_SIZE                                  *)
          MaxStream,    (* MAX_STREAM_LENGTH                               *)
          NameLens,     (* what the names of source and target may measure *)
          MaxMessages,  (* bound on the messages of a stream ...           *)
          MaxFrames     (* ... and on its frames, for pings and pongs      *)

ASSUME StreamAssumption ==
    /\ HeaderLen \in Nat \ {0} /\ CrcLen \in Nat \ {0}
    /\ FixedLen \in Nat /\ FixedLen > HeaderLen + CrcLen
    /\ MaxFrame \in Nat /\ MaxStream \in Nat
    /\ MaxMessages \in Nat /\ MaxFrames \in Nat
    /\ HeaderLen + CrcLen <= MaxFrame
    /\ NameLens \subseteq Nat
    /\ \A n \in NameLens : FixedLen + n < MaxFrame  \* encoder.rs line 84

VARIABLES msgs,      (* the lengths of the messages handed in              *)
          total,     (* the encoder: length of the message being cut, ...  *)
          names,     (* ... of the names in its frames, ...                *)
          offset,    (* ... and how much of it is cut                      *)
          frames,    (* the frames that were written                       *)
          arrived,   (* how many bytes have arrived                        *)
          stage,     (* who reads: "node", "listener", "client"; "ended": a
                        ping ended it; "failed": it lost its place         *)
          pos,       (* how many bytes it has consumed                     *)
          need,      (* what it still wants of a frame, 0 before a header  *)
          decoded    (* the numbers of the frames it got                   *)

encVars    == <<msgs, total, names, offset, frames>>
readerVars == <<stage, pos, need, decoded>>
streamVars == <<encVars, arrived, readerVars>>

Init == /\ msgs = <<>> /\ total = 0 /\ names = 0 /\ offset = 0
        /\ frames = <<>> /\ arrived = 0
        /\ stage \in {"node", "client"}
        /\ pos = 0 /\ need = 0 /\ decoded = <<>>

-----------------------------------------------------------------------------
(* generate_message_data_stream(), ping_frame(), pong_frame() *)

MaxPayload(n) == MaxFrame - FixedLen - n

Written == IF frames = <<>> THEN 0
           ELSE frames[Len(frames)].at + frames[Len(frames)].size

\* A message to be sent.  A client's first is its validation, one frame, and
\* its next waits for the answer, which the node gives when it is done.
Start(size, n) ==
    /\ total = 0 /\ Len(msgs) < MaxMessages
    /\ size <= MaxStream
    /\ stage = "node" => msgs = <<>> /\ size \in 1 .. MaxPayload(n)
    /\ msgs' = Append(msgs, size)
    /\ total' = size
    /\ names' = n
    /\ UNCHANGED <<offset, frames, arrived, readerVars>>

CutOff(max) ==
    /\ total > 0
    /\ LET len  == IF max < total - offset THEN max ELSE total - offset
           last == offset + len >= total
       IN /\ frames' = Append(frames,
                [kind |-> "message", at |-> Written, size |-> FixedLen + names + len,
                 names |-> names, msg |-> Len(msgs), off |-> offset, end |-> last])
          /\ offset' = IF last THEN 0 ELSE offset + len
          /\ total' = IF last THEN 0 ELSE total
    /\ UNCHANGED <<msgs, names, arrived, readerVars>>

\* (variant: the names do not count)
CutIgnoringNames == CutOff(MaxFrame - FixedLen)

\* One turn of the loop; a message of length 0 gets none.
Cut == CutOff(MaxPayload(names))

\* A ping or pong, between two frames: the server sends pings only, a client may
\* send either.
Beat == /\ stage # "node" /\ Len(frames) < MaxFrames
        /\ \E kind \in IF stage = "client" THEN {"ping"} ELSE {"ping", "pong"} :
              frames' = Append(frames,
                 [kind |-> kind, at |-> Written, size |-> HeaderLen + CrcLen,
                  names |-> 0, msg |-> Len(msgs), off |-> offset, end |-> TRUE])
        /\ UNCHANGED <<msgs, total, names, offset, arrived, readerVars>>

Arrive == /\ \E n \in arrived + 1 .. Written : arrived' = n
          /\ UNCHANGED <<encVars, readerVars>>

-----------------------------------------------------------------------------
(* The readers *)

Here(k) == frames[k].at = pos

Fail == stage' = "failed" /\ UNCHANGED <<pos, need, decoded>>

\* read_exact() of a header, decode_header() and the check of the length.
ReadHeader ==
    /\ stage \in {"node", "listener"} /\ need = 0
    /\ pos + HeaderLen <= arrived
    /\ IF \E k \in DOMAIN frames : Here(k) /\ frames[k].size - HeaderLen <= MaxFrame
       THEN /\ \E k \in DOMAIN frames : Here(k) /\ need' = frames[k].size - HeaderLen
            /\ pos' = pos + HeaderLen
            /\ UNCHANGED <<stage, decoded>>
       ELSE Fail
    /\ UNCHANGED <<encVars, arrived>>

\* The listener knows pongs; in all else it looks for a channel id, and a ping is
\* too short to have one (room.rs lines 273-291).
Unreadable(f) == stage = "listener" /\ f.kind # "pong" /\ f.size < FixedLen

ReadUpTo(end) ==
    /\ stage \in {"node", "listener"} /\ need > 0
    /\ end <= arrived
    /\ pos' = end /\ need' = 0
    /\ \E k \in DOMAIN frames : /\ frames[k].at + HeaderLen = pos
                                /\ decoded' = Append(decoded, k)
                                /\ stage' = IF Unreadable(frames[k]) THEN "ended" ELSE stage
    /\ UNCHANGED <<encVars, arrived>>

\* (variant: the checksum is not counted)
ReadWithoutCrc == ReadUpTo(pos + need - CrcLen)

\* read_exact() of the rest.
ReadBody == ReadUpTo(pos + need)

\* The node is done with the first frame: into_inner() drops what its BufReader
\* holds beyond it.
HandOver ==
    /\ stage = "node" /\ decoded # <<>>
    /\ stage' = "listener"
    /\ pos' \in pos .. arrived
    /\ UNCHANGED <<encVars, arrived, need, decoded>>

\* decode_basic(), once the bytes hold a frame; until then it asks for more.
DecodeBasic ==
    /\ stage = "client"
    /\ pos + HeaderLen <= arrived
    /\ IF \E k \in DOMAIN frames : Here(k)
       THEN /\ \E k \in DOMAIN frames : /\ Here(k)
                                        /\ pos' = pos + frames[k].size
                                        /\ decoded' = Append(decoded, k)
            /\ pos' <= arrived
            /\ UNCHANGED <<stage, need>>
       ELSE Fail
    /\ UNCHANGED <<encVars, arrived>>

Reader == ReadHeader \/ ReadBody \/ HandOver \/ DecodeBasic

Next == \/ \E size \in 0 .. MaxStream, n \in NameLens : Start(size, n)
        \/ Cut \/ Beat \/ Arrive \/ Reader

Spec == Init /\ [][Next]_streamVars

-----------------------------------------------------------------------------
(* What must hold *)

FrameType == [kind : {"message", "ping", "pong"}, at : Nat, size : Nat, names : Nat,
              msg : Nat, off : Nat, end : BOOLEAN]

StreamTypeOK ==
    /\ msgs \in Seq(0 .. MaxStream)
    /\ total \in 0 .. MaxStream /\ names \in Nat
    /\ total > 0 => names \in NameLens /\ msgs # <<>> /\ total = msgs[Len(msgs)]
    /\ offset \in Nat /\ (total > 0 => offset < total) /\ (total = 0 => offset = 0)
    /\ frames \in Seq(FrameType)
    /\ arrived \in Nat
    /\ stage \in {"node", "listener", "client", "ended", "failed"}
    /\ pos \in Nat /\ need \in Nat
    /\ decoded \in Seq(Nat)

\* The payload parse_message() finds in a frame: what the names leave of it.
PayloadLen(f) == IF f.kind = "message" THEN f.size - FixedLen - f.names ELSE 0

\* Where the encoder stands after frame f.
After(f) == IF f.kind = "message" /\ f.end THEN 0 ELSE f.off + PayloadLen(f)

\* The frames lie one behind the other, and none is longer than a reader takes.
Layout == \A k \in DOMAIN frames :
    /\ frames[k].size > HeaderLen /\ frames[k].size <= MaxFrame
    /\ frames[k].at + frames[k].size <= Written
    /\ k = 1 => frames[k].at = 0
    /\ k > 1 => frames[k].at = frames[k - 1].at + frames[k - 1].size
    /\ \A j \in DOMAIN frames : j < k => frames[j].at + frames[j].size <= frames[k].at

\* The payloads of the frames of a message are its data, cut without a gap or an
\* overlap; only the last is marked as the end of the stream.
Tiling ==
    /\ \A k \in DOMAIN frames : LET f == frames[k] IN
          /\ k = 1 => f.off = 0
          /\ k > 1 => f.off = After(frames[k - 1])
          /\ f.msg <= Len(msgs)
          /\ f.kind = "message" =>
                /\ f.msg \in DOMAIN msgs
                /\ PayloadLen(f) > 0
                /\ f.off + PayloadLen(f) <= msgs[f.msg]
                /\ f.end <=> f.off + PayloadLen(f) = msgs[f.msg]
    /\ offset = IF frames = <<>> THEN 0 ELSE After(frames[Len(frames)])

\* A message with data comes to its end; one without leaves no trace (line 100).
Ends == \A m \in DOMAIN msgs :
    /\ m < Len(msgs) \/ total = 0 =>
          (msgs[m] > 0 <=> \E k \in DOMAIN frames : /\ frames[k].kind = "message"
                                                   /\ frames[k].msg = m /\ frames[k].end)
    /\ msgs[m] = 0 => \A k \in DOMAIN frames :
                         frames[k].kind = "message" => frames[k].msg # m

\* The reader is at the border of two frames, or behind a header.
AtFrame ==
    LET n == Len(decoded)
        next == IF n = Len(frames) THEN Written ELSE frames[n + 1].at
    IN /\ n <= Len(frames)
       /\ \A i \in DOMAIN decoded : decoded[i] = i
       /\ pos <= arrived /\ arrived <= Written
       /\ need = 0 => pos = next
       /\ need > 0 => /\ n < Len(frames)
                      /\ pos = next + HeaderLen
                      /\ need = frames[n + 1].size - HeaderLen
       /\ stage # "failed"
       /\ stage = "client" => need = 0

\* Until it has its answer, the client sends its validation alone.
Patient == stage = "node" => /\ Len(msgs) <= 1 /\ Len(frames) <= 1
                             /\ msgs = <<>> => frames = <<>>
                             /\ total > 0 => frames = <<>> /\ total <= MaxPayload(names)
                             /\ \A k \in DOMAIN frames : frames[k].kind = "message"

\* A ping is the last that is read of a client, and nothing else ends the reading.
PingEnds ==
    /\ \A k \in DOMAIN frames : frames[k].size < FixedLen <=> frames[k].kind # "message"
    /\ stage = "ended" => decoded # <<>>
    /\ stage \in {"listener", "ended"} => \A i \in DOMAIN decoded :
          frames[i].kind = "ping" <=> stage = "ended" /\ i = Len(decoded)

\* The inductive invariant.
StreamInv == StreamTypeOK /\ Layout /\ Tiling /\ Ends /\ AtFrame /\ Patient /\ PingEnds

\* However the bytes arrive, the reader gets the frames that were written, all
\* of them and in their order, never loses its place, and waits for bytes only
\* where a frame is not complete yet.  What ends the reading of a client is the
\* first ping it sends, and that alone.
StreamIntact ==
    /\ stage # "failed"
    /\ \A i \in DOMAIN decoded : decoded[i] = i
    /\ stage \in {"listener", "ended"} =>
          (stage = "ended" <=> \E i \in DOMAIN decoded : frames[i].kind = "ping")
    /\ arrived = Written /\ stage # "ended" => \/ Len(decoded) = Len(frames)
                            \/ IF need = 0 THEN pos + HeaderLen <= arrived
                               ELSE pos + need <= arrived
=============================================================================
