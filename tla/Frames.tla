------------------------------- MODULE Frames -------------------------------
(***************************************************************************)
(* fernq-core/src/protocol/frame.rs: what the server reads of a frame, its *)
(* flags, its channel, and the names of its source and target; and what    *)
(* each connection is going to send.  A frame is known by the connection   *)
(* it came over and its number there: that pair is a task of a worker.     *)
(***************************************************************************)
EXTENDS Naturals, Sequences

CONSTANTS Conns,     (* connections                                        *)
          Names,     (* the names they log in under                        *)
          NameOf,    (* the name of each                                   *)
          Channels,  (* channel ids                                        *)
          Script     (* the frames each connection sends, in order         *)

Flags == {"END_STREAM", "END_CHANNEL", "IS_RESPONSE"}
FrameType == [chan : Channels, from : Names, to : Names, flags : SUBSET Flags]

ASSUME FramesAssumption == /\ NameOf \in [Conns -> Names]
                           /\ Script \in [Conns -> Seq(FrameType)]

MessageFlags(endStream, endChannel, isResponse) ==
    {f \in Flags : \/ f = "END_STREAM" /\ endStream
                   \/ f = "END_CHANNEL" /\ endChannel
                   \/ f = "IS_RESPONSE" /\ isResponse}

Tasks == UNION {[conn : {c}, n : 1 .. Len(Script[c])] : c \in Conns}
Frame(t) == Script[t.conn][t.n]

\* The frame that ends a request and its channel: the only one answered 404.
EndsRequest(t) == /\ {"END_STREAM", "END_CHANNEL"} \subseteq Frame(t).flags
                  /\ "IS_RESPONSE" \notin Frame(t).flags
=============================================================================
