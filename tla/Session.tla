------------------------------ MODULE Session ------------------------------
(***************************************************************************)
(* What goes over one connection: Stream carries the bytes, Url and Message*)
(* say what they mean.  Towards the server, the client validates itself    *)
(* with the URL it was given (validate.rs), the node reads it, looks for   *)
(* the room (node.rs, lines 336-470) and answers; then come JSON objects.  *)
(* Towards a client, the server sends what create_message_response makes.  *)
(* Whoever is at the end of the stream reads the objects; the client is not*)
(* part of the repository, its library is.                                 *)
(***************************************************************************)
EXTENDS Stream, Url, Message

CONSTANTS Cases,     (* rooms, with URLs their clients may be given         *)
          Talkers,   (* bound: the cases in which objects are sent          *)
          Numbers,   (* the numbers that stand for a state                  *)
          NotFound   (* the state of the server's own responses             *)

ASSUME SessionAssumption ==
    /\ Talkers \subseteq Cases
    /\ \A c \in Cases : /\ c.url \in Seq(Tokens)
                        /\ c.room.name \in Seq(Tokens) /\ c.room.password \in Seq(Tokens)
    /\ Numbers \subseteq Nat /\ NotFound \in States

VARIABLES room,       (* the room on disk: its uuid, name and password      *)
          url,        (* the URL the client was given                       *)
          entry,      (* what the node made of it, NoEntry before           *)
          told,       (* the verify response: "nothing", "welcome", "refusal" *)
          objects,    (* the objects in the messages, NoObject for others   *)
          received    (* what the receiver has made of them                 *)

textVars == <<room, url, entry, told, objects, received>>
sessionVars == <<streamVars, textVars>>

NoObject == Request(Other, Other, Absent)

SessionInit == /\ Init
               /\ \E c \in IF stage = "client" THEN Talkers ELSE Cases :
                     room = c.room /\ url = c.url
               /\ entry = NoEntry /\ told = "nothing"
               /\ objects = <<>> /\ received = <<>>

-----------------------------------------------------------------------------
\* create_validate(): the URL as it is, if its address will do.
Validate ==
    /\ stage = "node"
    /\ CreateValidate(url)
    /\ \E size \in 1 .. MaxStream, n \in NameLens : Start(size, n)
    /\ objects' = Append(objects, NoObject)
    /\ UNCHANGED <<room, url, entry, told, received>>

IsRoom(e) == e.ok /\ e.uuid = room.uuid /\ e.name = room.name /\ e.password = room.password

\* The node has read the first frame; the URL must be that of the room.
Enter ==
    /\ HandOver
    /\ entry' = ParseValidate(url)
    /\ IsRoom(entry')
    /\ told' = "welcome"
    /\ UNCHANGED <<room, url, objects, received>>

Refuse ==
    /\ stage = "node" /\ decoded # <<>> /\ told = "nothing"
    /\ entry' = ParseValidate(url)
    /\ ~IsRoom(entry')
    /\ told' = "refusal"
    /\ UNCHANGED <<streamVars, room, url, objects, received>>

\* A peer may send anything; the server encodes its responses.
Sendable == IF stage = "client"
            THEN {EncodeResponse("json", NotFound, b).object : b \in Bodies}
            ELSE Objects(Numbers)

SendObject ==
    /\ stage # "node" /\ [room |-> room, url |-> url] \in Talkers
    /\ \E size \in 1 .. MaxStream, n \in NameLens : Start(size, n)
    /\ \E o \in Sendable : objects' = Append(objects, o)
    /\ UNCHANGED <<room, url, entry, told, received>>

SendNothing ==
    /\ stage # "node" /\ [room |-> room, url |-> url] \in Talkers
    /\ \E n \in NameLens : Start(0, n)
    /\ objects' = Append(objects, NoObject)
    /\ UNCHANGED <<room, url, entry, told, received>>

\* The objects the last frames of which were decoded.
Complete == {m \in DOMAIN objects :
                /\ objects[m] # NoObject
                /\ \E i \in DOMAIN decoded : LET f == frames[decoded[i]]
                                             IN f.kind = "message" /\ f.msg = m /\ f.end}

Seen == {received[i].msg : i \in DOMAIN received}

\* decode_from_bytes(), as soon as a message is complete.
Receive ==
    /\ Complete # Seen
    /\ LET m == First(Complete \ Seen)
       IN received' = Append(received, [msg |-> m, as |-> DecodeMessage(objects[m])])
    /\ UNCHANGED <<streamVars, room, url, entry, told, objects>>

\* What moves the bytes and leaves their meaning alone.
Carry(Step) == Step /\ UNCHANGED textVars

SessionNext == \/ Validate \/ Enter \/ Refuse
               \/ SendObject \/ SendNothing \/ Receive
               \/ Carry(Cut) \/ Carry(Beat) \/ Carry(Arrive)
               \/ Carry(ReadHeader) \/ Carry(ReadBody) \/ Carry(DecodeBasic)

Session == SessionInit /\ [][SessionNext]_sessionVars

-----------------------------------------------------------------------------
(* What must hold *)

\* validate.rs: the URL printed for a room lets its holder in if name and password
\* can be said in a URL, and does not otherwise; and whatever URL client and node
\* accept, however it is written, the one printed for what the node found in it means
\* the same.
UrlRoundTrip ==
    /\ told = "welcome" => Sayable(room.name, room.password)
    /\ told = "refusal" => \/ ~Sayable(room.name, room.password)
                           \/ \A u \in DOMAIN UuidOf : UuidOf[u] = room.uuid =>
                                url # Printed(Address(url), u, room.name, room.password)
    /\ entry.ok => \A u \in DOMAIN UuidOf :
          UuidOf[u] = entry.uuid =>
             LET again == Printed(Address(url), u, entry.name, entry.password)
             IN CreateValidate(again) /\ ParseValidate(again) = entry

\* message.rs: the objects are read in the order they were sent.  What is accepted
\* can be encoded again and decodes to the same; nothing of a message is changed,
\* but for a state that does not fit into 16 bits.  Every response the server
\* makes is understood.
MessageRoundTrip ==
    \A i \in DOMAIN received :
        LET m == received[i].msg
            o == objects[m]
            r == received[i].as
        IN /\ \A j \in 1 .. i - 1 : received[j].msg < m
           /\ stage = "client" => r.ok /\ r.message = o
           /\ r.ok =>
                LET again == Encode(r.message)
                IN /\ again.ok
                   /\ DecodeMessage(again.object) = r
                   /\ r.message.header_type = o.header_type
                   /\ r.message.content_type = o.content_type
                   /\ r.message.body = o.body
                   /\ o.header_type = "request" => r.message.path = o.path
                   /\ o.header_type = "response" =>
                         (r.message.state = o.state <=> o.state < 65536)
=============================================================================
