------------------------------ MODULE Message ------------------------------
(***************************************************************************)
(* fernq-core/src/protocol/message.rs: requests and responses as JSON      *)
(* objects, and the answers of validate.rs.  An object is what its fields  *)
(* hold: Absent, or Other where a field is there and is nothing the code   *)
(* knows; a state that is no unsigned number (as_u64) is NoNumber.  A root *)
(* that is no object has no fields.  Fields nobody asks for are left out.  *)
(* A definition marked "variant" is a plausible slip in the one after it.  *)
(***************************************************************************)
EXTENDS Integers

CONSTANTS Paths,     (* the paths of requests                *)
          Bodies     (* the JSON values of bodies, null too  *)

Absent   == "absent"
Other    == "other"
NoNumber == -1

Failed == [ok |-> FALSE]

ContentTypes == {"json", "form", "form_flow"}
States == 100 .. 599

\* as u16
Narrow(n) == n % 65536

\* Only JSON has a body (allows_body).
BodyOK(content_type, body) == content_type = "json" \/ body = Absent

-----------------------------------------------------------------------------
Request(content_type, path, body) ==
    [header_type |-> "request", content_type |-> content_type,
     path |-> path, state |-> NoNumber, body |-> body]

Response(content_type, state, body) ==
    [header_type |-> "response", content_type |-> content_type,
     path |-> Absent, state |-> state, body |-> body]

\* The objects encode_request() and encode_response() make of what they accept.
EncodeRequest(content_type, path, body) ==
    IF BodyOK(content_type, body)
    THEN [ok |-> TRUE, object |-> Request(content_type, path, body)] ELSE Failed

EncodeResponse(content_type, state, body) ==
    IF state \in States /\ BodyOK(content_type, body)
    THEN [ok |-> TRUE, object |-> Response(content_type, state, body)] ELSE Failed

-----------------------------------------------------------------------------
DecodeRequest(o) ==
    IF o.path \in Paths /\ BodyOK(o.content_type, o.body)
    THEN [ok |-> TRUE, message |-> Request(o.content_type, o.path, o.body)]
    ELSE Failed

\* (variant: the state is not checked)
DecodeResponseUnchecked(o) ==
    IF o.state # NoNumber /\ BodyOK(o.content_type, o.body)
    THEN [ok |-> TRUE, message |-> Response(o.content_type, Narrow(o.state), o.body)]
    ELSE Failed

\* The state is narrowed to 16 bits, then checked (lines 300-304).
DecodeResponse(o) ==
    IF /\ o.state # NoNumber /\ Narrow(o.state) \in States
       /\ BodyOK(o.content_type, o.body)
    THEN [ok |-> TRUE, message |-> Response(o.content_type, Narrow(o.state), o.body)]
    ELSE Failed

DecodeMessage(o) ==
    IF o.content_type \notin ContentTypes THEN Failed
    ELSE IF o.header_type = "request" THEN DecodeRequest(o)
    ELSE IF o.header_type = "response" THEN DecodeResponse(o)
    ELSE Failed

\* A decoded message encoded again, as a client that passes it on does.
Encode(m) == IF m.header_type = "request"
             THEN EncodeRequest(m.content_type, m.path, m.body)
             ELSE EncodeResponse(m.content_type, m.state, m.body)

\* The objects a peer may send, whatever it is written in: requests and responses,
\* each with every value of the fields that are asked for, and others.
Objects(numbers) ==
    LET types  == ContentTypes \cup {Other}
        bodies == Bodies \cup {Absent}
    IN {Request(t, p, b) : t \in types, p \in Paths \cup {Absent, Other}, b \in bodies}
       \cup {Response(t, n, b) : t \in types, n \in numbers \cup {NoNumber}, b \in bodies}
       \cup {[Request(t, p, Absent) EXCEPT !.header_type = Other] : t \in types, p \in Paths}
=============================================================================
