-------------------------------- MODULE Url --------------------------------
(***************************************************************************)
(* fernq-core/src/protocol/validate.rs: the URL of a room, as the client   *)
(* checks it (create_validate) and the node reads it (parse_validate):     *)
(*     fernq://host:port/uuid#name?room_pass=password                      *)
(* A URL is a sequence of tokens: the marks the code looks for, each one a *)
(* token wherever it stands, and the texts of UUIDs, of ports and of words *)
(* between them.  A definition marked "variant" is a plausible slip in the *)
(* one after it.                                                           *)
(***************************************************************************)
EXTENDS Naturals, Sequences

CONSTANTS Tokens,     (* marks, words and other texts                           *)
          UuidOf,     (* the texts of UUIDs, to what they mean ...              *)
          Hyphenated, (* ... and those in the form with hyphens and no braces   *)
          Ports       (* the texts that are a number of 16 bits                 *)

Prefix == <<"fernq", ":", "/", "/">>
Urn    == <<"urn", ":", "uuid", ":">>
Pass   == "room_pass="

\* None of the texts of a UUID holds a character the code looks for; "urn:uuid:..." is
\* more than one token.
ASSUME UrlAssumption == /\ {"fernq", ":", "/", "?", "#", Pass} \subseteq Tokens
                        /\ DOMAIN UuidOf \subseteq Tokens \ {":", "/", "?", "#"}
                        /\ Hyphenated \subseteq DOMAIN UuidOf

NoEntry == [ok |-> FALSE]

-----------------------------------------------------------------------------
(* str::find() and rfind() of any of some marks, 0 for None; slices *)

Places(text, marks) == {i \in DOMAIN text : text[i] \in marks}

First(places) == CHOOSE i \in places : \A j \in places : i <= j
Last(places)  == CHOOSE i \in places : \A j \in places : j <= i

Find(text, marks)  == LET at == Places(text, marks) IN IF at = {} THEN 0 ELSE First(at)
RFind(text, marks) == LET at == Places(text, marks) IN IF at = {} THEN 0 ELSE Last(at)

Before(text, i) == SubSeq(text, 1, i - 1)
Beyond(text, i) == SubSeq(text, i + 1, Len(text))

StopAt(text, marks) == LET i == Find(text, marks)
                       IN IF i = 0 THEN text ELSE Before(text, i)

-----------------------------------------------------------------------------
(* The client: create_validate() up to the frame *)

StartsWith(text, start) == /\ Len(start) <= Len(text)
                           /\ SubSeq(text, 1, Len(start)) = start

IsPort(text) == Len(text) = 1 /\ text[1] \in Ports

\* Lines 181-207: behind the last colon there is a port, before it a host.
HostOK(addr) == LET colon == RFind(addr, {":"})
                IN colon > 0 => IsPort(Beyond(addr, colon)) /\ colon > 1

\* Lines 210-230: behind the bracket there is nothing, or a colon and a port.
Ipv6OK(addr) ==
    LET close == Find(addr, {"]"})
        rest  == Beyond(addr, close)
    IN close > 0 /\ (rest # <<>> => rest[1] = ":" /\ IsPort(Tail(rest)))

Address(url) == StopAt(Beyond(url, Len(Prefix)), {"/", "?", "#"})

\* The URL is sent as it is; the address is where the client connects to.
CreateValidate(url) ==
    /\ StartsWith(url, Prefix)
    /\ LET addr == Address(url)
       IN addr # <<>> /\ IF addr[1] = "[" THEN Ipv6OK(addr) ELSE HostOK(addr)

-----------------------------------------------------------------------------
(* The node: parse_validate() *)

\* Lines 233-250: all behind the first question mark is the query; of its
\* parameters, which "&" separates, the first called room_pass counts.
ExtractPassword(url) ==
    LET mark  == Find(url, {"?"})
        query == Beyond(url, mark)
        pass  == {i \in Places(query, {Pass}) : i = 1 \/ query[i - 1] = "&"}
        value == StopAt(Beyond(query, First(pass)), {"&"})
    IN IF mark = 0 \/ pass = {} \/ value = <<>> THEN NoEntry
       ELSE [ok |-> TRUE, base |-> Before(url, mark), text |-> value]

\* Lines 253-265: the name is what follows the first "#".
NameAt(url, hash) ==
    IF hash = 0 \/ hash = Len(url) THEN NoEntry
    ELSE [ok |-> TRUE, base |-> Before(url, hash), text |-> Beyond(url, hash)]

\* (variant: the last "#")
ExtractNameFromLast(url) == NameAt(url, RFind(url, {"#"}))

ExtractName(url) == NameAt(url, Find(url, {"#"}))

\* Uuid::parse_str(): a UUID in any of its forms, or in one of them behind "urn:uuid:".
UuidIn(text) ==
    IF Len(text) = 1 /\ text[1] \in DOMAIN UuidOf
    THEN [ok |-> TRUE, uuid |-> UuidOf[text[1]]]
    ELSE IF Len(text) = 5 /\ StartsWith(text, Urn) /\ text[5] \in Hyphenated
         THEN [ok |-> TRUE, uuid |-> UuidOf[text[5]]] ELSE NoEntry

\* Lines 268-280: what follows the last "/", one of those of the prefix if there is no
\* other.
ExtractUuid(path) == UuidIn(Beyond(path, RFind(path, {"/"})))

ParseValidate(url) ==
    LET password == ExtractPassword(url)
        name     == ExtractName(password.base)
        uuid     == ExtractUuid(name.base)
    IN IF StartsWith(url, Prefix) /\ password.ok /\ name.ok /\ uuid.ok
       THEN [ok |-> TRUE, uuid |-> uuid.uuid, name |-> name.text, password |-> password.text]
       ELSE NoEntry

-----------------------------------------------------------------------------
\* The URL of a room, in the form lines 11-12 show; "uuid" is one of its texts.
Printed(addr, uuid, name, password) ==
    Prefix \o addr \o <<"/">> \o <<uuid>> \o <<"#">> \o name
        \o <<"?">> \o (<<Pass>> \o password)

\* The names and passwords a URL can carry.
Has(text, mark) == Places(text, {mark}) # {}
Sayable(name, password) == /\ name # <<>> /\ ~Has(name, "?")
                           /\ password # <<>> /\ ~Has(password, "&")
=============================================================================
