----------------------------- MODULE MCSession -----------------------------
(* Instances of Session for TLC: names and passwords of up to two tokens, and URLs *)
(* that are written otherwise, or not well.                                        *)
EXTENDS Session

MCTokens == {"fernq", "http", Pass, "/", "?", "#", "&", ":", "[", "]",
             "host", "80", "big", "1", "w", "urn", "uuid", "u1", "U1", "u2"}

MCUuidOf == [u1 |-> "room1", U1 |-> "room1", u2 |-> "room2"]

Texts(tokens) == {<<>>} \cup {<<a>> : a \in tokens} \cup {<<a, b>> : a \in tokens, b \in tokens}

RoomOf(name, password) == [uuid |-> "room1", name |-> name, password |-> password]

Plain == RoomOf(<<"w">>, <<"w">>)

Host == <<"host", ":", "80">>

\* The URL of every room.
PrintedCases ==
    {[room |-> RoomOf(n, p), url |-> Printed(Host, "u1", n, p)] :
        n \in Texts({"w", "#", "?", "/", "&", Pass}), p \in Texts({"w", "&", "?", "#"})}

\* Addresses, with and without a port.
Addresses ==
    {<<>>, <<"host">>, Host, <<"host", ":">>, <<":", "80">>, <<"host", ":", "big">>,
     <<"[", "1", "]">>, <<"[", "1", ":", "1", "]", ":", "80">>, <<"[", "1">>,
     <<"[", "1", "]", "80">>, <<"[", "1", "]", ":", "big">>}

OddUrls ==
    {Printed(a, u, <<"w">>, <<"w">>) : a \in Addresses, u \in {"u1", "U1", "u2", "w"}} \cup
    {Prefix \o tail : tail \in
        {<<"u1", "#", "w", "?", Pass, "w">>,                   \* no path at all
         <<"u1", "?", Pass, "w">>,
         Urn \o <<"u1", "#", "w", "?", Pass, "w">>,
         <<"host", "u1", "#", "w", "?", Pass, "w">>,
         Prefix \o <<"u1", "#", "w", "?", Pass, "w">>}} \cup
    {Prefix \o <<"host">> \o tail : tail \in
        {<<"/", "u1", "?", Pass, "w", "#", "w">>,              \* the usual order
         <<"/", "u1", "#", "w">>,
         <<"/", "u1", "?", Pass, "w">>,
         <<"/", "#", "w", "?", Pass, "w">>,
         <<"/">> \o Urn \o <<"u1", "#", "w", "?", Pass, "w">>,
         <<"/">> \o Urn \o <<"U1", "#", "w", "?", Pass, "w">>,
         <<"/", "w", "/", "u1", "#", "w", "?", Pass, "w">>,
         <<"/", "u1", "/", "#", "w", "?", Pass, "w">>,
         <<"/">> \o Prefix \o <<"u1", "#", "w", "?", Pass, "w">>,
         <<"/", "u1", "#", "w", "?", "w", "&", Pass, "w", "&", "w">>,
         <<"/", "u1", "#", "w", "?", "w", Pass, "w">>,
         <<"/", "u1", "#", "w", "?", Pass, "w", "&", Pass, "u1">>}} \cup
    {<<"fernq", ":", "/", "u1", "#", "w", "?", Pass, "w">>,
     <<"http", ":", "/", "/", "host", "/", "u1", "#", "w", "?", Pass, "w">>}

MCTalkers == {[room |-> Plain, url |-> Printed(Host, "u1", <<"w">>, <<"w">>)]}

MCCases == PrintedCases \cup {[room |-> Plain, url |-> u] : u \in OddUrls}
=============================================================================
