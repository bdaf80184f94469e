------------------------------ MODULE MCAccess ------------------------------
(***************************************************************************)
(* Instances of Access for TLC.                                            *)
(***************************************************************************)
EXTENDS Access, TLC

CONSTANTS h1, h2, word, r1, r2

V4(h) == [kind |-> "v4", host |-> h]
Mapped(h) == [kind |-> "mapped", host |-> h]

MCHosts == {h1, h2}
MCPlain == {word}
MCDraws == {r1, r2}

\* An ordinary prefix, none, one that looks like a stored one, and one too long.
MCPrefixes == {<<word>>, <<>>, <<word, "test", r1>>, <<word, word, word, word>>}

\* A dot, a blank and a character outside ASCII.
OddPrefixes == {<<word, "dot", word>>, <<word, "blank", word>>, <<word, "accent">>}

List(items) == [list |-> TRUE, items |-> items]
Bare(items) == [list |-> FALSE, items |-> items]

Read == <<"orders", "read">>

\* By name, by wildcards that cover it and that do not, and a bare string.
MCScopes == {List({Read}), List({<<"*">>}), List({<<"orders", "*">>}),
             List({<<"orders">>, <<"orders", "read", "*">>, <<"items", "*">>}),
             Bare({<<"o">>, <<"*">>})}

\* Nothing listed, an address, a block beside a dead entry, and no list.
MCIPs == {List({}), List({{V4(h1)}}), List({{V4(h1), V4(h2)}, {Mapped(h2)}}),
          List({Garbage}), Bare({{V4(h1)}})}

MCSources == {V4(h1), Mapped(h2), Garbage}

DRF(permissions, throttled) ==
    [framework |-> "drf", permissions |-> permissions, throttled |-> throttled]

MCViews == {[framework |-> "ninja", permissions |-> <<"scope">>, throttled |-> TRUE],
            DRF(<<"scope">>, TRUE), DRF(<<"ip", "scope">>, TRUE),
            DRF(<<>>, TRUE), DRF(<<"rate", "scope">>, FALSE), DRF(<<"rate", "scope">>, TRUE)}

MCRequired == {Read}
=============================================================================
