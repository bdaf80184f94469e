----------------------------- MODULE MCClientIP -----------------------------
(***************************************************************************)
(* Instances of ClientIP for TLC.                                          *)
(***************************************************************************)
EXTENDS ClientIP

CONSTANTS h1, h2, p1, p2

V4(h) == [kind |-> "v4", host |-> h]
V6(h) == [kind |-> "v6", host |-> h]
Mapped(h) == [kind |-> "mapped", host |-> h]

MCHosts == {h1, h2, p1, p2}
MCProxies == <<V4(p1), V4(p2)>>
MCClients == {V4(h1), V6(h1), Mapped(h1), V4(h2)}
MCWords == {V4(h1), V4(h2), Garbage}

\* Two addresses, a CIDR block, an IPv6 block with its mapped part, and text.
PlainNetworks == {{V4(h1)}, {V4(h1), V4(h2)}, {V6(h1)}, Garbage}
MCNetworks == PlainNetworks \cup {{Mapped(h1)}, {V6(h) : h \in MCHosts} \cup
                                                {Mapped(h) : h \in MCHosts}}
=============================================================================
