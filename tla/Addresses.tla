----------------------------- MODULE Addresses ------------------------------
(***************************************************************************)
(* IP addresses, the networks of an allowlist, and is_ip_allowed().        *)
(***************************************************************************)

CONSTANTS
    Hosts,          \* abstract hosts behind the addresses
    Garbage         \* text that is no IP address and no network

\* "mapped" is the IPv6 form ::ffff:a.b.c.d of an IPv4 address.
Address == [kind : {"v4", "v6", "mapped"}, host : Hosts]

\* An entry of an allowlist: the addresses of one IP version that it covers.
NetworkOrText == {Garbage} \cup (SUBSET {a \in Address : a.kind = "v4"})
                           \cup (SUBSET {a \in Address : a.kind # "v4"})

ASSUME AddressAssumption == Garbage \notin Address

Unmapped(a) == IF a.kind = "mapped" THEN [a EXCEPT !.kind = "v4"] ELSE a

\* Two ways to write one address.
SameAddress(a, b) == Unmapped(a) = Unmapped(b)

BugIsIPAllowed(list, a) ==
    \/ list = {}
    \/ a # Garbage /\ \E e \in list : e # Garbage /\ a \in e

\* Anything goes where nothing is listed; no text that is not an address
\* matches, and an entry that is not a network is skipped.
IsIPAllowed(list, a) ==
    \/ list = {}
    \/ a # Garbage /\ \E e \in list : e # Garbage /\ Unmapped(a) \in e
=============================================================================
