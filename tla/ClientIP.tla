------------------------------ MODULE ClientIP ------------------------------
(***************************************************************************)
(* Where a request comes from, and whether its key's allowlist covers      *)
(* that: get_client_ip() at the end of a chain of trusted proxies, and     *)
(* is_ip_allowed().  One request at a time travels from a client through   *)
(* the proxies to Django; every forwarded entry remembers who wrote it.    *)
(***************************************************************************)
EXTENDS Addresses, Integers, Sequences

CONSTANTS
    Proxies,        \* the addresses of the trusted proxies, outermost first
    Clients,        \* the addresses requests come from
    Words,          \* what clients may write in the header themselves
    MaxWords,       \* bound on how much they write
    Counts,         \* values of TENANT_API_KEY_TRUSTED_PROXY_COUNT
    Networks,       \* entries that allowed_ips may hold
    NULL

Hops == Len(Proxies)

ASSUME ClientIPAssumption ==
    /\ Proxies \in Seq(Address)
    /\ Clients \subseteq Address
    /\ Words \subseteq Address \cup {Garbage}
    /\ MaxWords \in Nat
    /\ Counts \subseteq Int
    /\ Networks \subseteq NetworkOrText
    /\ NULL \notin Address \cup {Garbage} \cup BOOLEAN

VARIABLES
    trusted,        \* is TENANT_API_KEY_TRUSTED_PROXY_HEADER set?
    count,          \* TENANT_API_KEY_TRUSTED_PROXY_COUNT
    overwriting,    \* the proxies that replace the header instead of appending
    hop,            \* how far the request is; 0 when there is none
    entered,        \* the hop at which it came in
    client,         \* who sent it
    peer,           \* who holds the connection to the current hop
    header,         \* the forwarded entries, each with its author
    resolved,       \* what get_client_ip() returned, with its author
    allowed_ips,    \* of the key that the request presents
    verdict         \* what is_ip_allowed() returned

settings == <<trusted, count, overwriting>>

vars == <<settings, hop, entered, client, peer, header, resolved, allowed_ips, verdict>>

Allowlists == {l \in SUBSET Networks : \A a, b, c \in l : a = b \/ b = c \/ a = c}

Arrived == Hops + 1

\* Author 0 is the client, i > 0 the i-th proxy; Arrived stands for the
\* server's own socket, whose word REMOTE_ADDR is.
Entry == [value : Address \cup {Garbage}, author : 0 .. Arrived]

Init ==
    /\ trusted \in BOOLEAN
    /\ count \in Counts
    /\ overwriting \in SUBSET (1 .. Hops)
    /\ hop = 0
    /\ entered = 0
    /\ client = NULL
    /\ peer = NULL
    /\ header = <<>>
    /\ resolved = NULL
    /\ allowed_ips = {}
    /\ verdict = NULL

-----------------------------------------------------------------------------

BugGetClientIP(entries, remote) ==
    IF ~trusted \/ entries = <<>> \/ count < 1 \/ Len(entries) < count
    THEN remote
    ELSE entries[count]

LostGetClientIP(entries, remote) ==
    IF ~trusted THEN remote
    ELSE IF entries = <<>> \/ count < 1 \/ Len(entries) < count
         THEN [value |-> NULL, author |-> Arrived]
         ELSE entries[Len(entries) - count + 1]

\* The count-th entry from the right, if there are so many.
GetClientIP(entries, remote) ==
    IF ~trusted \/ entries = <<>> \/ count < 1 \/ Len(entries) < count
    THEN remote
    ELSE entries[Len(entries) - count + 1]

-----------------------------------------------------------------------------

\* A request comes in, at the outermost proxy or somewhere behind it, with
\* whatever its sender wrote in the header.
Connect(c, i, words) ==
    /\ hop = 0
    /\ hop' = i
    /\ entered' = i
    /\ client' = c
    /\ peer' = c
    /\ header' = [n \in DOMAIN words |-> [value |-> words[n], author |-> 0]]
    /\ UNCHANGED <<settings, resolved, allowed_ips, verdict>>

\* A proxy adds the peer it received the request from.
Forward ==
    /\ hop \in 1 .. Hops
    /\ header' = Append(IF hop \in overwriting THEN <<>> ELSE header,
                        [value |-> peer, author |-> hop])
    /\ peer' = Proxies[hop]
    /\ hop' = hop + 1
    /\ UNCHANGED <<settings, entered, client, resolved, allowed_ips, verdict>>

Resolve ==
    /\ hop = Arrived
    /\ resolved = NULL
    /\ resolved' = GetClientIP(header, [value |-> peer, author |-> Arrived])
    /\ UNCHANGED <<settings, hop, entered, client, peer, header, allowed_ips, verdict>>

Check(list) ==
    /\ resolved # NULL
    /\ verdict = NULL
    /\ allowed_ips' = list
    /\ verdict' = IsIPAllowed(list, resolved.value)
    /\ UNCHANGED <<settings, hop, entered, client, peer, header, resolved>>

\* The request is over.
Answer ==
    /\ verdict # NULL
    /\ hop' = 0
    /\ entered' = 0
    /\ client' = NULL
    /\ peer' = NULL
    /\ header' = <<>>
    /\ resolved' = NULL
    /\ allowed_ips' = {}
    /\ verdict' = NULL
    /\ UNCHANGED settings

Next ==
    \/ \E c \in Clients, i \in 1 .. Arrived, n \in 0 .. MaxWords :
         \E words \in [1 .. n -> Words] : Connect(c, i, words)
    \/ Forward
    \/ Resolve
    \/ \E list \in Allowlists : Check(list)
    \/ Answer

Spec == Init /\ [][Next]_vars

-----------------------------------------------------------------------------

\* Every variable keeps its type.
TypeOK ==
    /\ trusted \in BOOLEAN
    /\ count \in Counts
    /\ overwriting \subseteq 1 .. Hops
    /\ hop \in 0 .. Arrived
    /\ entered \in 0 .. hop
    /\ client \in Clients \cup {NULL}
    /\ peer \in Address \cup {NULL}
    /\ header \in Seq(Entry)
    /\ resolved \in Entry \cup {NULL}
    /\ allowed_ips \in Allowlists
    /\ verdict \in BOOLEAN \cup {NULL}
    /\ hop > 0 => client # NULL /\ peer # NULL

\* "Anything to the left of that entry is client-controlled and never used":
\* as long as a request has passed through as many proxies as are trusted, its
\* address comes from a proxy or from the socket, however much of the header
\* its sender wrote and whoever of the proxies overwrote it.
NeverTheClientsWord ==
    resolved # NULL /\ count <= Arrived - entered => resolved.author # 0

\* Nobody but the outermost proxy may start the header afresh if the entry
\* that it added is to be found again.
Faithful == trusted /\ count = Hops /\ overwriting \subseteq {1}

\* The entries that the sender of the request wrote itself.
Forged == {n \in DOMAIN header : header[n].author = 0}

\* "The client address your outermost trusted proxy saw is the
\* TRUSTED_PROXY_COUNT-th entry from the right": a request that passed through
\* every proxy is attributed to whoever sent it.  One that came in behind the
\* outermost "falls back to REMOTE_ADDR", because the header "has fewer
\* entries than the configured proxy count", but only if its sender wrote none
\* of the missing ones itself.
AttributedToSender ==
    resolved # NULL /\ Faithful =>
        /\ entered = 1 => resolved.value = client
        /\ entered # 1 /\ Forged = {} =>
             resolved = [value |-> peer, author |-> Arrived]

\* A key restricted to some networks works only from an address that one of
\* them covers, in whatever form the client, the chain and the list write it.
RestrictionHolds ==
    verdict = TRUE /\ Faithful /\ entered = 1 /\ allowed_ips # {} =>
        \E e \in allowed_ips \ {Garbage} : \E a \in e : SameAddress(a, client)

\* A client that an IPv4 entry or a plain IPv6 entry covers is let in, also
\* from a dual-stack socket that reports it in its mapped form, and beside
\* entries that are no networks.
ListedClientPasses ==
    verdict # NULL /\ Faithful /\ entered = 1
      /\ (\E e \in allowed_ips \ {Garbage} :
            \E a \in e : a.kind # "mapped" /\ SameAddress(a, client))
    => verdict

\* is_ip_allowed() promises "an exact address match or membership in a CIDR
\* network": the address the request came from, if it is listed as such, is
\* let in.
ExactMatchPasses ==
    verdict # NULL /\ (\E e \in allowed_ips \ {Garbage} : resolved.value \in e)
    => verdict

\* What NeverTheClientsWord would have to say of requests that came in behind
\* the outermost proxy, and what does not hold of them: "entries to the left
\* were written by the client and are never used" takes every trusted proxy to
\* have handled the request.
OnlyTheChainsWord ==
    resolved # NULL /\ count <= Hops => resolved.author # 0
=============================================================================
