---------------------------- MODULE ClientIPProofs ----------------------------
(***************************************************************************)
(* Which address a request is attributed to, and what an allowlist then    *)
(* lets through, for a chain of any number of trusted proxies, any clients *)
(* and headers of any length.                                              *)
(***************************************************************************)
EXTENDS ClientIP, TLAPS

\* The chain has a natural number of proxies.
LEMMA HopsIsNat == Hops \in Nat /\ \A j \in 1 .. Hops : Proxies[j] \in Address
BY ClientIPAssumption DEF Hops

\* What get_client_ip() returns is the peer's address or an entry of the header.
LEMMA GetClientIPType ==
    ASSUME NEW entries \in Seq(Entry), NEW remote \in Entry, count \in Int
    PROVE  GetClientIP(entries, remote) \in Entry
<1>1. CASE ~trusted \/ entries = <<>> \/ count < 1 \/ Len(entries) < count
  BY <1>1 DEF GetClientIP
<1>2. CASE ~(~trusted \/ entries = <<>> \/ count < 1 \/ Len(entries) < count)
  <2>1. Len(entries) - count + 1 \in 1 .. Len(entries)
    BY <1>2
  <2> QED
    BY <1>2, <2>1 DEF GetClientIP
<1> QED
  BY <1>1, <1>2

\* What the client wrote is a sequence of entries, all of them its own.
LEMMA WordsType ==
    ASSUME NEW n \in Nat, NEW words \in [1 .. n -> Words]
    PROVE  LET h == [i \in DOMAIN words |-> [value |-> words[i], author |-> 0]]
           IN  h \in Seq(Entry) /\ Len(h) = n
<1> DEFINE h == [i \in DOMAIN words |-> [value |-> words[i], author |-> 0]]
<1>1. \A i \in 1 .. n : words[i] \in Address \cup {Garbage}
  BY ClientIPAssumption
<1>2. 0 \in 0 .. Arrived
  BY HopsIsNat DEF Arrived
<1>3. h \in [1 .. n -> Entry]
  BY <1>1, <1>2 DEF Entry
<1>4. h \in Seq(Entry)
  BY <1>3
<1> HIDE DEF h
<1>5. Len(h) \in Nat /\ DOMAIN h = 1 .. Len(h) /\ DOMAIN h = 1 .. n
  BY <1>3, <1>4
<1>6. Len(h) = n
  <2>1. \A i \in Nat : i \in 1 .. Len(h) <=> i \in 1 .. n
    BY <1>5
  <2>2. ~(Len(h) < n)
    BY <1>5, <2>1
  <2>3. ~(n < Len(h))
    BY <1>5, <2>1
  <2>4. \A a, b \in Nat : ~(a < b) /\ ~(b < a) => a = b
    OBVIOUS
  <2> QED
    BY <1>5, <2>2, <2>3, <2>4
<1> QED
  BY <1>4, <1>6 DEF h

\* Every step keeps the types.
LEMMA TypeStep == TypeOK /\ [Next]_vars => TypeOK'
<1> SUFFICES ASSUME TypeOK, [Next]_vars
             PROVE  TypeOK'
  OBVIOUS
<1> USE ClientIPAssumption, HopsIsNat
<1>1. CASE UNCHANGED vars
  BY <1>1 DEF TypeOK, vars, settings
<1>2. ASSUME NEW c \in Clients, NEW i \in 1 .. Arrived, NEW n \in 0 .. MaxWords,
             NEW words \in [1 .. n -> Words], Connect(c, i, words)
      PROVE  TypeOK'
  <2>1. header' \in Seq(Entry)
    BY <1>2, WordsType DEF Connect
  <2> QED
    BY <1>2, <2>1 DEF TypeOK, Connect, settings, Arrived
<1>3. CASE Forward
  <2>1. [value |-> peer, author |-> hop] \in Entry
    BY <1>3 DEF Forward, TypeOK, Entry, Arrived
  <2>2. header' \in Seq(Entry)
    BY <1>3, <2>1 DEF Forward, TypeOK
  <2>3. Proxies[hop] \in Address
    BY <1>3 DEF Forward
  <2> QED
    BY <1>3, <2>2, <2>3 DEF Forward, TypeOK, settings, Arrived
<1>4. CASE Resolve
  <2>1. [value |-> peer, author |-> Arrived] \in Entry
    BY <1>4 DEF Resolve, TypeOK, Entry, Arrived
  <2>2. resolved' \in Entry
    BY <1>4, <2>1, GetClientIPType DEF Resolve, TypeOK
  <2> QED
    BY <1>4, <2>2 DEF Resolve, TypeOK, settings
<1>5. ASSUME NEW list \in Allowlists, Check(list)
      PROVE  TypeOK'
  BY <1>5 DEF Check, TypeOK, settings, IsIPAllowed
<1>6. CASE Answer
  <2>1. {} \in Allowlists
    BY DEF Allowlists
  <2> QED
    BY <1>6, <2>1 DEF Answer, TypeOK, settings, Arrived
<1> QED
  BY <1>1, <1>2, <1>3, <1>4, <1>5, <1>6 DEF Next

\* The types hold at the start.
LEMMA TypeInit == Init => TypeOK
<1>1. {} \in Allowlists
  BY DEF Allowlists
<1> QED
  BY <1>1, HopsIsNat DEF Init, TypeOK, Arrived

\* TypeOK holds in every reachable state: entries come from Django's peer or
\* out of the header, and no request is under way without a client and a peer.
THEOREM AddressTypes == Spec => []TypeOK
BY TypeInit, TypeStep, PTL DEF Spec

-----------------------------------------------------------------------------
(* What the header says *)

\* Who hop j received the request from, and the entry it added about that.
Saw(j) == IF j = entered THEN client ELSE Proxies[j - 1]

Added(j) == [value |-> Saw(j), author |-> j]

\* Reading the header from the right, one finds what the last hops saw, in
\* order, for as long as the header lasts; all of them are there unless a
\* proxy behind the first one started the header afresh, and nothing else is
\* there unless the sender wrote it.
HeaderTellsTheChain ==
    hop > 0 =>
        /\ entered \in 1 .. hop
        /\ peer = Saw(hop)
        /\ \A m \in 1 .. Len(header) :
             m <= hop - entered => header[Len(header) - m + 1] = Added(hop - m)
        /\ Forged = {} => Len(header) <= hop - entered
        /\ overwriting \subseteq {1} => Len(header) >= hop - entered

\* The answers are those of the functions on the request as it arrived.
AnswersFollow ==
    /\ resolved # NULL =>
         /\ hop = Arrived
         /\ resolved = GetClientIP(header, [value |-> peer, author |-> Arrived])
    /\ verdict # NULL =>
         resolved # NULL /\ verdict = IsIPAllowed(allowed_ips, resolved.value)

AddressInv == TypeOK /\ HeaderTellsTheChain /\ AnswersFollow

\* A hop that adds its entry keeps the header telling the chain.
LEMMA ForwardTells ==
    ASSUME TypeOK, HeaderTellsTheChain, Forward
    PROVE  HeaderTellsTheChain'
<1> DEFINE h == IF hop \in overwriting THEN <<>> ELSE header
           e == [value |-> peer, author |-> hop]
<1>1. /\ hop \in 1 .. Hops /\ hop' = hop + 1 /\ entered \in 1 .. hop
      /\ header' = Append(h, e) /\ peer' = Proxies[hop]
      /\ UNCHANGED <<entered, client, overwriting>>
      /\ Hops \in Nat
  BY HopsIsNat DEF Forward, HeaderTellsTheChain, settings
<1>2. e = Added(hop)
  BY <1>1 DEF HeaderTellsTheChain, Added
<1>3. h \in Seq(Entry) /\ e \in Entry
  BY <1>1 DEF TypeOK, Entry, Arrived
<1>4. /\ Len(header') = Len(h) + 1 /\ Len(h) \in Nat
      /\ header'[Len(h) + 1] = e
      /\ \A i \in 1 .. Len(h) : header'[i] = h[i]
  BY <1>1, <1>3
<1>5. ASSUME NEW m
      PROVE  Added(hop - m)' = Added(hop' - m)
  BY <1>1 DEF Saw, Added
<1>6. peer' = Saw(hop)'
  BY <1>1 DEF Saw
<1>7. ASSUME NEW m \in 1 .. Len(h), m <= hop - entered
      PROVE  h[Len(h) - m + 1] = Added(hop - m)
  <2>1. h = header
    BY <1>7
  <2> QED
    BY <1>1, <1>7, <2>1 DEF HeaderTellsTheChain
<1>8. ASSUME NEW m \in 1 .. Len(header'), m <= hop' - entered'
      PROVE  header'[Len(header') - m + 1] = Added(hop - m)'
  <2>1. CASE m = 1
    <3>1. Len(header') - m + 1 = Len(h) + 1 /\ hop' - m = hop
      BY <1>1, <1>4, <2>1
    <3> QED
      BY <1>2, <1>4, <1>5, <3>1
  <2>2. CASE m # 1
    <3>1. /\ m - 1 \in 1 .. Len(h) /\ m - 1 <= hop - entered
          /\ Len(header') - m + 1 = Len(h) - (m - 1) + 1
          /\ Len(h) - (m - 1) + 1 \in 1 .. Len(h)
          /\ hop' - m = hop - (m - 1)
      BY <1>1, <1>4, <1>8, <2>2
    <3>2. h[Len(h) - (m - 1) + 1] = Added(hop - (m - 1))
      BY <1>7, <3>1
    <3> QED
      BY <1>4, <1>5, <3>1, <3>2
  <2> QED
    BY <2>1, <2>2
<1>9. ASSUME Forged' = {}
      PROVE  Len(header') <= hop' - entered'
  <2>1. CASE hop \in overwriting
    BY <1>1, <1>4, <2>1
  <2>2. CASE hop \notin overwriting
    <3>1. ASSUME NEW n \in DOMAIN header, header[n].author = 0
          PROVE  FALSE
      <4>1. n \in DOMAIN header' /\ header'[n] = header[n]
        BY <1>1, <1>3, <1>4, <2>2, <3>1
      <4> QED
        BY <1>9, <3>1, <4>1 DEF Forged
    <3>2. Forged = {}
      BY <3>1 DEF Forged
    <3> QED
      BY <1>1, <1>4, <2>2, <3>2 DEF HeaderTellsTheChain
  <2> QED
    BY <2>1, <2>2
<1>10. overwriting' \subseteq {1} => Len(header') >= hop' - entered'
  <2>1. CASE hop \in overwriting
    BY <1>1, <1>4, <2>1
  <2>2. CASE hop \notin overwriting
    BY <1>1, <1>4, <2>2 DEF HeaderTellsTheChain
  <2> QED
    BY <2>1, <2>2
<1>11. entered' \in 1 .. hop'
  BY <1>1
<1> HIDE DEF h, e
<1> QED
  BY <1>6, <1>8, <1>9, <1>10, <1>11 DEF HeaderTellsTheChain

\* Every step keeps the header telling the chain.
LEMMA HeaderStep ==
    TypeOK /\ HeaderTellsTheChain /\ [Next]_vars => HeaderTellsTheChain'
<1> SUFFICES ASSUME TypeOK, HeaderTellsTheChain, [Next]_vars
             PROVE  HeaderTellsTheChain'
  OBVIOUS
<1>1. ASSUME UNCHANGED <<hop, entered, client, peer, header, overwriting>>
      PROVE  HeaderTellsTheChain'
  BY <1>1 DEF HeaderTellsTheChain, Forged, Saw, Added
<1>2. ASSUME NEW c \in Clients, NEW i \in 1 .. Arrived, NEW n \in 0 .. MaxWords,
             NEW words \in [1 .. n -> Words], Connect(c, i, words)
      PROVE  HeaderTellsTheChain'
  <2>1. Len(header') = n /\ n \in Nat
    BY <1>2, WordsType, ClientIPAssumption DEF Connect
  <2>2. Forged' = {} => n = 0
    <3>1. DOMAIN header' = 1 .. n /\ \A j \in 1 .. n : header'[j].author = 0
      BY <1>2 DEF Connect
    <3>2. n # 0 => 1 \in Forged'
      BY <2>1, <3>1 DEF Forged
    <3> QED
      BY <3>2
  <2>3. hop' = i /\ entered' = i /\ client' = c /\ peer' = c /\ i \in Nat /\ i > 0
    BY <1>2, HopsIsNat DEF Connect, Arrived
  <2> QED
    BY <2>1, <2>2, <2>3 DEF HeaderTellsTheChain, Saw, Added
<1>3. CASE Resolve \/ \E list \in Allowlists : Check(list)
  BY <1>1, <1>3 DEF Resolve, Check, settings
<1>4. CASE Answer
  BY <1>4 DEF Answer, HeaderTellsTheChain
<1>5. CASE UNCHANGED vars
  BY <1>1, <1>5 DEF vars, settings
<1> QED
  BY <1>2, <1>3, <1>4, <1>5, ForwardTells DEF Next

\* Every step keeps the answers what the functions say.
LEMMA AnswersStep ==
    AddressInv /\ [Next]_vars => AnswersFollow'
<1> SUFFICES ASSUME AddressInv, [Next]_vars
             PROVE  AnswersFollow'
  OBVIOUS
<1>1. TypeOK /\ HeaderTellsTheChain /\ AnswersFollow
  BY DEF AddressInv
<1>2. CASE UNCHANGED vars
  BY <1>1, <1>2 DEF vars, settings, AnswersFollow, GetClientIP
<1>3. ASSUME NEW c \in Clients, NEW i \in 1 .. Arrived, NEW n \in 0 .. MaxWords,
             NEW words \in [1 .. n -> Words], Connect(c, i, words)
      PROVE  AnswersFollow'
  <2>1. resolved = NULL /\ verdict = NULL
    BY <1>1, <1>3, HopsIsNat DEF Connect, AnswersFollow, Arrived
  <2> QED
    BY <1>3, <2>1 DEF Connect, AnswersFollow
<1>4. CASE Forward
  <2>1. resolved = NULL /\ verdict = NULL
    BY <1>1, <1>4, HopsIsNat DEF Forward, AnswersFollow, Arrived
  <2> QED
    BY <1>4, <2>1 DEF Forward, AnswersFollow
<1>5. CASE Resolve
  <2>1. verdict = NULL
    BY <1>1, <1>5 DEF Resolve, AnswersFollow
  <2> QED
    BY <1>5, <2>1 DEF Resolve, AnswersFollow, GetClientIP, settings
<1>6. ASSUME NEW list \in Allowlists, Check(list)
      PROVE  AnswersFollow'
  BY <1>1, <1>6 DEF Check, AnswersFollow, GetClientIP, settings
<1>7. CASE Answer
  BY <1>7 DEF Answer, AnswersFollow
<1> QED
  BY <1>2, <1>3, <1>4, <1>5, <1>6, <1>7 DEF Next

\* The header and the answers are right in every reachable state.
LEMMA AddressInvariant == Spec => []AddressInv
<1>1. Init => AddressInv
  BY TypeInit DEF Init, AddressInv, HeaderTellsTheChain, AnswersFollow
<1>2. AddressInv /\ [Next]_vars => AddressInv'
  BY TypeStep, HeaderStep, AnswersStep DEF AddressInv
<1> QED
  BY <1>1, <1>2, PTL DEF Spec

-----------------------------------------------------------------------------
(* Which address comes out *)

\* No entry of the sender's is used as long as the request has passed through
\* as many proxies as are trusted, whatever the sender wrote and whichever of
\* the proxies overwrote it.
THEOREM ClientsWordIsIgnored == Spec => []NeverTheClientsWord
<1>1. AddressInv => NeverTheClientsWord
  <2> SUFFICES ASSUME AddressInv, resolved # NULL, count <= Arrived - entered
               PROVE  resolved.author # 0
    BY DEF NeverTheClientsWord
  <2> DEFINE remote == [value |-> peer, author |-> Arrived]
  <2>1. /\ hop = Arrived /\ Arrived = Hops + 1 /\ Hops \in Nat /\ count \in Int
        /\ resolved = GetClientIP(header, remote)
        /\ entered \in 1 .. hop
        /\ Len(header) \in Nat
    BY HopsIsNat, ClientIPAssumption
       DEF AddressInv, AnswersFollow, HeaderTellsTheChain, Arrived, TypeOK
  <2>2. CASE ~trusted \/ header = <<>> \/ count < 1 \/ Len(header) < count
    BY <2>1, <2>2 DEF GetClientIP
  <2>3. CASE ~(~trusted \/ header = <<>> \/ count < 1 \/ Len(header) < count)
    <3>1. count \in 1 .. Len(header)
      BY <2>1, <2>3
    <3>2. count <= hop - entered
      BY <2>1, <3>1 DEF AddressInv, HeaderTellsTheChain
    <3>3. header[Len(header) - count + 1] = Added(hop - count)
      BY <2>1, <3>1, <3>2 DEF AddressInv, HeaderTellsTheChain
    <3>4. resolved.author = hop - count
      BY <2>1, <2>3, <3>3 DEF GetClientIP, Added
    <3> QED
      BY <2>1, <3>1, <3>2, <3>4
  <2> QED
    BY <2>2, <2>3
<1> QED
  BY <1>1, AddressInvariant, PTL

\* With the proxies counted right, the address is the sender's, or that of the
\* connection for whoever went around the outermost proxy and wrote nothing.
LEMMA SenderIsFound ==
    ASSUME AddressInv, resolved # NULL, Faithful
    PROVE  /\ entered = 1 => resolved.value = client
           /\ entered # 1 /\ Forged = {} =>
                resolved = [value |-> peer, author |-> Arrived]
<1> DEFINE remote == [value |-> peer, author |-> Arrived]
<1>1. /\ hop = Arrived /\ Arrived = Hops + 1 /\ Hops \in Nat
      /\ trusted /\ count = Hops /\ overwriting \subseteq {1}
      /\ resolved = GetClientIP(header, remote)
      /\ entered \in 1 .. hop /\ peer = Saw(hop)
      /\ Len(header) \in Nat /\ Len(header) >= hop - entered
      /\ Forged = {} => Len(header) <= hop - entered
  BY HopsIsNat
     DEF AddressInv, AnswersFollow, HeaderTellsTheChain, Arrived, TypeOK, Faithful
<1>2. CASE entered # 1 /\ Forged = {}
  <2>1. Len(header) < count
    BY <1>1, <1>2
  <2> QED
    BY <1>1, <1>2, <2>1 DEF GetClientIP
<1>3. CASE entered = 1 /\ Hops = 0
  <2>1. peer = client
    BY <1>1, <1>3 DEF Saw
  <2> QED
    BY <1>1, <1>3, <2>1 DEF GetClientIP
<1>4. CASE entered = 1 /\ Hops # 0
  <2>1. count \in 1 .. Len(header) /\ count <= hop - entered /\ hop - count = 1
    BY <1>1, <1>4
  <2>2. header[Len(header) - count + 1] = Added(hop - count)
    BY <1>1, <2>1 DEF AddressInv, HeaderTellsTheChain
  <2>3. header # <<>>
    BY <2>1
  <2>4. resolved = Added(1)
    BY <1>1, <1>4, <2>1, <2>2, <2>3 DEF GetClientIP
  <2> QED
    BY <1>4, <2>4 DEF Added, Saw
<1> QED
  BY <1>2, <1>3, <1>4

\* The client address is the one that the outermost proxy saw, or that of the
\* connection if the request went around that proxy with no forged entries.
THEOREM SenderIsAttributed == Spec => []AttributedToSender
<1>1. AddressInv => AttributedToSender
  BY SenderIsFound DEF AttributedToSender
<1> QED
  BY <1>1, AddressInvariant, PTL

-----------------------------------------------------------------------------
(* What an allowlist lets through *)

\* The verdict on a request that went through the whole chain is that of the
\* list on its sender's address.
LEMMA VerdictOnSender ==
    ASSUME AddressInv, verdict # NULL, Faithful, entered = 1
    PROVE  /\ verdict = IsIPAllowed(allowed_ips, client)
           /\ client \in Address /\ client # Garbage
<1>1. resolved # NULL /\ verdict = IsIPAllowed(allowed_ips, resolved.value)
  BY DEF AddressInv, AnswersFollow
<1>2. resolved.value = client
  BY <1>1, SenderIsFound
<1>3. hop > 0
  BY <1>1, HopsIsNat DEF AddressInv, AnswersFollow, Arrived
<1>4. client \in Clients
  BY <1>3 DEF AddressInv, TypeOK
<1> QED
  BY <1>1, <1>2, <1>4, ClientIPAssumption, AddressAssumption

\* A restricted key lets nobody in whom no entry of its list covers.
THEOREM RestrictionsHold == Spec => []RestrictionHolds
<1>1. AddressInv => RestrictionHolds
  <2> SUFFICES ASSUME AddressInv, verdict = TRUE, Faithful, entered = 1,
                      allowed_ips # {}
               PROVE  \E e \in allowed_ips \ {Garbage} :
                        \E a \in e : SameAddress(a, client)
    BY DEF RestrictionHolds
  <2>1. /\ IsIPAllowed(allowed_ips, client)
        /\ client \in Address
    BY VerdictOnSender, ClientIPAssumption
  <2>2. PICK e \in allowed_ips : e # Garbage /\ Unmapped(client) \in e
    BY <2>1 DEF IsIPAllowed
  <2>3. Unmapped(Unmapped(client)) = Unmapped(client)
    BY <2>1 DEF Unmapped, Address
  <2> QED
    BY <2>2, <2>3 DEF SameAddress
<1> QED
  BY <1>1, AddressInvariant, PTL

\* A client covered by an IPv4 or a plain IPv6 entry is let in.
THEOREM ListedClientsPass == Spec => []ListedClientPasses
<1>1. AddressInv => ListedClientPasses
  <2> SUFFICES ASSUME AddressInv, verdict # NULL, Faithful, entered = 1,
                      NEW e \in allowed_ips \ {Garbage}, NEW a \in e,
                      a.kind # "mapped", SameAddress(a, client)
               PROVE  verdict
    BY DEF ListedClientPasses
  <2>1. Unmapped(client) \in e
    BY DEF SameAddress, Unmapped
  <2> QED
    BY <2>1, VerdictOnSender DEF IsIPAllowed
<1> QED
  BY <1>1, AddressInvariant, PTL
=============================================================================
