---------------------------- MODULE AccessProofs ----------------------------
(***************************************************************************)
(* What a rotation keeps: the prefix, recovered from the stored one, and   *)
(* what the key may do.  The way back from a raw key to its row.  And the  *)
(* answers: types, what counts against a limit, and the documented rules.  *)
(***************************************************************************)
EXTENDS Access, SequenceTheorems, TLAPS

-----------------------------------------------------------------------------
(* The format *)

LEMMA SegmentIsOne ==
    ASSUME NEW e
    PROVE  Segment(e) \in Segments /\ Segment(e) \in Token
BY DEF Segment, Segments, Token

LEMMA TwoMoreTokens ==
    ASSUME NEW p \in Seq(Token), NEW a \in Token, NEW b \in Token
    PROVE  /\ p \o <<a, b>> \in Seq(Token)
           /\ Len(p \o <<a, b>>) = Len(p) + 2
           /\ \A i \in 1 .. Len(p) : (p \o <<a, b>>)[i] = p[i]
           /\ (p \o <<a, b>>)[Len(p) + 1] = a
           /\ (p \o <<a, b>>)[Len(p) + 2] = b
<1> DEFINE tail == <<a, b>>
<1>1. tail \in Seq(Token) /\ Len(tail) = 2 /\ tail[1] = a /\ tail[2] = b
  OBVIOUS
<1>2. Len(p) \in Nat
  BY LenProperties
<1> HIDE DEF tail
<1>3. /\ p \o tail \in Seq(Token)
      /\ Len(p \o tail) = Len(p) + Len(tail)
      /\ \A i \in 1 .. Len(p) + Len(tail) :
           (p \o tail)[i] = IF i <= Len(p) THEN p[i] ELSE tail[i - Len(p)]
  BY <1>1, ConcatProperties
<1>4. \A i \in 1 .. Len(p) : (p \o tail)[i] = p[i]
  BY <1>1, <1>2, <1>3
<1>5. (p \o tail)[Len(p) + 1] = tail[1] /\ (p \o tail)[Len(p) + 2] = tail[2]
  BY <1>1, <1>2, <1>3
<1> QED
  BY <1>1, <1>3, <1>4, <1>5 DEF tail

LEMMA KeyPrefixShape ==
    ASSUME NEW p \in Seq(Token), NEW e, NEW d \in Draws
    PROVE  /\ KeyPrefix(p, e, d) \in Seq(Token)
           /\ Len(KeyPrefix(p, e, d)) = Len(p) + 2
           /\ \A i \in 1 .. Len(p) : KeyPrefix(p, e, d)[i] = p[i]
           /\ KeyPrefix(p, e, d)[Len(p) + 1] = Segment(e)
           /\ KeyPrefix(p, e, d)[Len(p) + 2] = d
<1>1. Segment(e) \in Token /\ d \in Token
  BY SegmentIsOne DEF Token
<1> QED
  BY <1>1, TwoMoreTokens DEF KeyPrefix

LEMMA TakIsAWord == Tak \in Plain /\ <<Tak>> \in Seq(Token) \ {<<>>}
<1>1. Tak \in Plain
  BY KeyFormatAssumption DEF Tak
<1>2. Tak \in Token
  BY <1>1 DEF Token
<1> QED
  BY <1>1, <1>2

\* "prefix defaults to the one this key was originally generated with": any
\* prefix is recovered from the stored one, whatever it looks like and for
\* whatever environment the key was generated; but "tak" takes the place of an
\* empty one.
THEOREM PrefixRoundTrip ==
    ASSUME NEW p \in Seq(Token), NEW e, NEW d \in Draws
    PROVE  BasePrefix(KeyPrefix(p, e, d)) = Recovered(p)
<1> DEFINE k == KeyPrefix(p, e, d)
           n == Len(p)
<1>1. /\ k \in Seq(Token) /\ Len(k) = n + 2
      /\ \A i \in 1 .. n : k[i] = p[i]
      /\ k[n + 1] = Segment(e) /\ k[n + 2] = d
  BY KeyPrefixShape
<1>2. n \in Nat /\ (p # <<>> => n # 0) /\ (p = <<>> => n = 0)
  BY EmptySeq, LenProperties
<1> HIDE DEF k, n
<1>3. CASE p = <<>>
  BY <1>3, <1>1, <1>2 DEF BasePrefix, Recovered, k
<1> SUFFICES ASSUME p # <<>> PROVE BasePrefix(k) = p
  BY <1>3 DEF Recovered, k
<1>4. /\ Len(k) > 2 /\ Len(k) - 1 = n + 1 /\ Len(k) - 2 = n
      /\ k[Len(k) - 1] \in Segments /\ k[Len(k)] \in Draws
  BY <1>1, <1>2, SegmentIsOne
<1>5. BasePrefix(k) = SubSeq(k, 1, n)
  BY <1>4 DEF BasePrefix
<1>6. /\ SubSeq(k, 1, n) \in Seq(Token) /\ Len(SubSeq(k, 1, n)) = n
      /\ \A i \in 1 .. n : SubSeq(k, 1, n)[i] = k[i]
  BY <1>1, <1>2, SubSeqProperties
<1>7. SubSeq(k, 1, n) = p
  BY <1>1, <1>6, SeqEqual DEF n
<1> QED
  BY <1>5, <1>7

\* split_raw_key(): a raw key whose prefix has no dot and no blank is shaped like
\* one, and what is looked up is the prefix it was generated with.
THEOREM RawKeyFindsItsRow ==
    ASSUME NEW p \in Seq(Token), NEW e, NEW d \in Draws, NEW s \in Draws,
           Fits(p), \A i \in 1 .. Len(p) : p[i] \notin {"dot", "blank"}
    PROVE  /\ HasShape(RawKey(KeyPrefix(p, e, d), s))
           /\ LookupPrefix(RawKey(KeyPrefix(p, e, d), s)) = KeyPrefix(p, e, d)
<1> DEFINE k == KeyPrefix(p, e, d)
           n == Len(k)
           raw == RawKey(k, s)
<1>1. /\ k \in Seq(Token) /\ n = Len(p) + 2
      /\ \A i \in 1 .. Len(p) : k[i] = p[i]
      /\ k[Len(p) + 1] = Segment(e) /\ k[Len(p) + 2] = d
  BY KeyPrefixShape
<1>2. Len(p) \in Nat /\ MaxPrefix \in Nat /\ Len(p) <= MaxPrefix
  BY LenProperties, KeyFormatAssumption DEF Fits
<1>3. \A i \in 1 .. n : k[i] \notin {"dot", "blank"}
  <2>1. Segment(e) \notin {"dot", "blank"}
    BY DEF Segment
  <2>2. d \notin {"dot", "blank"}
    BY KeyFormatAssumption DEF Special
  <2>3. \A i \in 1 .. n : i \in 1 .. Len(p) \/ i = Len(p) + 1 \/ i = Len(p) + 2
    BY <1>1, <1>2
  <2> QED
    BY <1>1, <2>1, <2>2, <2>3
<1>4. "dot" \in Token /\ s \in Token
  BY DEF Token, Special
<1>5. n \in Nat \ {0, 1} /\ n <= MaxKeyPrefix
  BY <1>1, <1>2 DEF MaxKeyPrefix
<1> HIDE DEF k, n
<1>6. /\ raw \in Seq(Token) /\ Len(raw) = n + 2
      /\ \A i \in 1 .. n : raw[i] = k[i]
      /\ raw[n + 1] = "dot" /\ raw[n + 2] = s
  BY <1>1, <1>4, TwoMoreTokens DEF RawKey, n
<1> HIDE DEF raw
<1>7. DOMAIN raw = 1 .. n + 2
  BY <1>5, <1>6, LenProperties
<1>8. FirstDot(raw) = n + 1
  <2> DEFINE IsFirst(i) == raw[i] = "dot" /\ \A j \in DOMAIN raw : raw[j] = "dot" => i <= j
  <2>1. \A j \in DOMAIN raw : raw[j] = "dot" => n + 1 <= j
    BY <1>3, <1>5, <1>6, <1>7
  <2>2. n + 1 \in DOMAIN raw /\ IsFirst(n + 1)
    BY <1>5, <1>6, <1>7, <2>1
  <2>3. ASSUME NEW i \in DOMAIN raw, IsFirst(i)
        PROVE  i = n + 1
    BY <1>5, <1>7, <2>1, <2>2, <2>3
  <2>4. FirstDot(raw) = CHOOSE i \in DOMAIN raw : IsFirst(i)
    BY DEF FirstDot
  <2> HIDE DEF IsFirst
  <2> QED
    BY <2>2, <2>3, <2>4
<1>9. HasShape(raw)
  <2>1. "dot" \in Tokens(raw)
    BY <1>5, <1>6, <1>7 DEF Tokens
  <2>2. "blank" \notin Tokens(raw)
    <3>1. s # "blank"
      BY KeyFormatAssumption DEF Special
    <3>2. \A i \in DOMAIN raw : i \in 1 .. n \/ i = n + 1 \/ i = n + 2
      BY <1>5, <1>7
    <3>3. \A i \in DOMAIN raw : raw[i] # "blank"
      BY <1>3, <1>6, <3>1, <3>2
    <3> QED
      BY <3>3 DEF Tokens
  <2>3. MaxKeyPrefix \in Nat
    BY <1>2 DEF MaxKeyPrefix
  <2> QED
    BY <1>5, <1>6, <1>8, <2>1, <2>2, <2>3 DEF HasShape
<1>10. LookupPrefix(raw) = k
  <2>1. LookupPrefix(raw) = SubSeq(raw, 1, n)
    BY <1>5, <1>8 DEF LookupPrefix
  <2>2. /\ SubSeq(raw, 1, n) \in Seq(Token) /\ Len(SubSeq(raw, 1, n)) = n
        /\ \A i \in 1 .. n : SubSeq(raw, 1, n)[i] = raw[i]
    BY <1>5, <1>6, SubSeqProperties
  <2>3. SubSeq(raw, 1, n) = k
    BY <1>1, <1>6, <2>2, SeqEqual DEF n
  <2> QED
    BY <2>1, <2>3
<1> QED
  BY <1>9, <1>10 DEF raw, k

-----------------------------------------------------------------------------
(* Rotations *)

KeyTyped == key # NULL => key \in KeyType

\* The row was generated from this prefix.
GeneratedFrom(p, row) ==
    /\ Fits(p)
    /\ \E e \in UsedIn, d \in Draws :
         /\ row.prefix = KeyPrefix(p, e, d)
         /\ row.raw = RawKey(row.prefix, d)

\* It is the chosen one, or what a rotation made of it.
PrefixInv ==
    key # NULL =>
        \/ GeneratedFrom(key.chosen, key.row)
        \/ GeneratedFrom(Recovered(key.chosen), key.row)

\* What a prefix is recovered to can itself be recovered.
LEMMA RecoveringTwice ==
    ASSUME NEW p \in Seq(Token)
    PROVE  Recovered(p) \in Seq(Token) /\ Recovered(Recovered(p)) = Recovered(p)
BY TakIsAWord DEF Recovered

LEMMA OriginOfTheRow ==
    ASSUME KeyTyped, PrefixInv, key # NULL
    PROVE  \E p \in Seq(Token) :
             /\ p = key.chosen \/ p = Recovered(key.chosen)
             /\ Recovered(p) = Recovered(key.chosen)
             /\ GeneratedFrom(p, key.row)
<1>1. key.chosen \in Seq(Token)
  BY AccessAssumption DEF KeyTyped, KeyType
<1> QED
  BY <1>1, RecoveringTwice DEF PrefixInv

LEMMA PrefixIsRecovered ==
    ASSUME KeyTyped, PrefixInv, key # NULL
    PROVE  /\ BasePrefix(key.row.prefix) = Recovered(key.chosen)
           /\ Recovered(key.chosen) \in Seq(Token)
<1>1. PICK p \in Seq(Token) : /\ Recovered(p) = Recovered(key.chosen)
                              /\ GeneratedFrom(p, key.row)
  BY OriginOfTheRow
<1>2. BasePrefix(key.row.prefix) = Recovered(p)
  BY <1>1, PrefixRoundTrip DEF GeneratedFrom
<1> QED
  BY <1>1, <1>2, RecoveringTwice

\* Without raw writes the columns are lists, and a rotation copies them.
GrantsInv ==
    key # NULL =>
        /\ key.row.scopes = key.given.scopes /\ key.row.scopes.list
        /\ key.row.allowed_ips = key.given.allowed_ips /\ key.row.allowed_ips.list

LEMMA RowIsTyped ==
    ASSUME NEW p \in Seq(Token), NEW e \in UsedIn, NEW d \in Draws,
           NEW s \in Column, NEW i \in IPColumn
    PROVE  /\ Row(p, e, d, s, i) \in RowType
           /\ Row(p, e, d, s, i).prefix = KeyPrefix(p, e, d)
           /\ Row(p, e, d, s, i).raw = RawKey(KeyPrefix(p, e, d), d)
           /\ Row(p, e, d, s, i).scopes = s /\ Row(p, e, d, s, i).allowed_ips = i
<1>1. KeyPrefix(p, e, d) \in Seq(Token) /\ e \in Environments
  BY KeyPrefixShape, AccessAssumption
<1>2. "dot" \in Token /\ d \in Token
  BY DEF Token, Special
<1>3. RawKey(KeyPrefix(p, e, d), d) \in Seq(Token)
  BY <1>1, <1>2, TwoMoreTokens DEF RawKey
<1> QED
  BY <1>1, <1>3 DEF Row, RowType

\* A list's copy is the list.
LEMMA ListsCopy ==
    /\ \A c \in Column : AsList(c) \in Column /\ (c.list => AsList(c) = c)
    /\ \A c \in IPColumn : AsList(c) \in IPColumn /\ (c.list => AsList(c) = c)
BY DEF AsList, Column, IPColumn

\* What a step does to the key.
KeyStep ==
    \/ UNCHANGED key
    \/ \E s \in ScopeValues, i \in IPValues :
         \/ \E p \in Prefixes, e \in UsedIn, d \in Draws : GenerateKey(p, e, d, s, i)
         \/ Edit(s, i)
    \/ \E e \in UsedIn, d \in Draws : Rotate(e, d)
    \/ Revoke

LEMMA OnlyTheseChangeKeys ==
    ASSUME [Next]_vars
    PROVE  KeyStep
BY DEF Next, vars, KeyStep, Suspend, Receive, Authenticate, HasAPIKeyScope, HasAllowedIP,
       Permission, WithinRateLimit, NotAKey, Throttle, NotThrottled, Count, Serve, Forget

LEMMA KeyTypeStep ==
    ASSUME KeyTyped, PrefixInv, KeyStep
    PROVE  KeyTyped' /\ PrefixInv' /\ (~RawWrites /\ GrantsInv => GrantsInv')
<1>1. /\ Prefixes \subseteq Seq(Token)
      /\ ScopeValues \subseteq Column /\ IPValues \subseteq IPColumn
  BY AccessAssumption
<1>2. CASE UNCHANGED key
  BY <1>2 DEF KeyTyped, PrefixInv, GrantsInv
<1>3. ASSUME NEW s \in ScopeValues, NEW i \in IPValues, NEW p \in Prefixes,
             NEW e \in UsedIn, NEW d \in Draws, GenerateKey(p, e, d, s, i)
      PROVE  KeyTyped' /\ PrefixInv' /\ GrantsInv'
  <2> DEFINE row == Row(p, e, d, s, i)
  <2>1. /\ key' = [row    |-> row,
                   chosen |-> p,
                   given  |-> [scopes |-> s, allowed_ips |-> i]]
        /\ Fits(p)
    BY <1>3 DEF GenerateKey
  <2>2. /\ row \in RowType
        /\ row.prefix = KeyPrefix(p, e, d)
        /\ row.raw = RawKey(KeyPrefix(p, e, d), d)
        /\ row.scopes = s /\ row.allowed_ips = i
    BY <1>1, RowIsTyped
  <2>3. s.list /\ i.list
    BY <1>3 DEF GenerateKey, Valid, ValidScopes, ValidAllowedIPs
  <2>4. s \in Column /\ i \in IPColumn
    BY <1>1
  <2> HIDE DEF row
  <2>5. /\ key' \in KeyType
        /\ key'.chosen = p /\ key'.row = row
        /\ key'.given.scopes = s /\ key'.given.allowed_ips = i
    BY <2>1, <2>2, <2>4 DEF KeyType
  <2>6. KeyTyped' /\ GrantsInv'
    BY <2>2, <2>3, <2>5 DEF KeyTyped, GrantsInv
  <2>7. PrefixInv'
    BY <2>1, <2>2, <2>5 DEF PrefixInv, GeneratedFrom
  <2> QED
    BY <2>6, <2>7
<1>4. ASSUME NEW s \in ScopeValues, NEW i \in IPValues, Edit(s, i)
      PROVE  KeyTyped' /\ PrefixInv' /\ (~RawWrites => GrantsInv')
  <2>1. /\ key # NULL
        /\ key \in KeyType
        /\ key' = [key EXCEPT !.row.scopes = s, !.row.allowed_ips = i,
                              !.given = [scopes |-> s, allowed_ips |-> i]]
    BY <1>4 DEF Edit, KeyTyped
  <2>2. s \in Column /\ i \in IPColumn
    BY <1>1
  <2>3. /\ key' \in KeyType
        /\ key'.chosen = key.chosen
        /\ key'.row.prefix = key.row.prefix /\ key'.row.raw = key.row.raw
        /\ key'.row.scopes = s /\ key'.row.allowed_ips = i
        /\ key'.given.scopes = s /\ key'.given.allowed_ips = i
    BY <2>1, <2>2 DEF RowType, KeyType
  <2>4. ~RawWrites => s.list /\ i.list
    BY <1>4 DEF Edit, Valid, ValidScopes, ValidAllowedIPs
  <2>5. KeyTyped' /\ (~RawWrites => GrantsInv')
    BY <2>3, <2>4 DEF KeyTyped, GrantsInv
  <2>6. PrefixInv'
    BY <2>1, <2>3 DEF PrefixInv, GeneratedFrom
  <2> QED
    BY <2>5, <2>6
<1>5. ASSUME NEW e \in UsedIn, NEW d \in Draws, Rotate(e, d)
      PROVE  KeyTyped' /\ PrefixInv' /\ (GrantsInv => GrantsInv')
  <2> DEFINE prefix == BasePrefix(key.row.prefix)
             scopes == AsList(key.row.scopes)
             ips == AsList(key.row.allowed_ips)
             row == Row(prefix, e, d, scopes, ips)
  <2>1. /\ key # NULL
        /\ key \in KeyType
        /\ key' = [key EXCEPT !.row = row]
        /\ Fits(prefix)
    BY <1>5 DEF Rotate, KeyTyped
  <2>2. /\ key.row \in RowType /\ key.chosen \in Prefixes
        /\ key.row.scopes \in Column /\ key.row.allowed_ips \in IPColumn
    BY <2>1 DEF KeyType, RowType
  <2>3. prefix = Recovered(key.chosen) /\ prefix \in Seq(Token)
    BY <2>1, PrefixIsRecovered
  <2>4. scopes \in Column /\ ips \in IPColumn
    BY <2>2, ListsCopy
  <2>5. GrantsInv => scopes = key.row.scopes /\ ips = key.row.allowed_ips
    BY <2>1, <2>2, ListsCopy DEF GrantsInv
  <2> HIDE DEF prefix, scopes, ips
  <2>6. /\ row \in RowType
        /\ row.prefix = KeyPrefix(prefix, e, d)
        /\ row.raw = RawKey(KeyPrefix(prefix, e, d), d)
        /\ row.scopes = scopes /\ row.allowed_ips = ips
    BY <2>3, <2>4, RowIsTyped
  <2> HIDE DEF row
  <2>7. /\ key' \in KeyType
        /\ key'.chosen = key.chosen /\ key'.given = key.given /\ key'.row = row
    BY <2>1, <2>6 DEF KeyType
  <2>8. KeyTyped' /\ (GrantsInv => GrantsInv')
    BY <2>1, <2>5, <2>6, <2>7 DEF KeyTyped, GrantsInv
  <2>9. PrefixInv'
    BY <2>1, <2>3, <2>6, <2>7 DEF PrefixInv, GeneratedFrom
  <2> QED
    BY <2>8, <2>9
<1>6. CASE Revoke
  <2>1. /\ key # NULL
        /\ key \in KeyType
        /\ key' = [key EXCEPT !.row.is_active = FALSE]
    BY <1>6 DEF Revoke, KeyTyped
  <2>2. /\ key' \in KeyType
        /\ key'.chosen = key.chosen
        /\ key'.row.prefix = key.row.prefix /\ key'.row.raw = key.row.raw
        /\ key'.row.scopes = key.row.scopes /\ key'.row.allowed_ips = key.row.allowed_ips
        /\ key'.given = key.given
    BY <2>1 DEF RowType, KeyType
  <2>3. KeyTyped' /\ (GrantsInv => GrantsInv')
    BY <2>1, <2>2 DEF KeyTyped, GrantsInv
  <2>4. PrefixInv'
    BY <2>1, <2>2 DEF PrefixInv, GeneratedFrom
  <2> QED
    BY <2>3, <2>4
<1> QED
  BY <1>2, <1>3, <1>4, <1>5, <1>6 DEF KeyStep

\* However often a key is rotated and for whatever environments, its prefix can
\* be traced to the one it was generated with, if that was not empty; the
\* rotations of a key with an empty prefix have "tak".
THEOREM PrefixesSurvive == Spec => []PrefixSurvivesRotation
<1> DEFINE Inv == KeyTyped /\ PrefixInv
<1>1. Init => Inv
  BY DEF Init, KeyTyped, PrefixInv
<1>2. Inv /\ [Next]_vars => Inv'
  BY KeyTypeStep, OnlyTheseChangeKeys
<1>3. Inv => PrefixSurvivesRotation
  BY PrefixIsRecovered DEF PrefixSurvivesRotation
<1> HIDE DEF Inv
<1> QED
  BY <1>1, <1>2, <1>3, PTL DEF Spec

\* As long as rows are validated, a rotated key can do what it could before.
THEOREM GrantsSurvive == ~RawWrites => (Spec => []RotationKeepsGrants)
<1> SUFFICES ASSUME ~RawWrites PROVE Spec => []RotationKeepsGrants
  OBVIOUS
<1> DEFINE Inv == KeyTyped /\ PrefixInv /\ GrantsInv
<1>1. Init => Inv
  BY DEF Init, KeyTyped, PrefixInv, GrantsInv
<1>2. Inv /\ [Next]_vars => Inv'
  BY KeyTypeStep, OnlyTheseChangeKeys
<1>3. Inv => RotationKeepsGrants
  BY DEF GrantsInv, RotationKeepsGrants
<1> HIDE DEF Inv
<1> QED
  BY <1>1, <1>2, <1>3, PTL DEF Spec

-----------------------------------------------------------------------------
(* What stands between a request and the view's code *)

Gates == {"scope", "ip", "rate", "throttle"}

Distinct(s) == \A i, j \in DOMAIN s : s[i] = s[j] => i = j

ThrottleIsLast(s) == \A i \in DOMAIN s : s[i] = "throttle" => i = Len(s)

LEMMA PassingOne ==
    ASSUME NEW S, NEW s \in Seq(S), s # <<>>
    PROVE  /\ Head(s) \in S /\ Tail(s) \in Seq(S)
           /\ Tokens(s) = {Head(s)} \cup Tokens(Tail(s))
           /\ Distinct(s) => Distinct(Tail(s)) /\ Head(s) \notin Tokens(Tail(s))
           /\ ThrottleIsLast(s) =>
                ThrottleIsLast(Tail(s)) /\ (Head(s) = "throttle" => Tail(s) = <<>>)
<1> DEFINE n == Len(s)
           t == Tail(s)
<1>1. n \in Nat \ {0} /\ DOMAIN s = 1 .. n
  BY EmptySeq, LenProperties
<1>2. /\ Head(s) = s[1] /\ Head(s) \in S /\ t \in Seq(S)
      /\ DOMAIN t = 1 .. n - 1 /\ Len(t) = n - 1
      /\ \A i \in 1 .. n - 1 : t[i] = s[i + 1]
  <2>1. /\ Head(s) \in S /\ t \in Seq(S) /\ Len(t) = n - 1
        /\ \A i \in 1 .. Len(t) : t[i] = s[i + 1]
    BY HeadTailProperties
  <2>2. Head(s) = s[1] /\ DOMAIN t = 1 .. Len(t)
    BY <2>1, LenProperties
  <2> QED
    BY <2>1, <2>2
<1>3. 1 \in 1 .. n /\ \A i \in 1 .. n - 1 : i + 1 \in 1 .. n /\ i + 1 # 1
  BY <1>1
<1>4. \A i \in 1 .. n : i # 1 => i - 1 \in 1 .. n - 1 /\ (i - 1) + 1 = i
  BY <1>1
<1> HIDE DEF n, t
<1>5. Tokens(s) = {Head(s)} \cup Tokens(t)
  <2>1. ASSUME NEW x \in Tokens(s) PROVE x \in {Head(s)} \cup Tokens(t)
    <3>1. PICK i \in 1 .. n : x = s[i]
      BY <1>1, <2>1 DEF Tokens
    <3>2. CASE i = 1
      BY <1>2, <3>1, <3>2
    <3>3. CASE i # 1
      <4>1. i - 1 \in DOMAIN t /\ t[i - 1] = x
        BY <1>2, <1>4, <3>1, <3>3
      <4> QED
        BY <4>1 DEF Tokens
    <3> QED
      BY <3>2, <3>3
  <2>2. ASSUME NEW x \in {Head(s)} \cup Tokens(t) PROVE x \in Tokens(s)
    <3>1. CASE x = Head(s)
      BY <1>1, <1>2, <1>3, <3>1 DEF Tokens
    <3>2. CASE x \in Tokens(t)
      <4>1. PICK i \in 1 .. n - 1 : x = t[i]
        BY <1>2, <3>2 DEF Tokens
      <4>2. i + 1 \in DOMAIN s /\ s[i + 1] = x
        BY <1>1, <1>2, <1>3, <4>1
      <4> QED
        BY <4>2 DEF Tokens
    <3> QED
      BY <2>2, <3>1, <3>2
  <2> QED
    BY <2>1, <2>2
<1>6. ASSUME Distinct(s) PROVE Distinct(t) /\ Head(s) \notin Tokens(t)
  <2>1. ASSUME NEW i \in 1 .. n - 1, NEW j \in 1 .. n - 1, t[i] = t[j] PROVE i = j
    <3>1. s[i + 1] = s[j + 1] /\ i + 1 \in 1 .. n /\ j + 1 \in 1 .. n
      BY <1>2, <1>3, <2>1
    <3>2. i + 1 = j + 1
      BY <1>1, <1>6, <3>1 DEF Distinct
    <3> QED
      BY <3>2
  <2>2. \A i \in 1 .. n - 1 : t[i] # s[1]
    BY <1>1, <1>2, <1>3, <1>6 DEF Distinct
  <2> QED
    BY <1>2, <2>1, <2>2 DEF Distinct, Tokens
<1>7. ASSUME ThrottleIsLast(s)
      PROVE  ThrottleIsLast(t) /\ (Head(s) = "throttle" => t = <<>>)
  <2>1. ASSUME NEW i \in 1 .. n - 1, t[i] = "throttle" PROVE i = n - 1
    <3>1. i + 1 = n
      BY <1>1, <1>2, <1>3, <1>7, <2>1 DEF ThrottleIsLast, n
    <3> QED
      BY <1>1, <3>1
  <2>2. Head(s) = "throttle" => n = 1
    BY <1>1, <1>2, <1>3, <1>7 DEF ThrottleIsLast, n
  <2>3. n = 1 => Len(t) = 0
    BY <1>2
  <2> QED
    BY <1>2, <2>1, <2>2, <2>3, EmptySeq DEF ThrottleIsLast
<1> QED
  BY <1>2, <1>5, <1>6, <1>7 DEF t

LEMMA NoTokens ==
    /\ Tokens(<<>>) = {}
    /\ \A x : Tokens(<<x>>) = {x}
    /\ Distinct(<<>>) /\ ThrottleIsLast(<<>>)
<1>1. DOMAIN <<>> = {}
  OBVIOUS
<1>2. \A x : DOMAIN <<x>> = {1} /\ <<x>>[1] = x
  OBVIOUS
<1> QED
  BY <1>1, <1>2 DEF Tokens, Distinct, ThrottleIsLast

LEMMA GatesOfAView ==
    ASSUME NEW v \in View
    PROVE  /\ GatesOf(v) \in Seq(Gates)
           /\ Tokens(GatesOf(v)) =
                Tokens(v.permissions) \cup (IF v.throttled THEN {"throttle"} ELSE {})
           /\ ThrottleIsLast(GatesOf(v))
           /\ Distinct(v.permissions) => Distinct(GatesOf(v))
           /\ Tokens(v.permissions) \subseteq {"scope", "ip", "rate"}
           /\ v.permissions # <<>> =>
                GatesOf(v) # <<>> /\ Head(GatesOf(v)) \in {"scope", "ip", "rate"}
<1> DEFINE p == v.permissions
           n == Len(p)
           g == GatesOf(v)
<1>1. p \in Seq({"scope", "ip", "rate"}) /\ v.throttled \in BOOLEAN
  BY DEF View
<1>2. p \in Seq(Gates) /\ n \in Nat /\ DOMAIN p = 1 .. n
  BY <1>1, LenProperties DEF Gates
<1>3. \A i \in 1 .. n : p[i] \in {"scope", "ip", "rate"} /\ p[i] # "throttle"
  BY <1>1, ElementOfSeq
<1>4. Tokens(p) \subseteq {"scope", "ip", "rate"}
  BY <1>2, <1>3 DEF Tokens
<1>5. p # <<>> => 1 \in 1 .. n
  <2>1. p # <<>> => n # 0
    BY <1>1, EmptySeq
  <2> QED
    BY <1>2, <2>1
<1> HIDE DEF p, n
<1>6. CASE v.throttled
  <2>1. g = p \o <<"throttle">>
    BY <1>6 DEF GatesOf, p
  <2>2. <<"throttle">> \in Seq(Gates) /\ Len(<<"throttle">>) = 1
    BY DEF Gates
  <2>3. /\ g \in Seq(Gates) /\ Len(g) = n + 1
        /\ \A i \in 1 .. n + 1 :
             g[i] = IF i <= n THEN p[i] ELSE <<"throttle">>[i - n]
    BY <1>2, <2>1, <2>2, ConcatProperties DEF n
  <2>4. DOMAIN g = 1 .. n + 1
    BY <2>3, LenProperties
  <2>5. n + 1 \in 1 .. n + 1 /\ g[n + 1] = "throttle"
    BY <1>2, <2>3
  <2>6. \A i \in 1 .. n : i \in 1 .. n + 1 /\ g[i] = p[i]
    BY <1>2, <2>3
  <2>7. \A i \in 1 .. n + 1 : i \in 1 .. n \/ i = n + 1
    BY <1>2
  <2> HIDE DEF g
  <2>8. Tokens(g) = Tokens(p) \cup {"throttle"}
    BY <1>2, <2>4, <2>5, <2>6, <2>7 DEF Tokens
  <2>9. ThrottleIsLast(g)
    BY <1>3, <2>3, <2>4, <2>6, <2>7 DEF ThrottleIsLast
  <2>10. Distinct(p) => Distinct(g)
    BY <1>2, <1>3, <2>4, <2>5, <2>6, <2>7 DEF Distinct
  <2>11. g # <<>> /\ (p # <<>> => Head(g) \in {"scope", "ip", "rate"})
    <3>1. Len(g) # 0 /\ Head(g) = g[1]
      BY <1>2, <2>3
    <3>2. g # <<>>
      BY <2>3, <3>1, EmptySeq
    <3> QED
      BY <1>3, <1>5, <2>6, <3>1, <3>2
  <2> QED
    BY <1>4, <1>6, <2>3, <2>8, <2>9, <2>10, <2>11 DEF p, g
<1>7. CASE ~v.throttled
  <2>1. g = p
    <3>1. g = p \o <<>>
      BY <1>7 DEF GatesOf, p
    <3> QED
      BY <1>2, <3>1, ConcatEmptySeq
  <2> HIDE DEF g
  <2>2. ThrottleIsLast(p)
    BY <1>2, <1>3 DEF ThrottleIsLast
  <2>3. p # <<>> => Head(p) \in {"scope", "ip", "rate"}
    <3>1. Head(p) = p[1]
      OBVIOUS
    <3> QED
      BY <1>3, <1>5, <3>1
  <2> QED
    BY <1>2, <1>4, <1>7, <2>1, <2>2, <2>3 DEF p, g
<1> QED
  BY <1>1, <1>6, <1>7

-----------------------------------------------------------------------------
(* Types *)

HeaderType == Seq(Seq(Token \cup {"Api-Key", "Bearer"}))

LEMMA WireTypes ==
    ASSUME NEW t \in Seq(Token), NEW e \in {"utf8", "latin1"}
    PROVE  OnWire(t, e) \in Seq(Token)
<1>1. DOMAIN t = 1 .. Len(t) /\ Len(t) \in Nat /\ \A i \in 1 .. Len(t) : t[i] \in Token
  BY LenProperties, ElementOfSeq
<1>2. e \in Token
  BY DEF Token, Special
<1>3. OnWire(t, e) \in [1 .. Len(t) -> Token]
  BY <1>1, <1>2 DEF OnWire
<1> QED
  BY <1>1, <1>3

LEMMA RawKeyTypes ==
    ASSUME NEW t \in Seq(Token), NEW d \in Draws
    PROVE  RawKey(t, d) \in Seq(Token)
<1>1. "dot" \in Token /\ d \in Token
  BY DEF Token, Special
<1> QED
  BY <1>1, TwoMoreTokens DEF RawKey

\* The texts that clients present as keys.
Texts ==
    {RawKey(key.row.prefix, d) : d \in Draws} \cup {key.row.prefix}
    \cup {RawKey(<<Tak>>, d) : d \in Draws}

LEMMA HeaderForms ==
    ASSUME NEW h \in Headers
    PROVE  \/ h = <<>> \/ h = <<ApiKey>> \/ h = <<<<"Bearer">>, key.row.raw>>
           \/ \E t \in Texts, e \in {"utf8", "latin1"} : h = Credentials(OnWire(t, e))
BY DEF Headers, Texts

LEMMA HeadersAreTyped ==
    ASSUME KeyTyped, key # NULL, NEW h \in Headers
    PROVE  h \in HeaderType
<1> DEFINE Word == Seq(Token \cup {"Api-Key", "Bearer"})
<1>1. key.row.raw \in Seq(Token) /\ key.row.prefix \in Seq(Token)
  BY DEF KeyTyped, KeyType, RowType
<1>2. \A t \in Seq(Token) : t \in Word
  OBVIOUS
<1>3. ApiKey \in Word /\ <<"Bearer">> \in Word
  BY DEF ApiKey
<1>4. \A t \in Texts : t \in Seq(Token)
  BY <1>1, RawKeyTypes, TakIsAWord DEF Texts
<1>5. \A t \in Texts, e \in {"utf8", "latin1"} : OnWire(t, e) \in Word
  BY <1>2, <1>4, WireTypes
<1>6. key.row.raw \in Word
  BY <1>1, <1>2
<1> HIDE DEF Word
<1>7. \A w \in Word : Credentials(w) \in Seq(Word)
  BY <1>3 DEF Credentials
<1>8. <<>> \in Seq(Word) /\ <<ApiKey>> \in Seq(Word)
      /\ <<<<"Bearer">>, key.row.raw>> \in Seq(Word)
  BY <1>3, <1>6
<1> QED
  BY <1>5, <1>7, <1>8, HeaderForms DEF HeaderType, Word

\* A request in progress is about a key, which does not change meanwhile.
RequestOK ==
    stage # "idle" =>
        /\ key # NULL /\ request # NULL
        /\ request.header \in Headers

StatusOK == status \in {200, 401, 403, 429, NULL}

LEMMA StatusStep ==
    ASSUME StatusOK, \/ status' = status \/ status' = NULL
                     \/ status' \in {200, 401, 403, 429}
    PROVE  StatusOK'
<1>1. CASE status' = status
  BY <1>1, Zenon DEF StatusOK
<1>2. CASE status' = NULL
  BY <1>2, Zenon DEF StatusOK
<1>3. CASE status' \in {200, 401, 403, 429}
  BY <1>3, Zenon DEF StatusOK
<1> QED
  BY <1>1, <1>2, <1>3

TypesInv ==
    /\ KeyTyped
    /\ PrefixInv
    /\ RequestOK
    /\ tenant \in BOOLEAN
    /\ request \in RequestType \cup {NULL}
    /\ stage \in {"idle", "key", "gates", "answered"}
    /\ auth \in BOOLEAN
    /\ gates \in Seq(Gates)
    /\ hits \in Nat
    /\ StatusOK

\* The steps that leave the request alone, and those that leave the key alone.
Managing ==
    \/ \E s \in ScopeValues, i \in IPValues :
         \/ \E p \in Prefixes, e \in UsedIn, d \in Draws : GenerateKey(p, e, d, s, i)
         \/ Edit(s, i)
    \/ \E e \in UsedIn, d \in Draws : Rotate(e, d)
    \/ Revoke
    \/ Suspend

Passing == HasAPIKeyScope \/ HasAllowedIP \/ WithinRateLimit \/ Throttle \/ NotThrottled
           \/ NotAKey \/ Serve

Receiving == key # NULL /\ \E v \in Views, h \in Headers, a \in Sources : Receive(v, h, a)

LEMMA NextByKind == Next => Managing \/ Receiving \/ Authenticate \/ Passing \/ Forget
BY DEF Next, Managing, Receiving, Passing

LEMMA ManagingIsIdle ==
    ASSUME Managing
    PROVE  /\ stage = "idle" /\ UNCHANGED <<request, stage, auth, gates, hits, status>>
           /\ tenant' = tenant \/ tenant' = ~tenant
BY DEF Managing, GenerateKey, Edit, Rotate, Revoke, Suspend, requestVars

\* A step through the gates: one is passed, or the request is answered.
LEMMA PassingSteps ==
    ASSUME Passing
    PROVE  /\ stage = "gates"
           /\ UNCHANGED <<key, tenant, request, auth>>
           /\ hits' = hits \/ (auth /\ hits' = hits + 1)
           /\ \/ stage' = stage /\ gates # <<>> /\ gates' = Tail(gates) /\ UNCHANGED status
              \/ stage' = "answered" /\ gates' = gates /\ status' \in {200, 401, 403, 429}
BY DEF Passing, HasAPIKeyScope, HasAllowedIP, Permission, WithinRateLimit, Throttle,
       Count, NotThrottled, NotAKey, Serve, At, Pass, Reply

LEMMA ReceivingSteps ==
    ASSUME NEW v \in Views, NEW h \in Headers, NEW a \in Sources, Receive(v, h, a)
    PROVE  /\ stage = "idle"
           /\ UNCHANGED <<key, tenant, auth, hits>>
           /\ request' = [view |-> v, header |-> h, source |-> a]
           /\ \/ /\ stage' = "answered" /\ status' = 401 /\ gates' = gates
                 /\ IF v.framework = "drf" THEN DRFParse(h) = "refused"
                                           ELSE NinjaParse(h) = "refused"
              \/ /\ stage' = "gates" /\ gates' = GatesOf(v) /\ UNCHANGED status
                 /\ v.framework = "drf" /\ DRFParse(h) = "anonymous"
              \/ /\ stage' = "key" /\ UNCHANGED <<gates, status>>
                 /\ IF v.framework = "drf" THEN DRFParse(h) = "credentials"
                                           ELSE NinjaParse(h) = "credentials"
<1> DEFINE parsed == IF v.framework = "drf" THEN DRFParse(h) ELSE NinjaParse(h)
<1>1. /\ v.framework = "drf" => parsed = DRFParse(h)
      /\ v.framework # "drf" => parsed = NinjaParse(h)
  OBVIOUS
<1>2. /\ stage = "idle"
      /\ request' = [view |-> v, header |-> h, source |-> a]
      /\ UNCHANGED <<key, tenant, auth, hits>>
      /\ CASE parsed = "refused"     -> Reply(401) /\ UNCHANGED gates
           [] parsed = "anonymous"   -> /\ stage' = "gates"
                                        /\ gates' = GatesOf(v)
                                        /\ UNCHANGED status
           [] parsed = "credentials" -> stage' = "key" /\ UNCHANGED <<gates, status>>
  BY DEF Receive
<1>3. /\ DRFParse(h) \in {"refused", "anonymous", "credentials"}
      /\ NinjaParse(h) \in {"refused", "credentials"}
  BY DEF DRFParse, NinjaParse
<1> HIDE DEF parsed
<1>4. CASE parsed = "refused"
  BY <1>1, <1>2, <1>4 DEF Reply
<1>5. CASE parsed = "anonymous"
  BY <1>1, <1>2, <1>3, <1>5
<1>6. CASE parsed = "credentials"
  BY <1>1, <1>2, <1>6
<1> QED
  BY <1>1, <1>3, <1>4, <1>5, <1>6

LEMMA AuthenticateSteps ==
    ASSUME Authenticate
    PROVE  /\ stage = "key"
           /\ UNCHANGED <<key, tenant, request, hits>>
           /\ \/ /\ KeyVerified /\ PolicyAllows
                 /\ auth' = TRUE /\ stage' = "gates" /\ gates' = GatesOf(request.view)
                 /\ UNCHANGED status
              \/ /\ KeyVerified /\ ~PolicyAllows
                 /\ stage' = "answered" /\ status' = 403 /\ UNCHANGED <<auth, gates>>
              \/ /\ ~KeyVerified
                 /\ stage' = "answered" /\ status' = 401 /\ UNCHANGED <<auth, gates>>
BY DEF Authenticate, Reply

LEMMA TypesStep ==
    ASSUME TypesInv, [Next]_vars
    PROVE  TypesInv'
<1>1. KeyTyped' /\ PrefixInv'
  BY KeyTypeStep, OnlyTheseChangeKeys DEF TypesInv
<1>2. ASSUME key' = key PROVE Headers' = Headers
  BY <1>2 DEF Headers
<1>3. CASE UNCHANGED vars
  <2>1. StatusOK'
    BY <1>3, StatusStep DEF vars, requestVars, TypesInv
  <2> QED
    BY <1>1, <1>2, <1>3, <2>1 DEF vars, requestVars, TypesInv, RequestOK
<1>4. CASE Managing
  <2>1. StatusOK'
    BY <1>4, ManagingIsIdle, StatusStep DEF TypesInv
  <2>2. /\ stage = "idle" /\ UNCHANGED <<request, stage, auth, gates, hits>>
        /\ tenant' \in BOOLEAN
    BY <1>4, ManagingIsIdle DEF TypesInv
  <2> QED
    BY <1>1, <2>1, <2>2 DEF TypesInv, RequestOK
<1>5. CASE Receiving
  <2>1. PICK v \in Views, h \in Headers, a \in Sources : Receive(v, h, a)
    BY <1>5 DEF Receiving
  <2>2. key # NULL
    BY <1>5 DEF Receiving
  <2>3. h \in HeaderType
    BY <2>2, HeadersAreTyped DEF TypesInv
  <2>4. [view |-> v, header |-> h, source |-> a] \in RequestType
    BY <2>3 DEF RequestType, HeaderType
  <2>5. v \in View
    BY AccessAssumption
  <2>6. GatesOf(v) \in Seq(Gates)
    BY <2>5, GatesOfAView
  <2>7. request' \in RequestType /\ request' # NULL /\ request'.header = h
    BY <2>1, <2>4, ReceivingSteps, AccessNull
  <2>8. key' = key /\ request'.header \in Headers'
    BY <1>2, <2>1, <2>7, ReceivingSteps
  <2>9. /\ stage' \in {"idle", "key", "gates", "answered"}
        /\ gates' \in Seq(Gates)
        /\ UNCHANGED <<auth, hits, tenant>>
    BY <2>1, <2>6, ReceivingSteps DEF TypesInv
  <2>10. status' = status \/ status' = 401
    BY <2>1, ReceivingSteps
  <2>11. StatusOK'
    BY <2>10, StatusStep DEF TypesInv
  <2> QED
    BY <1>1, <2>2, <2>7, <2>8, <2>9, <2>11 DEF TypesInv, RequestOK
<1>6. CASE Authenticate
  <2>1. key # NULL /\ request # NULL /\ request.header \in Headers
    BY <1>6, AuthenticateSteps DEF TypesInv, RequestOK
  <2>2. request.view \in View
    BY <2>1, AccessAssumption DEF TypesInv, RequestType
  <2>3. GatesOf(request.view) \in Seq(Gates)
    BY <2>2, GatesOfAView
  <2>4. key' = key /\ request' = request /\ Headers' = Headers
    BY <1>2, <1>6, AuthenticateSteps
  <2>5. /\ stage' \in {"idle", "key", "gates", "answered"}
        /\ gates' \in Seq(Gates)
        /\ auth' \in BOOLEAN /\ UNCHANGED <<hits, tenant>>
    BY <1>6, <2>3, AuthenticateSteps DEF TypesInv
  <2>6. status' = status \/ status' \in {401, 403}
    BY <1>6, AuthenticateSteps
  <2>7. StatusOK'
    BY <2>6, StatusStep DEF TypesInv
  <2> QED
    BY <1>1, <2>1, <2>4, <2>5, <2>7 DEF TypesInv, RequestOK
<1>7. CASE Passing
  <2>1. key # NULL /\ request # NULL /\ request.header \in Headers
    BY <1>7, PassingSteps DEF TypesInv, RequestOK
  <2>2. key' = key /\ request' = request /\ Headers' = Headers
    BY <1>2, <1>7, PassingSteps
  <2>3. gates # <<>> => Tail(gates) \in Seq(Gates)
    BY PassingOne DEF TypesInv
  <2>4. /\ stage' \in {"idle", "key", "gates", "answered"}
        /\ gates' \in Seq(Gates)
        /\ UNCHANGED <<auth, tenant>>
    BY <1>7, <2>3, PassingSteps DEF TypesInv
  <2>5. hits' \in Nat
    BY <1>7, PassingSteps DEF TypesInv
  <2>6. status' = status \/ status' \in {200, 401, 403, 429}
    BY <1>7, PassingSteps
  <2>7. StatusOK'
    BY <2>6, StatusStep DEF TypesInv
  <2> QED
    BY <1>1, <2>1, <2>2, <2>4, <2>5, <2>7 DEF TypesInv, RequestOK
<1>8. CASE Forget
  <2>1. <<>> \in Seq(Gates)
    OBVIOUS
  <2>2. StatusOK'
    BY <1>8, StatusStep DEF Forget, TypesInv
  <2> QED
    BY <1>1, <1>8, <2>1, <2>2 DEF Forget, TypesInv, RequestOK
<1> QED
  BY <1>3, <1>4, <1>5, <1>6, <1>7, <1>8, NextByKind

LEMMA TypesInit == Init => TypesInv
<1>1. <<>> \in Seq(Gates)
  OBVIOUS
<1>2. Init => StatusOK
  BY Zenon DEF Init, StatusOK
<1>3. Init => KeyTyped /\ PrefixInv /\ RequestOK /\ request \in RequestType \cup {NULL}
  BY DEF Init, KeyTyped, PrefixInv, RequestOK
<1>4. Init => tenant \in BOOLEAN /\ auth \in BOOLEAN
  BY Zenon DEF Init
<1>5. Init => stage = "idle" /\ gates = <<>> /\ hits = 0
  BY Zenon DEF Init
<1> QED
  BY <1>1, <1>2, <1>3, <1>4, <1>5 DEF TypesInv

LEMMA TypesHold == Spec => []TypesInv
BY TypesInit, TypesStep, PTL DEF Spec

\* TypeOK holds in every reachable state: in particular the stored prefix,
\* whatever callers chose and however often the key was rotated, fits into its
\* column.
THEOREM AccessTypes == Spec => []TypeOK
<1>1. TypesInv => TypeOK
  <2> SUFFICES ASSUME TypesInv PROVE TypeOK
    OBVIOUS
  <2>1. key # NULL => Len(key.row.prefix) <= MaxKeyPrefix
    <3> SUFFICES ASSUME key # NULL PROVE Len(key.row.prefix) <= MaxKeyPrefix
      OBVIOUS
    <3>1. PICK p \in Seq(Token) : GeneratedFrom(p, key.row)
      BY OriginOfTheRow DEF TypesInv
    <3>2. Len(key.row.prefix) = Len(p) + 2
      BY <3>1, KeyPrefixShape DEF GeneratedFrom
    <3>3. Len(p) \in Nat /\ MaxPrefix \in Nat
      BY <3>1, LenProperties, KeyFormatAssumption
    <3> QED
      BY <3>1, <3>2, <3>3 DEF GeneratedFrom, Fits, MaxKeyPrefix
  <2> QED
    BY <2>1 DEF TypesInv, TypeOK, KeyTyped, RequestOK, Gates, StatusOK
<1> QED
  BY <1>1, TypesHold, PTL

-----------------------------------------------------------------------------
(* Keys in headers *)

\* generate_key(prefix=...) was given nothing but ASCII letters, digits, dashes
\* and underscores.
OrdinaryPrefixes == \A p \in Prefixes : Tokens(p) \cap Special = {}

PlainText(t) == t \in Seq(Token) /\ Tokens(t) \cap (Special \ {"dot"}) = {}

LEMMA OnTheWire ==
    ASSUME NEW t, PlainText(t), NEW e, NEW framework
    PROVE  /\ OnWire(t, e) = t
           /\ Decoded(framework, t) = t
           /\ Credentials(t) = <<ApiKey, t>>
<1>1. DOMAIN t = 1 .. Len(t) /\ t = [i \in DOMAIN t |-> t[i]]
  BY LenProperties DEF PlainText
<1>2. \A i \in DOMAIN t : t[i] \notin {"blank", "accent", "utf8", "latin1", "mojibake"}
  BY DEF PlainText, Tokens, Special
<1>3. OnWire(t, e) = [i \in DOMAIN t |-> t[i]]
  BY <1>2 DEF OnWire
<1>4. Decoded(framework, t) = [i \in DOMAIN t |-> t[i]]
  BY <1>2 DEF Decoded
<1>5. "blank" \notin Tokens(t)
  BY DEF PlainText, Special
<1> QED
  BY <1>1, <1>3, <1>4, <1>5 DEF Credentials

LEMMA TwoMorePlain ==
    ASSUME NEW p, PlainText(p), NEW a \in Token, NEW b \in Token,
           {a, b} \cap (Special \ {"dot"}) = {}
    PROVE  PlainText(p \o <<a, b>>)
<1> DEFINE t == p \o <<a, b>>
           n == Len(p)
<1>1. /\ t \in Seq(Token) /\ Len(t) = n + 2
      /\ \A i \in 1 .. n : t[i] = p[i]
      /\ t[n + 1] = a /\ t[n + 2] = b
  BY TwoMoreTokens DEF PlainText
<1>2. n \in Nat /\ DOMAIN p = 1 .. n
  BY LenProperties DEF PlainText
<1> HIDE DEF n, t
<1>3. DOMAIN t = 1 .. n + 2
  BY <1>1, LenProperties
<1>4. \A i \in 1 .. n + 2 : i \in 1 .. n \/ i = n + 1 \/ i = n + 2
  BY <1>2
<1>5. Tokens(t) \subseteq Tokens(p) \cup {a, b}
  BY <1>1, <1>2, <1>3, <1>4 DEF Tokens
<1>6. PlainText(t)
  BY <1>1, <1>5 DEF PlainText
<1> QED
  BY <1>6 DEF t

LEMMA RawKeysArePlain ==
    ASSUME NEW p, PlainText(p), NEW d \in Draws
    PROVE  PlainText(RawKey(p, d))
<1>1. "dot" \in Token /\ d \in Token /\ d \notin Special
  BY KeyFormatAssumption DEF Token, Special
<1> QED
  BY <1>1, TwoMorePlain DEF RawKey

LEMMA KeyPrefixesArePlain ==
    ASSUME NEW p, PlainText(p), NEW e, NEW d \in Draws
    PROVE  PlainText(KeyPrefix(p, e, d))
<1>1. d \in Token /\ d \notin Special
  BY KeyFormatAssumption DEF Token
<1>2. Segment(e) \in Token /\ Segment(e) \notin Special
  BY SegmentIsOne DEF Segment, Special
<1> QED
  BY <1>1, <1>2, TwoMorePlain DEF KeyPrefix

LEMMA TakIsPlain == PlainText(<<Tak>>)
<1>1. Tak \notin Special
  BY TakIsAWord, KeyFormatAssumption
<1>2. Tokens(<<Tak>>) = {Tak}
  BY NoTokens
<1> QED
  BY <1>1, <1>2, TakIsAWord DEF PlainText

LEMMA OriginIsPlain ==
    ASSUME OrdinaryPrefixes, TypesInv, key # NULL
    PROVE  \E p : PlainText(p) /\ "dot" \notin Tokens(p) /\ GeneratedFrom(p, key.row)
<1>1. PICK p \in Seq(Token) : /\ p = key.chosen \/ p = Recovered(key.chosen)
                              /\ GeneratedFrom(p, key.row)
  BY OriginOfTheRow DEF TypesInv
<1>2. Tokens(key.chosen) \cap Special = {}
  BY DEF OrdinaryPrefixes, TypesInv, KeyTyped, KeyType
<1>3. Tokens(<<Tak>>) \cap Special = {}
  BY NoTokens, TakIsAWord, KeyFormatAssumption
<1>4. Tokens(p) \cap Special = {}
  BY <1>1, <1>2, <1>3 DEF Recovered
<1> QED
  BY <1>1, <1>4 DEF PlainText, Special

\* The stored prefix and the raw key of a key with an ordinary prefix, and
\* whatever clients present instead, survive the way through a header.
LEMMA TextsArePlain ==
    ASSUME OrdinaryPrefixes, TypesInv, key # NULL
    PROVE  PlainText(key.row.raw) /\ \A t \in Texts : PlainText(t)
<1>1. PICK p : PlainText(p) /\ GeneratedFrom(p, key.row)
  BY OriginIsPlain
<1>2. PICK e \in UsedIn, d \in Draws : /\ key.row.prefix = KeyPrefix(p, e, d)
                                       /\ key.row.raw = RawKey(key.row.prefix, d)
  BY <1>1 DEF GeneratedFrom
<1>3. PlainText(key.row.prefix)
  BY <1>1, <1>2, KeyPrefixesArePlain
<1>4. PlainText(key.row.raw)
  BY <1>2, <1>3, RawKeysArePlain
<1>5. \A t \in Texts : PlainText(t)
  BY <1>3, RawKeysArePlain, TakIsPlain DEF Texts
<1> QED
  BY <1>4, <1>5

\* How a header is taken that presents a text, and what every other one is.
LEMMA Parsing ==
    /\ \A t : PlainText(t) =>
         DRFParse(<<ApiKey, t>>) = "credentials" /\ NinjaParse(<<ApiKey, t>>) = "credentials"
    /\ DRFParse(<<>>) = "anonymous" /\ NinjaParse(<<>>) = "refused"
    /\ DRFParse(<<ApiKey>>) = "refused" /\ NinjaParse(<<ApiKey>>) = "refused"
    /\ \A t : DRFParse(<<<<"Bearer">>, t>>) = "anonymous"
              /\ NinjaParse(<<<<"Bearer">>, t>>) = "refused"
<1>1. ASSUME NEW t, PlainText(t)
      PROVE  /\ DRFParse(<<ApiKey, t>>) = "credentials"
             /\ NinjaParse(<<ApiKey, t>>) = "credentials"
  <2>1. "latin1" \notin Tokens(t)
    BY <1>1 DEF PlainText, Special
  <2>2. /\ <<ApiKey, t>> # <<>> /\ <<ApiKey, t>>[1] = ApiKey /\ <<ApiKey, t>>[2] = t
        /\ Len(<<ApiKey, t>>) = 2
    OBVIOUS
  <2> QED
    BY <2>1, <2>2 DEF DRFParse, NinjaParse
<1>2. DRFParse(<<>>) = "anonymous" /\ NinjaParse(<<>>) = "refused"
  <2>1. Len(<<>>) = 0
    OBVIOUS
  <2> QED
    BY <2>1 DEF DRFParse, NinjaParse
<1>3. DRFParse(<<ApiKey>>) = "refused" /\ NinjaParse(<<ApiKey>>) = "refused"
  <2>1. <<ApiKey>> # <<>> /\ <<ApiKey>>[1] = ApiKey /\ Len(<<ApiKey>>) = 1
    OBVIOUS
  <2> QED
    BY <2>1 DEF DRFParse, NinjaParse
<1>4. <<"Bearer">> # ApiKey
  BY DEF ApiKey
<1>5. ASSUME NEW t
      PROVE  /\ DRFParse(<<<<"Bearer">>, t>>) = "anonymous"
             /\ NinjaParse(<<<<"Bearer">>, t>>) = "refused"
  <2>1. <<<<"Bearer">>, t>>[1] = <<"Bearer">>
    OBVIOUS
  <2> QED
    BY <1>4, <2>1 DEF DRFParse, NinjaParse
<1> QED
  BY <1>1, <1>2, <1>3, <1>5

LEMMA PlainHeaders ==
    ASSUME OrdinaryPrefixes, TypesInv, key # NULL, NEW h \in Headers
    PROVE  \/ h = <<>> \/ h = <<ApiKey>> \/ h = <<<<"Bearer">>, key.row.raw>>
           \/ \E t \in Texts : PlainText(t) /\ h = <<ApiKey, t>>
<1>1. ASSUME NEW t \in Texts, NEW e, h = Credentials(OnWire(t, e))
      PROVE  PlainText(t) /\ h = <<ApiKey, t>>
  BY <1>1, TextsArePlain, OnTheWire
<1> QED
  BY <1>1, HeaderForms

\* The documentation's client, in one form.
LEMMA HoldingAKey ==
    ASSUME OrdinaryPrefixes, TypesInv, key # NULL
    PROVE  HoldsKey <=> request.header = <<ApiKey, key.row.raw>> /\ key.row.is_active
BY TextsArePlain, OnTheWire DEF HoldsKey

\* Another header is not its holder's.
LEMMA NotHoldingAKey ==
    ASSUME OrdinaryPrefixes, TypesInv, key # NULL, NEW h,
           DRFParse(h) # "credentials" \/ NinjaParse(h) # "credentials"
    PROVE  \A e : h # Credentials(OnWire(key.row.raw, e))
BY TextsArePlain, OnTheWire, Parsing

\* authenticate_key() finds the key of those who hold it, and no other's.
LEMMA OnlyHoldersAreVerified ==
    ASSUME OrdinaryPrefixes, TypesInv, key # NULL,
           NEW t, PlainText(t), request.header = <<ApiKey, t>>
    PROVE  KeyVerified <=> HoldsKey
<1>1. Text = t
  <2>1. request.header[2] = t
    OBVIOUS
  <2> QED
    BY <2>1, OnTheWire DEF Text
<1>2. HoldsKey <=> t = key.row.raw /\ key.row.is_active
  <2>1. <<ApiKey, t>> = <<ApiKey, key.row.raw>> <=> t = key.row.raw
    OBVIOUS
  <2> QED
    BY <2>1, HoldingAKey
<1>3. HasShape(key.row.raw) /\ LookupPrefix(key.row.raw) = key.row.prefix
  <2>1. PICK p : PlainText(p) /\ "dot" \notin Tokens(p) /\ GeneratedFrom(p, key.row)
    BY OriginIsPlain
  <2>2. PICK e \in UsedIn, d \in Draws : /\ key.row.prefix = KeyPrefix(p, e, d)
                                         /\ key.row.raw = RawKey(key.row.prefix, d)
    BY <2>1 DEF GeneratedFrom
  <2>3. /\ p \in Seq(Token) /\ Fits(p)
        /\ \A i \in 1 .. Len(p) : p[i] \notin {"dot", "blank"}
    <3>1. DOMAIN p = 1 .. Len(p)
      BY <2>1, LenProperties DEF PlainText
    <3> QED
      BY <2>1, <3>1 DEF GeneratedFrom, PlainText, Tokens, Special
  <2> QED
    BY <2>2, <2>3, RawKeyFindsItsRow
<1> QED
  BY <1>1, <1>2, <1>3 DEF KeyVerified


-----------------------------------------------------------------------------
(* The documented rules *)

\* has_scope() grants what is documented: a name, everything, or a namespace.
THEOREM ScopesAsDocumented ==
    ASSUME NEW c \in Column, NEW r \in Seq(STRING)
    PROVE  HasScope(c, r) <=> Grants(c, r)
<1> DEFINE Word == STRING \cup {Star}
<1>1. Len(r) \in Nat /\ r \in Seq(Word) /\ \A w \in c.items : w \in Seq(Word)
  <2>1. c.items \in SUBSET Seq(STRING)
    BY DEF Column
  <2>2. \A w \in Seq(STRING) : w \in Seq(Word)
    OBVIOUS
  <2> QED
    BY <2>1, <2>2, LenProperties
<1>2. ASSUME NEW n \in 1 .. Len(r) - 1
      PROVE  LET w == Append(SubSeq(r, 1, n), Star)
             IN  /\ w \in Seq(Word) /\ Len(w) = n + 1
                 /\ w[n + 1] = Star /\ \A i \in 1 .. n : w[i] = r[i]
  <2> DEFINE u == SubSeq(r, 1, n)
  <2>1. \A i \in 1 .. n : i \in 1 .. Len(r) /\ r[i] \in Word
    BY <1>1, ElementOfSeq
  <2>2. /\ u \in Seq(Word) /\ Len(u) = n
        /\ \A i \in 1 .. n : u[i] = r[i]
    BY <2>1, SubSeqProperties
  <2>3. Star \in Word
    OBVIOUS
  <2> HIDE DEF u, Word
  <2>4. /\ Append(u, Star) \in Seq(Word) /\ Len(Append(u, Star)) = n + 1
        /\ Append(u, Star)[n + 1] = Star
        /\ \A i \in 1 .. n : Append(u, Star)[i] = u[i]
    BY <2>2, <2>3, AppendProperties
  <2> QED
    BY <2>2, <2>4 DEF u
<1> HIDE DEF Word
<1>3. ASSUME NEW w \in c.items, Covers(w, r)
      PROVE  \E n \in 1 .. Len(r) - 1 : Append(SubSeq(r, 1, n), Star) \in c.items
  <2> DEFINE n == Len(w) - 1
             v == Append(SubSeq(r, 1, n), Star)
  <2>1. w \in Seq(Word) /\ Len(w) \in Nat
    BY <1>1, LenProperties
  <2>2. /\ n \in 1 .. Len(r) - 1 /\ Len(w) = n + 1
        /\ w[n + 1] = Star /\ \A i \in 1 .. n : w[i] = r[i]
    BY <1>1, <1>3, <2>1 DEF Covers
  <2> HIDE DEF n
  <2>3. /\ v \in Seq(Word) /\ Len(v) = n + 1
        /\ v[n + 1] = Star /\ \A i \in 1 .. n : v[i] = r[i]
    BY <1>2, <2>2
  <2> HIDE DEF v
  <2>4. \A i \in 1 .. n + 1 : v[i] = w[i]
    BY <2>2, <2>3
  <2>5. v = w
    BY <2>1, <2>2, <2>3, <2>4, SeqEqual
  <2> QED
    BY <2>2, <2>5 DEF v
<1>4. ASSUME NEW n \in 1 .. Len(r) - 1, Append(SubSeq(r, 1, n), Star) \in c.items
      PROVE  \E w \in c.items : Covers(w, r)
  <2> DEFINE w == Append(SubSeq(r, 1, n), Star)
  <2>1. /\ Len(w) = n + 1 /\ w[n + 1] = Star /\ \A i \in 1 .. n : w[i] = r[i]
    BY <1>2
  <2>2. w \in c.items
    BY <1>4
  <2> HIDE DEF w
  <2>3. Covers(w, r)
    BY <1>1, <2>1 DEF Covers
  <2> QED
    BY <2>2, <2>3
<1> QED
  BY <1>3, <1>4 DEF HasScope, Grants

\* is_ip_allowed() lets in the addresses that an entry covers in the one or the
\* other way to write them, unless the entry itself is a mapped one.
THEOREM AddressesAsDocumented ==
    ASSUME NEW c \in IPColumn, NEW s \in Address \cup {Garbage}
    PROVE  AddressAllowed(c, s) <=> LetsIn(c, s)
<1>1. \A e \in c.items : e # Garbage => e \subseteq Address
  <2>1. c.items \in SUBSET NetworkOrText
    BY DEF IPColumn
  <2> QED
    BY <2>1 DEF NetworkOrText
<1>2. \A a \in Address : /\ Unmapped(a) \in Address /\ Unmapped(a).kind # "mapped"
                         /\ a.kind # "mapped" => Unmapped(a) = a
  BY DEF Address, Unmapped
<1>3. ASSUME s # Garbage, NEW e \in c.items, e # Garbage
      PROVE  Unmapped(s) \in e <=> \E a \in e : a.kind # "mapped" /\ SameAddress(a, s)
  BY <1>1, <1>2, <1>3 DEF SameAddress
<1> QED
  BY <1>3 DEF AddressAllowed, IsIPAllowed, LetsIn

ScopesGranted == \A r \in Required : HasScope(key.row.scopes, r)

\* What the answer to a request may be.
LEMMA WhatIsDue ==
    ASSUME TypesInv, key # NULL, request # NULL
    PROVE  /\ ~HoldsKey =>
                Due = IF request.view.permissions = <<>>
                         /\ DRFParse(request.header) = "anonymous" THEN {200} ELSE {401}
           /\ HoldsKey /\ ~PolicyAllows => Due = {403}
           /\ HoldsKey /\ PolicyAllows =>
                Due = IF Requires("scope") /\ ~ScopesGranted
                      THEN IF Requires("rate") THEN {403, 429} ELSE {403}
                      ELSE {200, 429}
<1>1. /\ key.row.scopes \in Column /\ key.row.allowed_ips \in IPColumn
      /\ request.source \in Address \cup {Garbage}
  BY AccessAssumption DEF TypesInv, KeyTyped, KeyType, RowType, RequestType
<1>2. \A r \in Required : HasScope(key.row.scopes, r) <=> Grants(key.row.scopes, r)
  BY <1>1, ScopesAsDocumented, AccessAssumption
<1>3. PolicyAllows <=> /\ key.row.environment \in Served
                       /\ LetsIn(key.row.allowed_ips, request.source)
                       /\ tenant
  BY <1>1, AddressesAsDocumented DEF PolicyAllows
<1>4. ScopesGranted <=> ~\E r \in Required : ~Grants(key.row.scopes, r)
  BY <1>2 DEF ScopesGranted
<1>5. ~HoldsKey =>
        Due = IF request.view.permissions = <<>>
                 /\ DRFParse(request.header) = "anonymous" THEN {200} ELSE {401}
  BY DEF Due
<1>6. HoldsKey /\ ~PolicyAllows => Due = {403}
  BY <1>3 DEF Due
<1>7. HoldsKey /\ PolicyAllows =>
        Due = IF Requires("scope") /\ ~ScopesGranted
              THEN IF Requires("rate") THEN {403, 429} ELSE {403}
              ELSE {200, 429}
  BY <1>3, <1>4 DEF Due
<1> QED
  BY <1>5, <1>6, <1>7

LEMMA Steady ==
    ASSUME UNCHANGED <<key, tenant, request>>
    PROVE  /\ HoldsKey' <=> HoldsKey
           /\ PolicyAllows' <=> PolicyAllows
           /\ ScopesGranted' <=> ScopesGranted
           /\ \A g : Requires(g)' <=> Requires(g)
           /\ Due' = Due
<1>1. HoldsKey' <=> HoldsKey
  BY DEF HoldsKey
<1>2. PolicyAllows' <=> PolicyAllows
  BY DEF PolicyAllows
<1>3. ScopesGranted' <=> ScopesGranted
  BY DEF ScopesGranted
<1>4. \A g : Requires(g)' <=> Requires(g)
  BY DEF Requires
<1>5. Due' = Due
  BY <1>1, <1>4 DEF Due
<1> QED
  BY <1>1, <1>2, <1>3, <1>4, <1>5

LEMMA RequiringAGate ==
    ASSUME NEW g
    PROVE  Requires(g) <=> g \in Tokens(request.view.permissions)
BY DEF Requires, Tokens

\* Each gate, in detail.
LEMMA GateByGate ==
    ASSUME Passing
    PROVE  \/ /\ gates # <<>> /\ stage' = stage /\ gates' = Tail(gates)
              /\ auth \/ Head(gates) = "throttle"
              /\ hits' = IF auth /\ Head(gates) \in {"rate", "throttle"} THEN hits + 1 ELSE hits
              /\ Head(gates) = "scope" => ScopesGranted
           \/ /\ gates # <<>> /\ stage' = "answered" /\ status' = 401
              /\ ~auth /\ Head(gates) \in {"scope", "ip", "rate"} /\ hits' = hits
           \/ /\ gates # <<>> /\ stage' = "answered" /\ status' = 403
              /\ auth /\ hits' = hits
              /\ \/ Head(gates) = "scope" /\ ~ScopesGranted
                 \/ Head(gates) = "ip" /\ ~AddressAllowed(key.row.allowed_ips, request.source)
           \/ /\ gates # <<>> /\ stage' = "answered" /\ status' = 429
              /\ auth /\ hits' = hits + 1 /\ Head(gates) \in {"rate", "throttle"}
           \/ /\ gates = <<>> /\ stage' = "answered" /\ status' = 200 /\ hits' = hits
<1>1. CASE HasAPIKeyScope
  BY <1>1 DEF HasAPIKeyScope, Permission, At, Pass, Reply, ScopesGranted
<1>2. CASE HasAllowedIP
  BY <1>2 DEF HasAllowedIP, Permission, At, Pass, Reply
<1>3. CASE WithinRateLimit \/ Throttle
  BY <1>3 DEF WithinRateLimit, Throttle, Count, At, Pass, Reply
<1>4. CASE NotThrottled
  BY <1>4 DEF NotThrottled, At, Pass
<1>5. CASE NotAKey
  BY <1>5 DEF NotAKey, At, Reply
<1>6. CASE Serve
  BY <1>6 DEF Serve, Reply
<1> QED
  BY <1>1, <1>2, <1>3, <1>4, <1>5, <1>6 DEF Passing

Permissions == request.view.permissions

\* What is left of the gates is a part of the view's, with the throttle last; a
\* request without a key gets past the throttle at most, and is never counted.
GatesInv ==
    /\ stage \in {"idle", "key"} => ~auth
    /\ ~auth => hits = 0
    /\ stage = "key" => hits = 0
    /\ stage = "gates" =>
         /\ ThrottleIsLast(gates)
         /\ Tokens(gates) \subseteq
              Tokens(Permissions) \cup (IF request.view.throttled THEN {"throttle"} ELSE {})
         /\ ~auth /\ Permissions # <<>> =>
              gates # <<>> /\ Head(gates) \in {"scope", "ip", "rate"}

\* A request that has just come to the gates.
LEMMA AtTheGates ==
    ASSUME NEW v \in Views
    PROVE  /\ ThrottleIsLast(GatesOf(v))
           /\ Tokens(GatesOf(v)) \subseteq
                Tokens(v.permissions) \cup (IF v.throttled THEN {"throttle"} ELSE {})
           /\ v.permissions # <<>> =>
                GatesOf(v) # <<>> /\ Head(GatesOf(v)) \in {"scope", "ip", "rate"}
<1>1. v \in View
  BY AccessAssumption
<1> QED
  BY <1>1, GatesOfAView

LEMMA GatesStep ==
    ASSUME TypesInv, GatesInv, [Next]_vars
    PROVE  GatesInv'
<1>1. hits \in Nat /\ auth \in BOOLEAN /\ gates \in Seq(Gates)
  BY DEF TypesInv
<1>2. CASE UNCHANGED vars
  BY <1>2 DEF vars, requestVars, GatesInv, Permissions
<1>3. CASE Managing
  BY <1>3, ManagingIsIdle DEF GatesInv
<1>4. CASE Receiving
  <2>1. PICK v \in Views, h \in Headers, a \in Sources : Receive(v, h, a)
    BY <1>4 DEF Receiving
  <2>2. stage = "idle" /\ UNCHANGED <<auth, hits>> /\ request'.view = v
    BY <2>1, ReceivingSteps
  <2>3. ~auth' /\ hits' = 0 /\ Permissions' = v.permissions
    BY <2>2 DEF GatesInv, Permissions
  <2>4. stage' # "gates" \/ gates' = GatesOf(v)
    BY <2>1, ReceivingSteps
  <2> QED
    BY <2>2, <2>3, <2>4, AtTheGates DEF GatesInv
<1>5. CASE Authenticate
  <2>1. stage = "key" /\ UNCHANGED <<request, hits>> /\ ~auth /\ hits = 0
    BY <1>5, AuthenticateSteps DEF GatesInv
  <2>2. request.view \in Views
    BY <2>1 DEF TypesInv, RequestOK, RequestType
  <2>3. \/ stage' = "gates" /\ gates' = GatesOf(request.view) /\ auth' = TRUE
        \/ stage' = "answered"
    BY <1>5, AuthenticateSteps
  <2> QED
    BY <2>1, <2>2, <2>3, AtTheGates DEF GatesInv, Permissions
<1>6. CASE Passing
  <2>1. stage = "gates" /\ UNCHANGED <<request, auth>>
    BY <1>6, PassingSteps
  <2>2. ~auth' => hits' = 0
    BY <1>6, <2>1, PassingSteps DEF GatesInv
  <2>3. CASE stage' = "answered"
    BY <2>1, <2>2, <2>3 DEF GatesInv
  <2>4. CASE stage' # "answered"
    <3>1. /\ gates # <<>> /\ stage' = stage /\ gates' = Tail(gates)
          /\ auth \/ Head(gates) = "throttle"
      BY <1>6, <2>4, GateByGate
    <3>2. ThrottleIsLast(gates)
          /\ Tokens(gates) \subseteq
               Tokens(Permissions) \cup (IF request.view.throttled THEN {"throttle"} ELSE {})
          /\ (~auth /\ Permissions # <<>> =>
                gates # <<>> /\ Head(gates) \in {"scope", "ip", "rate"})
      BY <2>1 DEF GatesInv
    <3>3. ThrottleIsLast(Tail(gates)) /\ Tokens(Tail(gates)) \subseteq Tokens(gates)
      <4>1. Tokens(gates) = {Head(gates)} \cup Tokens(Tail(gates))
        BY <1>1, <3>1, PassingOne
      <4>2. ThrottleIsLast(Tail(gates))
        BY <1>1, <3>1, <3>2, PassingOne
      <4> QED
        BY <4>1, <4>2
    <3>4. auth' = auth /\ request' = request /\ stage' = "gates"
      BY <2>1, <3>1
    <3>5. ~auth => Permissions = <<>>
      BY <3>1, <3>2
    <3>6. Permissions' = Permissions
      BY <3>4 DEF Permissions
    <3>7. ThrottleIsLast(gates)' /\ Tokens(gates)' = Tokens(Tail(gates))
      BY <3>1, <3>3 DEF ThrottleIsLast, Tokens
    <3>8. Tokens(gates)' \subseteq
            Tokens(Permissions) \cup (IF request.view.throttled THEN {"throttle"} ELSE {})
      BY <3>2, <3>3, <3>7
    <3> QED
      BY <2>2, <3>4, <3>5, <3>6, <3>7, <3>8 DEF GatesInv
  <2> QED
    BY <2>3, <2>4
<1>7. CASE Forget
  BY <1>7 DEF Forget, GatesInv
<1> QED
  BY <1>2, <1>3, <1>4, <1>5, <1>6, <1>7, NextByKind

LEMMA GatesHold == Spec => [](TypesInv /\ GatesInv)
<1>1. Init => GatesInv
  BY DEF Init, GatesInv
<1> QED
  BY <1>1, TypesInit, TypesStep, GatesStep, PTL DEF Spec

-----------------------------------------------------------------------------
(* CountedOnce *)

\* No view names a permission class twice.
OnceEach == \A v \in Views : Distinct(v.permissions)

\* How often a request was counted so far, by what is still before it.
CountsInv ==
    /\ stage = "gates" /\ auth =>
         /\ Distinct(gates)
         /\ hits # 0 /\ "rate" \notin Tokens(Permissions) => gates = <<>>
         /\ ("rate" \in Tokens(Permissions) <=> ~request.view.throttled) =>
              hits = IF Tokens(gates) \cap {"rate", "throttle"} = {} THEN 1 ELSE 0
    /\ CountedOnce

LEMMA CountsStep ==
    ASSUME OnceEach, TypesInv, GatesInv, CountsInv, [Next]_vars
    PROVE  CountsInv'
<1>1. hits \in Nat /\ auth \in BOOLEAN /\ gates \in Seq(Gates)
  BY DEF TypesInv
<1>2. ASSUME NEW v \in Views
      PROVE  /\ Distinct(GatesOf(v))
             /\ v.throttled \in BOOLEAN
             /\ Tokens(GatesOf(v)) =
                  Tokens(v.permissions) \cup (IF v.throttled THEN {"throttle"} ELSE {})
             /\ Tokens(v.permissions) \subseteq {"scope", "ip", "rate"}
  <2>1. v \in View /\ Distinct(v.permissions)
    BY AccessAssumption DEF OnceEach
  <2> QED
    BY <2>1, GatesOfAView DEF View
<1>3. stage # "idle" => request.view \in Views
  BY DEF TypesInv, RequestOK, RequestType
<1>4. CASE UNCHANGED vars
  <2>1. UNCHANGED <<request, stage, auth, gates, hits, status>> /\ UNCHANGED <<key, tenant>>
    BY <1>4 DEF vars, requestVars
  <2>2. CountedOnce'
    BY <2>1, Steady DEF CountsInv, CountedOnce
  <2>3. Permissions' = Permissions /\ Distinct(gates)' = Distinct(gates)
    BY <2>1 DEF Permissions, Distinct
  <2> QED
    BY <2>1, <2>2, <2>3 DEF CountsInv
<1>5. CASE Managing
  BY <1>5, ManagingIsIdle DEF CountsInv, CountedOnce
<1>6. CASE Receiving
  <2>1. PICK v \in Views, h \in Headers, a \in Sources : Receive(v, h, a)
    BY <1>6 DEF Receiving
  <2>2. stage = "idle" /\ UNCHANGED <<auth, hits>> /\ (stage' = "answered" => status' = 401)
    BY <2>1, ReceivingSteps
  <2>3. ~auth' /\ hits' = 0
    BY <2>2 DEF GatesInv
  <2> QED
    BY <2>2, <2>3 DEF CountsInv, CountedOnce
<1>7. CASE Authenticate
  <2>1. stage = "key" /\ UNCHANGED <<request, hits>> /\ ~auth /\ hits' = 0
    BY <1>7, AuthenticateSteps DEF GatesInv
  <2>2. CASE stage' = "answered"
    <3>1. auth' = auth /\ status' \in {401, 403}
      BY <1>7, <2>2, AuthenticateSteps
    <3> QED
      BY <2>1, <2>2, <3>1 DEF CountsInv, CountedOnce
  <2>3. CASE stage' # "answered"
    <3>1. stage' = "gates" /\ gates' = GatesOf(request.view)
      BY <1>7, <2>3, AuthenticateSteps
    <3>2. /\ Distinct(gates')
          /\ request.view.throttled \in BOOLEAN
          /\ Tokens(gates') =
               Tokens(Permissions) \cup (IF request.view.throttled THEN {"throttle"} ELSE {})
      BY <1>2, <1>3, <2>1, <3>1 DEF Permissions
    <3>3. ("rate" \in Tokens(Permissions) <=> ~request.view.throttled)
          => Tokens(gates') \cap {"rate", "throttle"} # {}
      BY <3>2
    <3>4. Permissions' = Permissions
      BY <2>1 DEF Permissions
    <3> QED
      BY <2>1, <2>3, <3>2, <3>3, <3>4 DEF CountsInv, CountedOnce
  <2> QED
    BY <2>2, <2>3
<1>8. CASE Passing
  <2>1. stage = "gates" /\ UNCHANGED <<key, tenant, request, auth>> /\ request.view \in Views
    BY <1>3, <1>8, PassingSteps
  <2>2. /\ Permissions' = Permissions
        /\ \A g : Requires(g)' <=> g \in Tokens(Permissions)
    BY <2>1, Steady, RequiringAGate DEF Permissions
  <2>3. /\ request.view.throttled \in BOOLEAN
        /\ Tokens(Permissions) \subseteq {"scope", "ip", "rate"}
    BY <1>2, <2>1 DEF Permissions
  <2>4. /\ ThrottleIsLast(gates)
        /\ Tokens(gates) \subseteq
             Tokens(Permissions) \cup (IF request.view.throttled THEN {"throttle"} ELSE {})
        /\ ~auth => hits = 0
    BY <2>1 DEF GatesInv
  <2>5. gates # <<>> =>
          /\ Head(gates) \in Gates /\ Tail(gates) \in Seq(Gates)
          /\ Tokens(gates) = {Head(gates)} \cup Tokens(Tail(gates))
          /\ Distinct(gates) => Distinct(Tail(gates)) /\ Head(gates) \notin Tokens(Tail(gates))
          /\ Head(gates) = "throttle" => Tail(gates) = <<>>
    BY <1>1, <2>4, PassingOne
  <2>6. Tokens(<<>>) = {}
    BY NoTokens
  <2>7. CountedOnce' <=>
          (stage' = "answered" =>
             /\ ~auth => hits' = 0
             /\ auth /\ status' \in {200, 429}
                  /\ ("rate" \in Tokens(Permissions) <=> ~request.view.throttled) => hits' = 1
             /\ status' = 403 /\ "rate" \notin Tokens(Permissions) => hits' = 0)
    <3>1. Requires("rate")' <=> "rate" \in Tokens(Permissions)
      BY <2>2
    <3>2. auth' = auth /\ request' = request
      BY <2>1
    <3> QED
      BY <3>1, <3>2 DEF CountedOnce
  <2>8. CASE ~auth
    <3>1. hits' = 0 /\ ~auth'
      BY <1>8, <2>1, <2>4, <2>8, PassingSteps
    <3>2. stage' = "answered" => status' \in {200, 401}
      BY <1>8, <2>1, <2>8, GateByGate
    <3> QED
      BY <2>1, <3>1, <3>2 DEF CountsInv, CountedOnce
  <2>9. CASE auth
    <3>1. /\ Distinct(gates)
          /\ hits # 0 /\ "rate" \notin Tokens(Permissions) => gates = <<>>
          /\ ("rate" \in Tokens(Permissions) <=> ~request.view.throttled) =>
               hits = IF Tokens(gates) \cap {"rate", "throttle"} = {} THEN 1 ELSE 0
      BY <2>1, <2>9 DEF CountsInv
    <3>2. CASE /\ gates # <<>> /\ stage' = stage /\ gates' = Tail(gates)
               /\ hits' = IF auth /\ Head(gates) \in {"rate", "throttle"} THEN hits + 1 ELSE hits
      <4>1. Distinct(gates')
        BY <2>5, <3>1, <3>2
      <4>2. hits' # 0 /\ "rate" \notin Tokens(Permissions) => gates' = <<>>
        BY <1>1, <2>3, <2>4, <2>5, <2>9, <3>1, <3>2
      <4>3. ("rate" \in Tokens(Permissions) <=> ~request.view.throttled) =>
              hits' = IF Tokens(gates') \cap {"rate", "throttle"} = {} THEN 1 ELSE 0
        <5> SUFFICES ASSUME ("rate" \in Tokens(Permissions) <=> ~request.view.throttled)
                     PROVE  hits' = IF Tokens(gates') \cap {"rate", "throttle"} = {}
                                    THEN 1 ELSE 0
          OBVIOUS
        <5>1. CASE Head(gates) \in {"rate", "throttle"}
          <6>1. hits = 0 /\ hits' = 1
            BY <1>1, <2>5, <2>9, <3>1, <3>2, <5>1
          <6>2. "rate" \notin Tokens(gates') /\ "throttle" \notin Tokens(gates')
            BY <2>3, <2>4, <2>5, <3>1, <3>2, <5>1
          <6> QED
            BY <6>1, <6>2
        <5>2. CASE Head(gates) \notin {"rate", "throttle"}
          <6>1. hits' = hits
            BY <3>2, <5>2
          <6>2. Tokens(gates) \cap {"rate", "throttle"} = Tokens(gates') \cap {"rate", "throttle"}
            BY <2>5, <3>2, <5>2
          <6> QED
            BY <3>1, <6>1, <6>2
        <5> QED
          BY <5>1, <5>2
      <4> QED
        BY <2>1, <2>2, <3>2, <4>1, <4>2, <4>3 DEF CountsInv, CountedOnce
    <3>3. CASE /\ gates # <<>> /\ stage' = "answered" /\ status' = 403 /\ hits' = hits
      BY <2>1, <2>2, <2>9, <3>1, <3>3 DEF CountsInv, CountedOnce
    <3>4. CASE /\ gates # <<>> /\ stage' = "answered" /\ status' = 429
               /\ hits' = hits + 1 /\ Head(gates) \in {"rate", "throttle"}
      <4>1. ("rate" \in Tokens(Permissions) <=> ~request.view.throttled) => hits' = 1
        BY <2>5, <3>1, <3>4
      <4>2. CountedOnce'
        BY <2>7, <2>9, <3>4, <4>1
      <4> QED
        BY <3>4, <4>2 DEF CountsInv
    <3>5. CASE gates = <<>> /\ stage' = "answered" /\ status' = 200 /\ hits' = hits
      <4>1. ("rate" \in Tokens(Permissions) <=> ~request.view.throttled) => hits' = 1
        BY <2>6, <3>1, <3>5
      <4>2. CountedOnce'
        BY <2>7, <2>9, <3>5, <4>1
      <4> QED
        BY <3>5, <4>2 DEF CountsInv
    <3> QED
      BY <1>8, <2>9, <3>2, <3>3, <3>4, <3>5, GateByGate
  <2> QED
    BY <2>8, <2>9
<1>9. CASE Forget
  BY <1>9 DEF Forget, CountsInv, CountedOnce
<1> QED
  BY <1>4, <1>5, <1>6, <1>7, <1>8, <1>9, NextByKind

\* With one of the throttle and WithinRateLimit in a view, a request with a key
\* counts once if it is let through or over the limit; with the throttle alone a
\* refused one does not count, and one without a key never does.
THEOREM RequestsCountOnce == OnceEach => (Spec => []CountedOnce)
<1> SUFFICES ASSUME OnceEach PROVE Spec => []CountedOnce
  OBVIOUS
<1>1. Init => CountsInv
  BY DEF Init, CountsInv, CountedOnce
<1>2. TypesInv /\ GatesInv /\ CountsInv /\ [Next]_vars => CountsInv'
  BY CountsStep
<1>3. CountsInv => CountedOnce
  BY DEF CountsInv
<1> QED
  BY <1>1, <1>2, <1>3, GatesHold, PTL DEF Spec

-----------------------------------------------------------------------------
(* AnswersByTheRules *)

\* A request that authenticates presents a key; one at the gates without it did
\* not try to, and one with it is its holder's, who is allowed all that was asked
\* for so far.
RulesInv ==
    /\ stage = "key" => \E t : PlainText(t) /\ request.header = <<ApiKey, t>>
    /\ stage = "gates" /\ ~auth => ~HoldsKey /\ DRFParse(request.header) = "anonymous"
    /\ stage = "gates" /\ auth =>
         /\ HoldsKey /\ PolicyAllows
         /\ Requires("scope") /\ ~ScopesGranted => "scope" \in Tokens(gates)
    /\ AnswersByTheRules

LEMMA RulesAtTheDoor ==
    ASSUME OrdinaryPrefixes, TypesInv, GatesInv, Receiving
    PROVE  RulesInv'
<1>1. PICK v \in Views, h \in Headers, a \in Sources : Receive(v, h, a)
  BY DEF Receiving
<1>2. key # NULL /\ v.framework \in {"drf", "ninja"}
  BY AccessAssumption DEF Receiving, View
<1>3. /\ stage = "idle" /\ key' = key /\ ~auth'
      /\ request'.header = h /\ request'.view = v
  BY <1>1, ReceivingSteps DEF GatesInv
<1>4. DRFParse(h) # "credentials" \/ NinjaParse(h) # "credentials" => ~HoldsKey'
  <2> SUFFICES ASSUME DRFParse(h) # "credentials" \/ NinjaParse(h) # "credentials"
               PROVE  ~HoldsKey'
    OBVIOUS
  <2>1. \A e : h # Credentials(OnWire(key.row.raw, e))
    BY <1>2, NotHoldingAKey
  <2> QED
    BY <1>3, <2>1 DEF HoldsKey
<1>5. CASE stage' = "answered"
  <2>1. /\ status' = 401
        /\ IF v.framework = "drf" THEN DRFParse(h) = "refused" ELSE NinjaParse(h) = "refused"
    BY <1>1, <1>5, ReceivingSteps
  <2>2. ~HoldsKey'
    BY <1>4, <2>1
  <2>3. v.permissions # <<>> \/ DRFParse(h) # "anonymous"
    <3>1. v.framework = "ninja" => v.permissions = <<"scope">>
      BY AccessAssumption
    <3>2. <<"scope">> # <<>>
      OBVIOUS
    <3>3. CASE v.framework = "ninja"
      BY <3>1, <3>2, <3>3
    <3>4. CASE v.framework = "drf"
      BY <2>1, <3>4
    <3> QED
      BY <1>2, <3>3, <3>4
  <2>4. Due' = {401}
    BY <1>3, <2>2, <2>3 DEF Due
  <2> QED
    BY <1>5, <2>1, <2>4 DEF RulesInv, AnswersByTheRules
<1>6. CASE stage' = "gates"
  <2>1. DRFParse(h) = "anonymous"
    BY <1>1, <1>6, ReceivingSteps
  <2>2. ~HoldsKey'
    BY <1>4, <2>1
  <2> QED
    BY <1>3, <1>6, <2>1, <2>2 DEF RulesInv, AnswersByTheRules
<1>7. CASE stage' = "key"
  <2>1. DRFParse(h) = "credentials" \/ NinjaParse(h) = "credentials"
    BY <1>1, <1>7, ReceivingSteps
  <2>2. \E t \in Texts : PlainText(t) /\ h = <<ApiKey, t>>
    BY <1>2, <2>1, PlainHeaders, Parsing
  <2> QED
    BY <1>3, <1>7, <2>2 DEF RulesInv, AnswersByTheRules
<1> QED
  BY <1>1, <1>5, <1>6, <1>7, ReceivingSteps

LEMMA RulesOfTheKey ==
    ASSUME OrdinaryPrefixes, TypesInv, RulesInv, Authenticate
    PROVE  RulesInv'
<1>1. stage = "key" /\ UNCHANGED <<key, tenant, request>>
  BY AuthenticateSteps
<1>2. PICK t : PlainText(t) /\ request.header = <<ApiKey, t>>
  BY <1>1 DEF RulesInv
<1>3. key # NULL /\ request # NULL /\ request.view \in View
  BY <1>1, AccessAssumption DEF TypesInv, RequestOK, RequestType
<1>4. KeyVerified <=> HoldsKey
  BY <1>2, <1>3, OnlyHoldersAreVerified
<1>5. CASE KeyVerified /\ PolicyAllows
  <2>1. auth' = TRUE /\ stage' = "gates" /\ gates' = GatesOf(request.view)
    BY <1>5, AuthenticateSteps
  <2>2. HoldsKey' /\ PolicyAllows'
    BY <1>1, <1>4, <1>5, Steady
  <2>3. Requires("scope")' => "scope" \in Tokens(GatesOf(request.view))
    <3>1. Requires("scope")' <=> "scope" \in Tokens(request.view.permissions)
      BY <1>1, Steady, RequiringAGate
    <3> QED
      BY <1>3, <3>1, GatesOfAView
  <2> QED
    BY <2>1, <2>2, <2>3 DEF RulesInv, AnswersByTheRules
<1>6. CASE KeyVerified /\ ~PolicyAllows
  <2>1. stage' = "answered" /\ status' = 403
    BY <1>6, AuthenticateSteps
  <2>2. Due = {403}
    BY <1>3, <1>4, <1>6, WhatIsDue
  <2> QED
    BY <1>1, <2>1, <2>2, Steady DEF RulesInv, AnswersByTheRules
<1>7. CASE ~KeyVerified
  <2>1. stage' = "answered" /\ status' = 401
    BY <1>7, AuthenticateSteps
  <2>2. DRFParse(request.header) # "anonymous"
    BY <1>2, Parsing
  <2>3. Due = {401}
    BY <1>3, <1>4, <1>7, <2>2, WhatIsDue
  <2> QED
    BY <1>1, <2>1, <2>3, Steady DEF RulesInv, AnswersByTheRules
<1> QED
  BY <1>5, <1>6, <1>7

LEMMA RulesOfTheGates ==
    ASSUME TypesInv, GatesInv, RulesInv, Passing
    PROVE  RulesInv'
<1>1. /\ stage = "gates" /\ UNCHANGED <<key, tenant, request, auth>>
      /\ gates \in Seq(Gates) /\ auth \in BOOLEAN
      /\ key # NULL /\ request # NULL
  BY PassingSteps DEF TypesInv, RequestOK
<1>2. /\ HoldsKey' <=> HoldsKey
      /\ PolicyAllows' <=> PolicyAllows
      /\ ScopesGranted' <=> ScopesGranted
      /\ Requires("scope")' <=> Requires("scope")
      /\ Due' = Due
  BY <1>1, Steady
<1>3. /\ ~auth => ~HoldsKey /\ DRFParse(request.header) = "anonymous"
      /\ auth => /\ HoldsKey /\ PolicyAllows
                 /\ Requires("scope") /\ ~ScopesGranted => "scope" \in Tokens(gates)
  BY <1>1 DEF RulesInv
<1>4. /\ ThrottleIsLast(gates)
      /\ Tokens(gates) \subseteq
           Tokens(Permissions) \cup (IF request.view.throttled THEN {"throttle"} ELSE {})
      /\ ~auth /\ Permissions # <<>> => gates # <<>>
  BY <1>1 DEF GatesInv
<1>5. gates # <<>> =>
        /\ Tokens(gates) = {Head(gates)} \cup Tokens(Tail(gates))
        /\ Head(gates) = "throttle" => Tail(gates) = <<>>
  BY <1>1, <1>4, PassingOne
<1>6. gates # <<>> /\ Head(gates) # "throttle" => Head(gates) \in Tokens(Permissions)
  BY <1>4, <1>5
<1>7. \A g : Requires(g) <=> g \in Tokens(Permissions)
  BY RequiringAGate DEF Permissions
<1>8. /\ ~auth => Due = IF Permissions = <<>> THEN {200} ELSE {401}
      /\ auth => Due = IF Requires("scope") /\ ~ScopesGranted
                       THEN IF Requires("rate") THEN {403, 429} ELSE {403}
                       ELSE {200, 429}
  BY <1>1, <1>3, WhatIsDue DEF Permissions
<1>9. ASSUME stage' = "answered", status' \in Due
      PROVE  RulesInv'
  BY <1>2, <1>9 DEF RulesInv, AnswersByTheRules
<1>10. CASE /\ gates # <<>> /\ stage' = stage /\ gates' = Tail(gates)
            /\ Head(gates) = "scope" => ScopesGranted
  <2>1. auth /\ Requires("scope") /\ ~ScopesGranted => "scope" \in Tokens(Tail(gates))
    BY <1>3, <1>5, <1>10
  <2>2. DRFParse(request'.header) = DRFParse(request.header)
    BY <1>1
  <2> QED
    BY <1>1, <1>2, <1>3, <1>10, <2>1, <2>2 DEF RulesInv, AnswersByTheRules
<1>11. CASE /\ gates # <<>> /\ stage' = "answered" /\ status' = 401
            /\ ~auth /\ Head(gates) \in {"scope", "ip", "rate"}
  <2>1. Permissions # <<>>
    BY <1>6, <1>11, NoTokens
  <2> QED
    BY <1>8, <1>9, <1>11, <2>1
<1>12. CASE /\ gates # <<>> /\ stage' = "answered" /\ status' = 403 /\ auth
            /\ \/ Head(gates) = "scope" /\ ~ScopesGranted
               \/ Head(gates) = "ip" /\ ~AddressAllowed(key.row.allowed_ips, request.source)
  <2>1. Head(gates) = "scope" /\ ~ScopesGranted
    BY <1>3, <1>12 DEF PolicyAllows
  <2>2. Requires("scope")
    BY <1>6, <1>7, <1>12, <2>1
  <2> QED
    BY <1>8, <1>9, <1>12, <2>1, <2>2
<1>13. CASE /\ gates # <<>> /\ stage' = "answered" /\ status' = 429 /\ auth
            /\ Head(gates) \in {"rate", "throttle"}
  <2>1. CASE Head(gates) = "rate"
    <3>1. Requires("rate")
      BY <1>6, <1>7, <1>13, <2>1
    <3> QED
      BY <1>8, <1>9, <1>13, <3>1
  <2>2. CASE Head(gates) = "throttle"
    <3>1. "scope" \notin Tokens(gates)
      BY <1>5, <1>13, <2>2, NoTokens
    <3> QED
      BY <1>3, <1>8, <1>9, <1>13, <3>1
  <2> QED
    BY <1>13, <2>1, <2>2
<1>14. CASE gates = <<>> /\ stage' = "answered" /\ status' = 200
  <2>1. "scope" \notin Tokens(gates)
    BY <1>14, NoTokens
  <2>2. ~auth => Permissions = <<>>
    BY <1>4, <1>14
  <2> QED
    BY <1>3, <1>8, <1>9, <1>14, <2>1, <2>2
<1> QED
  BY <1>10, <1>11, <1>12, <1>13, <1>14, GateByGate

LEMMA RulesStep ==
    ASSUME OrdinaryPrefixes, TypesInv, GatesInv, RulesInv, [Next]_vars
    PROVE  RulesInv'
<1>1. CASE UNCHANGED vars
  <2>1. UNCHANGED <<request, stage, auth, gates, status>> /\ UNCHANGED <<key, tenant>>
    BY <1>1 DEF vars, requestVars
  <2>2. Tokens(gates)' = Tokens(gates) /\ DRFParse(request'.header) = DRFParse(request.header)
    BY <2>1 DEF Tokens
  <2> QED
    BY <2>1, <2>2, Steady DEF RulesInv, AnswersByTheRules
<1>2. CASE Managing
  BY <1>2, ManagingIsIdle DEF RulesInv, AnswersByTheRules
<1>3. CASE Receiving
  BY <1>3, RulesAtTheDoor
<1>4. CASE Authenticate
  BY <1>4, RulesOfTheKey
<1>5. CASE Passing
  BY <1>5, RulesOfTheGates
<1>6. CASE Forget
  BY <1>6 DEF Forget, RulesInv, AnswersByTheRules
<1> QED
  BY <1>1, <1>2, <1>3, <1>4, <1>5, <1>6, NextByKind

\* If keys are generated with ordinary prefixes, every answer is the documented
\* one: for every view, header, key, allowlist and set of required scopes, after
\* any sequence of edits, rotations and revocations.
THEOREM AnswersAreDue == OrdinaryPrefixes => (Spec => []AnswersByTheRules)
<1> SUFFICES ASSUME OrdinaryPrefixes PROVE Spec => []AnswersByTheRules
  OBVIOUS
<1>1. Init => RulesInv
  BY DEF Init, RulesInv, AnswersByTheRules
<1>2. TypesInv /\ GatesInv /\ RulesInv /\ [Next]_vars => RulesInv'
  BY RulesStep
<1>3. RulesInv => AnswersByTheRules
  BY DEF RulesInv
<1> QED
  BY <1>1, <1>2, <1>3, GatesHold, PTL DEF Spec
=============================================================================
