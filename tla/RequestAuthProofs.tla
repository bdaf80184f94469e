-------------------------- MODULE RequestAuthProofs --------------------------
(***************************************************************************)
(* The theorems about RequestAuth, for any sets of clients and keys and    *)
(* any operations of KeyStore between the steps of a request.              *)
(***************************************************************************)
EXTENDS RequestAuth, KeyRowProofs

\* The clock only shows natural numbers.
LEMMA ClockIsNat ==
    ASSUME TypeOK
    PROVE  now \in Nat /\ now \in Instant
BY RequestAssumption DEF TypeOK, Instant

\* Writing one row of the right type keeps the table's type.
LEMMA WriteType ==
    ASSUME TypeOK, NEW k \in Keys, NEW row \in Row, Write(k, row)
    PROVE  /\ now' = now
           /\ rows' \in [Keys -> Row \cup {NULL}]
           /\ restored' \subseteq Keys
BY DEF TypeOK, Write

-----------------------------------------------------------------------------
(* Types *)

\* KeyStore's operations, as RequestAuth calls them, keep the table's type and
\* leave the requests alone.
LEMMA AdministerType ==
    ASSUME TypeOK, Administer
    PROVE  /\ now' = now
           /\ rows' \in [Keys -> Row \cup {NULL}]
           /\ restored' \subseteq Keys
           /\ minted' \subseteq Keys
           /\ used' = used
           /\ UNCHANGED requestVars
<1> USE RowAssumption, ClockIsNat
<1> UNCHANGED requestVars
  BY DEF Administer
<1>1. ASSUME NEW k \in Keys, NEW e \in Lifespans, Issue(k, e)
      PROVE  /\ now' = now
             /\ rows' \in [Keys -> Row \cup {NULL}]
             /\ restored' \subseteq Keys
             /\ minted' \subseteq Keys
             /\ used' = used
  <2>1. NewRow(TRUE, e, NULL) \in Row
    BY NewRowType DEF Lifespans, Instant
  <2>2. Write(k, NewRow(TRUE, e, NULL))
    BY <1>1 DEF Issue, Store!Create, Store!Write, Store!NewRow, Write, NewRow,
                Store!Restores, Restores, Store!IsValid, IsValid, Store!IsLive, IsLive,
                Store!Exists, Exists, Store!IsExpired, IsExpired
  <2> QED
    BY <1>1, <2>1, <2>2, WriteType DEF Issue, TypeOK
<1>2. ASSUME NEW k \in Keys, NEW n \in Keys \ {k}, NEW g \in Graces \cup {NULL},
             Rotated(k, n, g)
      PROVE  /\ now' = now
             /\ rows' \in [Keys -> Row \cup {NULL}]
             /\ restored' \subseteq Keys
             /\ minted' \subseteq Keys
             /\ used' = used
  <2>1. rows[k] \in Row /\ g \in (Nat \ {0}) \cup {NULL}
    BY <1>2 DEF Rotated, Store!Rotate, Store!Exists, TypeOK
  <2>2. Retired(rows[k], now, g) \in Row
    BY <2>1, RetiredType
  <2>3. PICK e \in {rows[k].expires_at} \cup Lifespans :
          rows' = [rows EXCEPT ![k] = Retired(@, now, g), ![n] = NewRow(TRUE, e, k)]
    BY <1>2 DEF Rotated, Store!Rotate, Store!Retired, Retired, Store!Revoked, Revoked,
                Store!NewRow, NewRow, Store!Lifespans, Lifespans
  <2>4. NewRow(TRUE, e, k) \in Row
    BY <2>1, NewRowType DEF Row, Lifespans, Instant
  <2>5. rows' \in [Keys -> Row \cup {NULL}]
    BY <2>2, <2>3, <2>4 DEF TypeOK
  <2> QED
    BY <1>2, <2>5 DEF Rotated, Store!Rotate, TypeOK
<1>3. ASSUME NEW k \in Keys, Store!Revoke(k, now, ""), UNCHANGED <<minted, used>>
      PROVE  /\ now' = now
             /\ rows' \in [Keys -> Row \cup {NULL}]
             /\ restored' \subseteq Keys
             /\ minted' \subseteq Keys
             /\ used' = used
  <2>1. Revoked(rows[k], now, "") \in Row
    BY <1>3, RevokedType DEF Store!Revoke, Store!Exists, TypeOK, Reasons
  <2>2. Write(k, Revoked(rows[k], now, ""))
    BY <1>3 DEF Store!Revoke, Store!Write, Store!Revoked, Write, Revoked,
                Store!Restores, Restores, Store!IsValid, IsValid, Store!IsLive, IsLive,
                Store!Exists, Exists, Store!IsExpired, IsExpired
  <2> QED
    BY <1>3, <2>1, <2>2, WriteType DEF TypeOK
<1>4. ASSUME NEW k \in Keys, Store!Reactivate(k), UNCHANGED <<minted, used>>
      PROVE  /\ now' = now
             /\ rows' \in [Keys -> Row \cup {NULL}]
             /\ restored' \subseteq Keys
             /\ minted' \subseteq Keys
             /\ used' = used
  <2>1. Reactivated(rows[k]) \in Row
    BY <1>4, ReactivatedType DEF Store!Reactivate, Store!Exists, TypeOK
  <2>2. Write(k, Reactivated(rows[k]))
    BY <1>4 DEF Store!Reactivate, Store!Write, Store!Reactivated, Write, Reactivated,
                Store!Restores, Restores, Store!IsValid, IsValid, Store!IsLive, IsLive,
                Store!Exists, Exists, Store!IsExpired, IsExpired
  <2> QED
    BY <1>4, <2>1, <2>2, WriteType DEF TypeOK
<1>5. ASSUME NEW k \in Keys, NEW e \in Lifespans, Reschedule(k, e),
             UNCHANGED <<minted, used>>
      PROVE  /\ now' = now
             /\ rows' \in [Keys -> Row \cup {NULL}]
             /\ restored' \subseteq Keys
             /\ minted' \subseteq Keys
             /\ used' = used
  <2>1. [rows[k] EXCEPT !.expires_at = e] \in Row
    BY <1>5 DEF Reschedule, Exists, TypeOK, Row, Lifespans, Instant
  <2> QED
    BY <1>5, <2>1, WriteType DEF Reschedule, TypeOK
<1>6. ASSUME NEW k \in Keys, DeleteRow(k), UNCHANGED <<minted, used>>
      PROVE  /\ now' = now
             /\ rows' \in [Keys -> Row \cup {NULL}]
             /\ restored' \subseteq Keys
             /\ minted' \subseteq Keys
             /\ used' = used
  BY <1>6 DEF DeleteRow, Forget, Exists, TypeOK, Row
<1>7. PICK k \in Keys :
         \/ \E e \in Lifespans : Issue(k, e)
         \/ \E n \in Keys \ {k}, g \in Graces \cup {NULL} : Rotated(k, n, g)
         \/ Store!Revoke(k, now, "") /\ UNCHANGED <<minted, used>>
         \/ Store!Reactivate(k) /\ UNCHANGED <<minted, used>>
         \/ \E e \in Lifespans : Reschedule(k, e) /\ UNCHANGED <<minted, used>>
         \/ DeleteRow(k) /\ UNCHANGED <<minted, used>>
  BY DEF Administer
<1>8. CASE \E e \in Lifespans : Issue(k, e)
  BY <1>1, <1>8
<1>9. CASE \E n \in Keys \ {k}, g \in Graces \cup {NULL} : Rotated(k, n, g)
  BY <1>2, <1>9
<1>10. CASE Store!Revoke(k, now, "") /\ UNCHANGED <<minted, used>>
  BY <1>3, <1>10
<1>11. CASE Store!Reactivate(k) /\ UNCHANGED <<minted, used>>
  BY <1>4, <1>11
<1>12. CASE \E e \in Lifespans : Reschedule(k, e) /\ UNCHANGED <<minted, used>>
  BY <1>5, <1>12
<1>13. CASE DeleteRow(k) /\ UNCHANGED <<minted, used>>
  BY <1>6, <1>13
<1> QED
  BY <1>7, <1>8, <1>9, <1>10, <1>11, <1>12, <1>13

\* What the adapters answer is one of the answers.
LEMMA RefusalType ==
    ASSUME NEW adapter, NEW reason \in Rejections
    PROVE  /\ Refusal(adapter, reason) \in Reply
           /\ reason \notin PolicyReasons => Refusal(adapter, reason).status = 401
<1>1. ClientMessage(reason) \in Messages
  BY DEF ClientMessage, Messages, Rejections
<1>2. CASE reason \in PolicyReasons
  BY <1>1, <1>2 DEF Refusal, Reply
<1>3. CASE reason \notin PolicyReasons
  <2>1. PICK m \in Messages : Refusal(adapter, reason) = [status |-> 401, message |-> m]
    BY <1>1, <1>3 DEF Refusal, Messages
  <2> QED
    BY <1>3, <2>1 DEF Reply
<1> QED
  BY <1>2, <1>3

\* A refusal ends the request with an answer of the right type.
LEMMA RejectType ==
    ASSUME TypeOK, NEW c \in Clients, NEW reason \in Rejections, Reject(c, reason)
    PROVE  /\ reply' \in [Clients -> Reply \cup {NULL}]
           /\ reply'[c] \in Reply
           /\ pc' = [pc EXCEPT ![c] = "answered"]
           /\ seen' = [seen EXCEPT ![c] = NULL]
           /\ \A x \in Clients \ {c} : reply'[x] = reply[x]
           /\ reason \notin PolicyReasons => reply'[c].status = 401
<1>1. PICK adapter \in {"drf", "ninja"} : Answer(c, Refusal(adapter, reason))
  BY DEF Reject
<1> QED
  BY <1>1, RefusalType DEF TypeOK, Answer

\* An authenticated request ends with an answer of the right type.
LEMMA AcceptType ==
    ASSUME TypeOK, NEW c \in Clients, Accept(c)
    PROVE  /\ reply' \in [Clients -> Reply \cup {NULL}]
           /\ reply'[c] \in Reply
           /\ pc' = [pc EXCEPT ![c] = "answered"]
           /\ seen' = [seen EXCEPT ![c] = NULL]
           /\ \A x \in Clients \ {c} : reply'[x] = reply[x]
<1>1. PICK r \in Reply : Answer(c, r)
  BY DEF Accept, Reply, Messages
<1> QED
  BY <1>1 DEF TypeOK, Answer

\* What a step of one client's request does to the types of the state.
LEMMA ServeType ==
    ASSUME TypeOK, NEW c \in Clients, Serve(c)
    PROVE  /\ now' = now /\ rows' = rows /\ restored' = restored /\ minted' = minted
           /\ used' \in [Keys -> (0 .. now) \cup {NULL}]
           /\ pc' \in [Clients -> Stages \cup {"idle", "answered"}]
           /\ cred' \in [Clients -> Credential \cup {NULL}]
           /\ seen' \in [Clients -> Seen \cup {NULL}]
           /\ stamp' \in [Clients -> (0 .. now) \cup {NULL}]
           /\ reply' \in [Clients -> Reply \cup {NULL}]
           /\ pc'[c] # "idle" => cred'[c] # NULL
           /\ pc'[c] \in {"expiry", "policy", "update"} => seen'[c] # NULL
           /\ pc'[c] = "update" => stamp'[c] # NULL
           /\ pc'[c] = "answered" => reply'[c] # NULL
           /\ \A x \in Clients \ {c} :
                /\ pc'[x] = pc[x]
                /\ cred'[x] = cred[x]
                /\ seen'[x] = seen[x]
                /\ stamp'[x] = stamp[x]
                /\ reply'[x] = reply[x]
<1> USE RowAssumption, RequestNull, ClockIsNat
<1> DEFINE Done == /\ pc' = [pc EXCEPT ![c] = "answered"]
                   /\ seen' = [seen EXCEPT ![c] = NULL]
<1> DEFINE Told == /\ reply' \in [Clients -> Reply \cup {NULL}]
                   /\ reply'[c] \in Reply
                   /\ \A x \in Clients \ {c} : reply'[x] = reply[x]
<1>1. ASSUME NEW reason \in Rejections, Reject(c, reason)
      PROVE  Done /\ Told
  BY <1>1, RejectType
<1>2. ASSUME Accept(c)
      PROVE  Done /\ Told
  BY <1>2, AcceptType
<1>3. /\ PolicyReasons \subseteq Rejections
      /\ {"malformed", "unknown_key", "bad_secret", "inactive", "expired"} \subseteq Rejections
  BY DEF Rejections
<1> HIDE DEF Told
<1>4. CASE \E k \in Keys, right, shaped \in BOOLEAN : Present(c, k, right, shaped)
  <2>1. PICK k \in Keys, right \in BOOLEAN, shaped \in BOOLEAN : Present(c, k, right, shaped)
    BY <1>4
  <2>2. [key |-> k, right |-> right, shaped |-> shaped] \in Credential
    BY DEF Credential
  <2>3. CASE shaped
    BY <2>1, <2>2, <2>3 DEF Present, Table, TypeOK, Stages
  <2>4. CASE ~shaped
    <3>1. Done /\ Told
      BY <1>1, <1>3, <2>1, <2>4 DEF Present
    <3> QED
      BY <2>1, <2>2, <3>1 DEF Present, Table, TypeOK, Stages, Told
  <2> QED
    BY <2>3, <2>4
<1>5. CASE Lookup(c)
  <2> DEFINE k == cred[c].key
             Found == /\ Exists(k)
                      /\ pc' = [pc EXCEPT ![c] = "expiry"]
                      /\ seen' = [seen EXCEPT ![c] = [row |-> rows[k], used |-> used[k]]]
                      /\ UNCHANGED reply
  <2>1. \/ Done /\ Told
        \/ Found
    <3>1. \/ \E reason \in Rejections : Reject(c, reason)
          \/ Found
      BY <1>3, <1>5 DEF Lookup
    <3> QED
      BY <1>1, <3>1
  <2>2. k \in Keys /\ cred[c] # NULL
    BY <1>5 DEF Lookup, TypeOK, Credential
  <2>3. Exists(k) => [row |-> rows[k], used |-> used[k]] \in Seen
    BY <2>2 DEF Exists, Seen, Instant, TypeOK
  <2>4. UNCHANGED <<now, rows, restored, minted, used, cred, stamp>>
    BY <1>5 DEF Lookup, Table
  <2>5. CASE Done /\ Told
    BY <2>2, <2>4, <2>5 DEF TypeOK, Told
  <2>6. CASE Found
    BY <2>2, <2>3, <2>4, <2>6 DEF TypeOK, Stages
  <2> QED
    BY <2>1, <2>5, <2>6
<1>6. CASE CheckExpiry(c)
  <2>1. \/ Done /\ Told
        \/ pc' = [pc EXCEPT ![c] = "policy"] /\ UNCHANGED <<reply, seen>>
    <3>1. \/ \E reason \in Rejections : Reject(c, reason)
          \/ pc' = [pc EXCEPT ![c] = "policy"] /\ UNCHANGED <<reply, seen>>
      BY <1>3, <1>6 DEF CheckExpiry
    <3> QED
      BY <1>1, <3>1
  <2>2. cred[c] # NULL /\ seen[c] # NULL
    BY <1>6 DEF CheckExpiry, TypeOK
  <2> QED
    BY <1>6, <2>1, <2>2 DEF CheckExpiry, Table, TypeOK, Stages, Told
<1>7. CASE RejectByPolicy(c)
  <2>1. Done /\ Told
    BY <1>1, <1>3, <1>7 DEF RejectByPolicy
  <2> QED
    BY <1>7, <2>1 DEF RejectByPolicy, Table, TypeOK, Stages, Told
<1>8. CASE RecordUsage(c)
  <2>1. \/ Done /\ Told
        \/ pc' = [pc EXCEPT ![c] = "update"] /\ UNCHANGED <<reply, seen>>
    <3>1. Accept(c) \/ (pc' = [pc EXCEPT ![c] = "update"] /\ UNCHANGED <<reply, seen>>)
      BY <1>8 DEF RecordUsage
    <3> QED
      BY <1>2, <3>1
  <2>2. stamp' = [stamp EXCEPT ![c] = now] /\ now \in 0 .. now /\ now # NULL
    BY <1>8 DEF RecordUsage
  <2>3. cred[c] # NULL /\ seen[c] # NULL
    BY <1>8 DEF RecordUsage, TypeOK
  <2> QED
    BY <1>8, <2>1, <2>2, <2>3 DEF RecordUsage, Table, TypeOK, Stages, Told
<1>9. CASE UpdateUsage(c)
  <2>1. Done /\ Told
    BY <1>2, <1>9 DEF UpdateUsage
  <2>2. used' \in [Keys -> (0 .. now) \cup {NULL}]
    BY <1>9 DEF UpdateUsage, TypeOK
  <2> QED
    BY <1>9, <2>1, <2>2 DEF UpdateUsage, TypeOK, Stages, Told
<1> QED
  BY <1>4, <1>5, <1>6, <1>7, <1>8, <1>9 DEF Serve

\* Every step keeps every variable's type.
LEMMA TypeStep ==
    ASSUME TypeOK, [Next]_vars
    PROVE  TypeOK'
<1> USE RowAssumption, RequestAssumption, RequestNull
<1>1. ASSUME Watch
      PROVE  alive' \in [Clients -> BOOLEAN]
  BY <1>1 DEF Watch, TypeOK, IsLive
<1>2. CASE UNCHANGED vars
  BY <1>2 DEF vars, requestVars, TypeOK
<1>3. CASE Tick /\ Watch
  <2>1. /\ now' \in 0 .. MaxTime
        /\ 0 .. now \subseteq 0 .. now'
    BY <1>3 DEF Tick, Elapse, TypeOK
  <2>2. UNCHANGED <<rows, restored, minted, used, pc, cred, seen, stamp, reply>>
    BY <1>3 DEF Tick, Elapse, requestVars
  <2>3. /\ used' \in [Keys -> (0 .. now') \cup {NULL}]
        /\ stamp' \in [Clients -> (0 .. now') \cup {NULL}]
    BY <2>1, <2>2 DEF TypeOK
  <2> QED
    BY <1>1, <1>3, <2>1, <2>2, <2>3 DEF TypeOK
<1>4. CASE Administer /\ Watch
  <2>1. /\ now' = now
        /\ rows' \in [Keys -> Row \cup {NULL}]
        /\ restored' \subseteq Keys
        /\ minted' \subseteq Keys
        /\ used' = used
        /\ UNCHANGED <<pc, cred, seen, stamp, reply>>
    BY <1>4, AdministerType DEF requestVars
  <2> QED
    BY <1>1, <1>4, <2>1 DEF TypeOK
<1>5. ASSUME NEW c \in Clients, Serve(c), Watch
      PROVE  TypeOK'
  <2>1. /\ now' = now /\ rows' = rows /\ restored' = restored /\ minted' = minted
        /\ used' \in [Keys -> (0 .. now) \cup {NULL}]
        /\ pc' \in [Clients -> Stages \cup {"idle", "answered"}]
        /\ cred' \in [Clients -> Credential \cup {NULL}]
        /\ seen' \in [Clients -> Seen \cup {NULL}]
        /\ stamp' \in [Clients -> (0 .. now) \cup {NULL}]
        /\ reply' \in [Clients -> Reply \cup {NULL}]
    BY <1>5, ServeType
  <2>2. ASSUME NEW x \in Clients
        PROVE  /\ pc'[x] # "idle" => cred'[x] # NULL
               /\ pc'[x] \in {"expiry", "policy", "update"} => seen'[x] # NULL
               /\ pc'[x] = "update" => stamp'[x] # NULL
               /\ pc'[x] = "answered" => reply'[x] # NULL
    <3>1. CASE x = c
      BY <1>5, <3>1, ServeType
    <3>2. CASE x # c
      <4>1. /\ pc'[x] = pc[x] /\ cred'[x] = cred[x] /\ seen'[x] = seen[x]
            /\ stamp'[x] = stamp[x] /\ reply'[x] = reply[x]
        BY <1>5, <3>2, ServeType
      <4> QED
        BY <4>1 DEF TypeOK
    <3> QED
      BY <3>1, <3>2
  <2> QED
    BY <1>1, <1>5, <2>1, <2>2 DEF TypeOK
<1> QED
  BY <1>2, <1>3, <1>4, <1>5 DEF Next

\* The initial state has the type.
LEMMA TypeInit == Init => TypeOK
BY RequestAssumption DEF Init, TableInit, TypeOK

\* Every variable keeps its type, for any sets of clients and keys and any
\* instants: the registers of authenticate_key() are filled when they are read,
\* and last_used_at is never ahead of the clock.
THEOREM RequestTypes == Spec => []TypeOK
<1>1. TypeOK /\ [Next]_vars => TypeOK'
  BY TypeStep
<1> QED
  BY TypeInit, <1>1, PTL DEF Spec

-----------------------------------------------------------------------------
(* What the checks establish *)

\* The history of one request: it starts with the state that follows
\* Present(), only grows until the answer, and stays as it is afterwards.
LEMMA AliveStays ==
    ASSUME TypeOK, Watch, NEW c \in Clients
    PROVE  /\ pc'[c] \notin Stages => alive'[c] = alive[c]
           /\ pc'[c] \in Stages /\ pc[c] \in Stages /\ alive[c] => alive'[c]
           /\ pc'[c] \in Stages /\ IsLive(cred[c].key)' => alive'[c]
BY DEF Watch, TypeOK

\* The three invariants and ChecksHold, about one client.
Sound(c) ==
    /\ pc[c] \in {"expiry", "policy", "update"} => cred[c].right
    /\ pc[c] = "expiry" /\ ~IsExpired(seen[c].row, now) => alive[c]
    /\ pc[c] \in {"policy", "update"} => alive[c]
    /\ pc[c] = "answered" /\ reply[c].status # 401 => cred[c].right /\ alive[c]
    /\ pc[c] = "answered" /\ ~cred[c].right =>
         reply[c] \in {[status |-> 401, message |-> "Invalid API key."],
                       [status |-> 401, message |-> "Unauthorized"]}

\* A step that is not the client's own, and moves no clock back, leaves what
\* its request has established standing.
LEMMA OthersLeaveItSound ==
    ASSUME TypeOK, TypeOK', Watch, NEW c \in Clients, Sound(c),
           now' >= now,
           pc'[c] = pc[c], cred'[c] = cred[c], seen'[c] = seen[c], reply'[c] = reply[c]
    PROVE  Sound(c)'
<1>1. pc[c] = "expiry" /\ ~IsExpired(seen[c].row, now)' => ~IsExpired(seen[c].row, now)
  <2> SUFFICES ASSUME pc[c] = "expiry", ~IsExpired(seen[c].row, now)'
               PROVE  ~IsExpired(seen[c].row, now)
    OBVIOUS
  <2>1. seen[c].row.expires_at \in Nat \cup {NULL}
    <3>1. seen[c] \in Seen
      BY DEF TypeOK
    <3> QED
      BY <3>1 DEF Seen, Row, Instant
  <2>2. now \in Nat /\ now' \in Nat
    BY RequestAssumption DEF TypeOK
  <2> QED
    BY <2>1, <2>2, RowAssumption DEF IsExpired
<1>2. /\ pc'[c] \notin Stages => alive'[c] = alive[c]
      /\ pc'[c] \in Stages /\ pc[c] \in Stages /\ alive[c] => alive'[c]
  BY AliveStays
<1>3. /\ pc[c] = "expiry" /\ ~IsExpired(seen[c].row, now)' => alive'[c]
      /\ pc[c] \in {"policy", "update"} => alive'[c]
  BY <1>1, <1>2 DEF Sound, Stages
<1>4. pc[c] = "answered" => alive'[c] = alive[c]
  BY <1>2 DEF Stages
<1>5. pc[c] = "answered" /\ ~cred[c].right =>
         reply'[c] \in {[status |-> 401, message |-> "Invalid API key."],
                        [status |-> 401, message |-> "Unauthorized"]}
  BY DEF Sound
<1>6. /\ pc[c] \in {"expiry", "policy", "update"} => cred[c].right
      /\ pc[c] = "answered" /\ reply[c].status # 401 => cred[c].right /\ alive[c]
  BY DEF Sound
<1> QED
  <2>1. pc'[c] \in {"expiry", "policy", "update"} => cred'[c].right
    BY <1>6
  <2>2. pc'[c] = "expiry" /\ ~IsExpired(seen[c].row, now)' => alive'[c]
    BY <1>3
  <2>3. pc'[c] \in {"policy", "update"} => alive'[c]
    BY <1>3
  <2>4. pc'[c] = "answered" /\ reply'[c].status # 401 => cred'[c].right /\ alive'[c]
    BY <1>4, <1>6
  <2>5. pc'[c] = "answered" /\ ~cred'[c].right =>
           reply'[c] \in {[status |-> 401, message |-> "Invalid API key."],
                          [status |-> 401, message |-> "Unauthorized"]}
    BY <1>5
  <2> QED
    BY <2>1, <2>2, <2>3, <2>4, <2>5 DEF Sound

\* What the refusals of each stage are: none but a policy's is a 403, and the
\* three that a wrong secret can meet all say the same.
LEMMA RejectAnswers ==
    ASSUME TypeOK, NEW c \in Clients, NEW reason \in Rejections, Reject(c, reason)
    PROVE  /\ pc'[c] = "answered"
           /\ reason \notin PolicyReasons => reply'[c].status = 401
           /\ reason \in {"malformed", "unknown_key", "bad_secret"} =>
                reply'[c] \in {[status |-> 401, message |-> "Invalid API key."],
                               [status |-> 401, message |-> "Unauthorized"]}
<1>1. pc'[c] = "answered" /\ (reason \notin PolicyReasons => reply'[c].status = 401)
  BY RejectType DEF TypeOK
<1>2. ASSUME reason \in {"malformed", "unknown_key", "bad_secret"}
      PROVE  reply'[c] \in {[status |-> 401, message |-> "Invalid API key."],
                            [status |-> 401, message |-> "Unauthorized"]}
  <2>1. PICK adapter \in {"drf", "ninja"} : Answer(c, Refusal(adapter, reason))
    BY DEF Reject
  <2>2. reply'[c] = Refusal(adapter, reason)
    BY <2>1 DEF Answer, TypeOK
  <2>3. /\ reason \notin PolicyReasons
        /\ ClientMessage(reason) = "Invalid API key."
    BY <1>2 DEF PolicyReasons, ClientMessage
  <2>4. CASE adapter = "drf"
    BY <2>2, <2>3, <2>4 DEF Refusal
  <2>5. CASE adapter = "ninja"
    BY <2>2, <2>3, <2>5 DEF Refusal
  <2> QED
    BY <2>4, <2>5
<1> QED
  BY <1>1, <1>2

\* A client's own step keeps what its request has established, and adds what
\* the step has checked.
LEMMA ServingIsSound ==
    ASSUME TypeOK, Watch, NEW c \in Clients, Sound(c), Serve(c)
    PROVE  Sound(c)'
<1> USE RequestAssumption
<1>1. /\ pc'[c] \notin Stages => alive'[c] = alive[c]
      /\ pc'[c] \in Stages /\ pc[c] \in Stages /\ alive[c] => alive'[c]
      /\ pc'[c] \in Stages /\ IsLive(cred[c].key)' => alive'[c]
  BY AliveStays
<1>2. "malformed" \in Rejections /\ "unknown_key" \in Rejections /\ "bad_secret" \in Rejections
      /\ "inactive" \in Rejections /\ "expired" \in Rejections
  BY DEF Rejections
<1>3. "malformed" \notin PolicyReasons /\ "unknown_key" \notin PolicyReasons
      /\ "bad_secret" \notin PolicyReasons /\ "inactive" \notin PolicyReasons
      /\ "expired" \notin PolicyReasons
  BY DEF PolicyReasons
<1>4. ASSUME pc'[c] = "answered", cred'[c].right, alive'[c]
      PROVE  Sound(c)'
  BY <1>4 DEF Sound
<1>5. ASSUME pc'[c] = "answered", cred'[c].right, reply'[c].status = 401
      PROVE  Sound(c)'
  BY <1>5 DEF Sound
<1>6. ASSUME pc'[c] = "answered", reply'[c].status = 401,
             reply'[c] \in {[status |-> 401, message |-> "Invalid API key."],
                            [status |-> 401, message |-> "Unauthorized"]}
      PROVE  Sound(c)'
  BY <1>6 DEF Sound
<1>7. ASSUME NEW reason \in {"malformed", "unknown_key", "bad_secret"}, Reject(c, reason)
       PROVE  Sound(c)'
  <2>1. reason \in Rejections /\ reason \notin PolicyReasons
    BY <1>2, <1>3
  <2>2. pc'[c] = "answered"
    BY <1>7, <2>1, RejectAnswers
  <2>3. reply'[c] \in {[status |-> 401, message |-> "Invalid API key."],
                       [status |-> 401, message |-> "Unauthorized"]}
    BY <1>7, <2>1, RejectAnswers
  <2>4. reply'[c].status = 401
    BY <1>7, <2>1, RejectType
  <2> QED
    BY <1>6, <2>2, <2>3, <2>4
<1>8. ASSUME NEW reason \in {"inactive", "expired"}, Reject(c, reason), cred'[c].right
       PROVE  Sound(c)'
  <2>1. reason \in Rejections /\ reason \notin PolicyReasons
    BY <1>2, <1>3
  <2>2. pc'[c] = "answered" /\ reply'[c].status = 401
    BY <1>8, <2>1, RejectAnswers
  <2> QED
    BY <1>5, <1>8, <2>2
<1>9. CASE \E k \in Keys, right, shaped \in BOOLEAN : Present(c, k, right, shaped)
  <2>1. PICK k \in Keys, right \in BOOLEAN, shaped \in BOOLEAN : Present(c, k, right, shaped)
    BY <1>9
  <2>2. CASE shaped
    <3>1. pc'[c] = "lookup"
      BY <2>1, <2>2 DEF Present, TypeOK
    <3> QED
      BY <3>1 DEF Sound
  <2>3. CASE ~shaped
    <3>1. Reject(c, "malformed")
      BY <2>1, <2>3 DEF Present
    <3> QED
      BY <1>7, <3>1
  <2> QED
    BY <2>2, <2>3
<1>10. CASE Lookup(c)
  <2> DEFINE k == cred[c].key
  <2>1. pc[c] = "lookup" /\ now' = now /\ rows' = rows /\ cred' = cred
    BY <1>10 DEF Lookup, Table
  <2>2. CASE Reject(c, "unknown_key") \/ Reject(c, "bad_secret")
    BY <1>7, <2>2
  <2>3. CASE Exists(k) /\ cred[c].right /\ Reject(c, "inactive")
    BY <1>8, <2>1, <2>3
  <2>4. CASE /\ Exists(k) /\ cred[c].right /\ rows[k].is_active
             /\ pc' = [pc EXCEPT ![c] = "expiry"]
             /\ seen' = [seen EXCEPT ![c] = [row |-> rows[k], used |-> used[k]]]
    <3>1. pc'[c] = "expiry" /\ seen'[c].row = rows[k]
      BY <2>1, <2>4 DEF TypeOK
    <3>2. IsExpired(seen[c].row, now)' = IsExpired(rows[k], now)
      BY <2>1, <3>1 DEF IsExpired
    <3>3. ~IsExpired(rows[k], now) => IsLive(cred[c].key)'
      BY <2>1, <2>4 DEF IsLive, IsValid, IsExpired, Exists
    <3>4. ~IsExpired(seen[c].row, now)' => alive'[c]
      BY <1>1, <3>1, <3>2, <3>3 DEF Stages
    <3> QED
      BY <2>1, <2>4, <3>1, <3>4 DEF Sound
  <2> QED
    BY <1>10, <2>2, <2>3, <2>4 DEF Lookup
<1>11. CASE CheckExpiry(c)
  <2>1. pc[c] = "expiry" /\ cred[c].right /\ cred' = cred
    BY <1>11 DEF CheckExpiry, Sound
  <2>2. CASE Reject(c, "expired")
    BY <1>8, <2>1, <2>2
  <2>3. CASE ~IsExpired(seen[c].row, now) /\ pc' = [pc EXCEPT ![c] = "policy"]
    <3>1. pc'[c] = "policy" /\ alive[c]
      BY <2>1, <2>3 DEF Sound, TypeOK
    <3>2. alive'[c]
      BY <1>1, <2>1, <3>1 DEF Stages
    <3> QED
      BY <2>1, <3>1, <3>2 DEF Sound
  <2> QED
    BY <1>11, <2>2, <2>3 DEF CheckExpiry
<1>12. ASSUME pc[c] \in {"policy", "update"}, cred' = cred, pc'[c] \in {"update", "answered"}
       PROVE  Sound(c)'
  <2>1. cred'[c].right /\ alive[c]
    BY <1>12 DEF Sound
  <2>2. alive'[c]
    BY <1>1, <1>12, <2>1 DEF Stages
  <2> QED
    BY <1>12, <2>1, <2>2 DEF Sound
<1>13. ASSUME Accept(c)
       PROVE  pc'[c] = "answered"
  BY <1>13, AcceptType DEF TypeOK
<1>14. CASE RejectByPolicy(c)
  <2>1. PICK reason \in PolicyReasons : Reject(c, reason)
    BY <1>14 DEF RejectByPolicy
  <2>2. pc'[c] = "answered"
    BY <2>1, RejectAnswers DEF Rejections
  <2> QED
    BY <1>12, <1>14, <2>2 DEF RejectByPolicy
<1>15. CASE RecordUsage(c)
  <2>1. Accept(c) \/ pc' = [pc EXCEPT ![c] = "update"]
    BY <1>15 DEF RecordUsage
  <2>2. pc'[c] \in {"update", "answered"}
    BY <1>13, <2>1 DEF TypeOK
  <2> QED
    BY <1>12, <1>15, <2>2 DEF RecordUsage
<1>16. CASE UpdateUsage(c)
  <2>1. pc'[c] = "answered"
    BY <1>13, <1>16 DEF UpdateUsage
  <2> QED
    BY <1>12, <1>16, <2>1 DEF UpdateUsage
<1> QED
  BY <1>9, <1>10, <1>11, <1>14, <1>15, <1>16 DEF Serve

-----------------------------------------------------------------------------
(* The invariants *)

\* Types, and every client's request sound: the inductive invariant.
RequestInv == TypeOK /\ \A c \in Clients : Sound(c)

\* No request has established anything in the initial state.
LEMMA RequestInvInit == Init => RequestInv
<1>1. Init => \A c \in Clients : pc[c] = "idle"
  BY DEF Init
<1>2. Init => \A c \in Clients : Sound(c)
  BY <1>1 DEF Sound
<1> QED
  BY <1>2, TypeInit DEF RequestInv

\* Every step keeps every client's request sound.
LEMMA RequestInvStep ==
    ASSUME RequestInv, [Next]_vars
    PROVE  RequestInv'
<1> USE RequestAssumption
<1>1. TypeOK /\ TypeOK'
  BY TypeStep DEF RequestInv
<1> SUFFICES ASSUME NEW c \in Clients
             PROVE  Sound(c)'
  BY <1>1 DEF RequestInv
<1>2. Sound(c)
  BY DEF RequestInv
<1>3. now \in Nat /\ now' \in Nat
  BY <1>1 DEF TypeOK
<1>4. CASE UNCHANGED vars
  BY <1>2, <1>4 DEF vars, requestVars, Sound
<1>5. CASE Tick /\ Watch
  <2>1. now' >= now /\ UNCHANGED <<pc, cred, seen, reply>>
    BY <1>3, <1>5 DEF Tick, Elapse, requestVars
  <2> QED
    BY <1>1, <1>2, <1>5, <2>1, OthersLeaveItSound
<1>6. CASE Administer /\ Watch
  <2>1. now' >= now /\ UNCHANGED <<pc, cred, seen, reply>>
    BY <1>1, <1>3, <1>6, AdministerType DEF requestVars
  <2> QED
    BY <1>1, <1>2, <1>6, <2>1, OthersLeaveItSound
<1>7. ASSUME NEW d \in Clients, Serve(d), Watch
      PROVE  Sound(c)'
  <2>1. CASE d = c
    BY <1>1, <1>2, <1>7, <2>1, ServingIsSound
  <2>2. CASE d # c
    <3>1. /\ now' >= now
          /\ pc'[c] = pc[c] /\ cred'[c] = cred[c] /\ seen'[c] = seen[c]
          /\ reply'[c] = reply[c]
      BY <1>1, <1>3, <1>7, <2>2, ServeType
    <3> QED
      BY <1>1, <1>2, <1>7, <3>1, OthersLeaveItSound
  <2> QED
    BY <2>1, <2>2
<1> QED
  BY <1>4, <1>5, <1>6, <1>7 DEF Next

\* The inductive invariant holds in every reachable state.
LEMMA RequestsAreSound == Spec => []RequestInv
<1>1. RequestInv /\ [Next]_vars => RequestInv'
  BY RequestInvStep
<1> QED
  BY RequestInvInit, <1>1, PTL DEF Spec

\* What authenticate_key() has checked stays true of the request that it was
\* checked for, whatever becomes of the key meanwhile.
THEOREM ChecksAlwaysHold == Spec => []ChecksHold
<1>1. RequestInv => ChecksHold
  BY DEF RequestInv, Sound, ChecksHold
<1> QED
  BY RequestsAreSound, <1>1, PTL

\* "Revocation is immediate": for any number of clients and keys, whoever gets
\* past the 401 holds the secret of a key that was live since the request began.
THEOREM RevocationIsImmediate == Spec => []OnlyLiveKeysGetPast401
<1>1. RequestInv => OnlyLiveKeysGetPast401
  BY DEF RequestInv, Sound, OnlyLiveKeysGetPast401
<1> QED
  BY RequestsAreSound, <1>1, PTL

\* "Never distinguishes no such key from wrong secret", whatever the table
\* holds and however it changes during the request.
THEOREM GuessingTellsNothing == Spec => []GuessersLearnNothing
<1>1. RequestInv => GuessersLearnNothing
  BY DEF RequestInv, Sound, GuessersLearnNothing
<1> QED
  BY RequestsAreSound, <1>1, PTL

-----------------------------------------------------------------------------
(* What record_usage() records *)

\* UsageInv, about one client.
Recorded(c) ==
    /\ pc[c] \in {"expiry", "policy", "update"} =>
        /\ cred[c].key \in minted
        /\ seen[c].used # NULL =>
            /\ seen[c].used <= now
            /\ Exists(cred[c].key) =>
                /\ used[cred[c].key] # NULL
                /\ used[cred[c].key] >= seen[c].used - Stall
    /\ pc[c] = "update" => now <= stamp[c] + Stall
    /\ Authenticated(c) =>
        /\ cred[c].key \in minted
        /\ stamp[c] # NULL
        /\ Exists(cred[c].key) =>
            /\ used[cred[c].key] # NULL
            /\ used[cred[c].key] > stamp[c] - Threshold - Stall

AllMinted == \A k \in Keys : Exists(k) => k \in minted

\* The inductive invariant of usage is that of every client.
LEMMA RecordedIsUsageInv == UsageInv <=> AllMinted /\ \A c \in Clients : Recorded(c)
BY DEF UsageInv, UsageIsRecorded, AllMinted, Recorded

\* No refusal counts as an authenticated answer.
LEMMA RefusedIsNotAuthenticated ==
    ASSUME TypeOK, NEW c \in Clients, NEW reason \in Rejections, Reject(c, reason)
    PROVE  pc'[c] = "answered" /\ ~Authenticated(c)'
<1>1. PICK adapter \in {"drf", "ninja"} : Answer(c, Refusal(adapter, reason))
  BY DEF Reject
<1>2. reply'[c] = Refusal(adapter, reason) /\ pc'[c] = "answered"
  BY <1>1 DEF Answer, TypeOK
<1>3. ClientMessage(reason) # "missing_scope"
  BY DEF ClientMessage, Rejections, PolicyReasons
<1>4. /\ Refusal(adapter, reason).status # 200
      /\ Refusal(adapter, reason).message # "missing_scope"
  BY <1>3 DEF Refusal
<1> QED
  BY <1>2, <1>4 DEF Authenticated

\* A step that is not the client's own leaves its key as well marked as it was,
\* if what the step writes is no older than a stall.
LEMMA OthersKeepItRecorded ==
    ASSUME TypeOK, TypeOK', NEW c \in Clients, Recorded(c),
           pc'[c] = pc[c], cred'[c] = cred[c], seen'[c] = seen[c],
           stamp'[c] = stamp[c], reply'[c] = reply[c],
           now <= now', minted \subseteq minted',
           pc[c] = "update" => now' <= stamp[c] + Stall,
           \A k \in minted : Exists(k)' => Exists(k),
           \A k \in Keys : used'[k] # used[k] => used'[k] \in Nat /\ now <= used'[k] + Stall
    PROVE  Recorded(c)'
<1> USE RequestAssumption, RowAssumption
<1>1. now \in Nat /\ now' \in Nat /\ Stall \in Nat /\ Threshold \in Nat /\ Threshold > 0
  BY DEF TypeOK
<1>2. ASSUME pc[c] \in {"expiry", "policy", "update"}
      PROVE  /\ cred[c].key \in minted'
             /\ seen[c].used # NULL =>
                  /\ seen[c].used <= now'
                  /\ Exists(cred[c].key)' =>
                       /\ used'[cred[c].key] # NULL
                       /\ used'[cred[c].key] >= seen[c].used - Stall
  <2> DEFINE k == cred[c].key
  <2>1. k \in minted /\ k \in Keys
    BY <1>2 DEF Recorded, TypeOK
  <2> SUFFICES ASSUME seen[c].used # NULL
               PROVE  /\ seen[c].used <= now'
                      /\ Exists(k)' => used'[k] # NULL /\ used'[k] >= seen[c].used - Stall
    BY <2>1
  <2>2. seen[c].used \in Nat /\ seen[c].used <= now
    <3>1. seen[c] \in Seen
      BY <1>2 DEF TypeOK
    <3>2. seen[c].used \in Nat
      BY <3>1 DEF Seen, Instant
    <3> QED
      BY <1>2, <3>2 DEF Recorded
  <2>3. seen[c].used <= now'
    BY <1>1, <2>2
  <2>4. ASSUME Exists(k)'
        PROVE  used'[k] # NULL /\ used'[k] >= seen[c].used - Stall
    <3>1. Exists(k)
      BY <2>1, <2>4
    <3>2. used[k] # NULL /\ used[k] >= seen[c].used - Stall
      BY <1>2, <3>1 DEF Recorded
    <3>3. CASE used'[k] = used[k]
      BY <3>2, <3>3
    <3>4. CASE used'[k] # used[k]
      <4>1. used'[k] \in Nat /\ now <= used'[k] + Stall
        BY <2>1, <3>4
      <4> QED
        BY <1>1, <2>2, <4>1
    <3> QED
      BY <3>3, <3>4
  <2> QED
    BY <2>3, <2>4
<1>3. ASSUME Authenticated(c)
      PROVE  /\ cred[c].key \in minted'
             /\ stamp[c] # NULL
             /\ Exists(cred[c].key)' =>
                  /\ used'[cred[c].key] # NULL
                  /\ used'[cred[c].key] > stamp[c] - Threshold - Stall
  <2> DEFINE k == cred[c].key
  <2>1. k \in minted /\ k \in Keys
    BY <1>3 DEF Recorded, TypeOK
  <2>2. stamp[c] \in 0 .. now
    BY <1>3 DEF Recorded, TypeOK
  <2>3. ASSUME Exists(k)'
        PROVE  used'[k] # NULL /\ used'[k] > stamp[c] - Threshold - Stall
    <3>1. Exists(k)
      BY <2>1, <2>3
    <3>2. used[k] # NULL /\ used[k] > stamp[c] - Threshold - Stall
      BY <1>3, <3>1 DEF Recorded
    <3>3. CASE used'[k] = used[k]
      BY <3>2, <3>3
    <3>4. CASE used'[k] # used[k]
      <4>1. used'[k] \in Nat /\ now <= used'[k] + Stall
        BY <2>1, <3>4
      <4> QED
        BY <1>1, <2>2, <4>1
    <3> QED
      BY <3>3, <3>4
  <2> QED
    BY <1>3, <2>1, <2>3 DEF Recorded
<1>4. Authenticated(c)' <=> Authenticated(c)
  BY DEF Authenticated
<1>5. /\ pc'[c] = pc[c] /\ cred'[c] = cred[c] /\ seen'[c] = seen[c]
      /\ stamp'[c] = stamp[c]
  OBVIOUS
<1> QED
  BY <1>2, <1>3, <1>4, <1>5 DEF Recorded

\* Whoever changes the table only brings in keys that were never issued.
LEMMA AdministerBringsNoneBack ==
    ASSUME TypeOK, AllMinted, Administer
    PROVE  /\ minted \subseteq minted'
           /\ \A k \in Keys : Exists(k)' => k \in minted' /\ (k \in minted => Exists(k))
<1> USE RowAssumption
<1> DEFINE Good == /\ minted \subseteq minted'
                   /\ \A k \in Keys : Exists(k)' => k \in minted' /\ (k \in minted => Exists(k))
<1>1. ASSUME NEW k \in Keys, rows' = [rows EXCEPT ![k] = rows'[k]], Exists(k),
             minted' = minted
      PROVE  Good
  BY <1>1 DEF AllMinted, Exists, TypeOK
<1>2. PICK k \in Keys :
         \/ \E e \in Lifespans : Issue(k, e)
         \/ \E n \in Keys \ {k}, g \in Graces \cup {NULL} : Rotated(k, n, g)
         \/ Store!Revoke(k, now, "") /\ UNCHANGED <<minted, used>>
         \/ Store!Reactivate(k) /\ UNCHANGED <<minted, used>>
         \/ \E e \in Lifespans : Reschedule(k, e) /\ UNCHANGED <<minted, used>>
         \/ DeleteRow(k) /\ UNCHANGED <<minted, used>>
  BY DEF Administer
<1>3. CASE \E e \in Lifespans : Issue(k, e)
  <2>1. PICK e \in Lifespans : Issue(k, e)
    BY <1>3
  <2>2. /\ minted' = minted \cup {k} /\ k \notin minted
        /\ rows' = [rows EXCEPT ![k] = rows'[k]]
    BY <2>1 DEF Issue, Store!Create, Store!Write, TypeOK
  <2> QED
    BY <2>2 DEF AllMinted, Exists, TypeOK
<1>4. CASE \E n \in Keys \ {k}, g \in Graces \cup {NULL} : Rotated(k, n, g)
  <2>1. PICK n \in Keys \ {k}, g \in Graces \cup {NULL} : Rotated(k, n, g)
    BY <1>4
  <2>2. /\ minted' = minted \cup {n} /\ n \notin minted /\ rows[k] # NULL
        /\ \E new : rows' = [rows EXCEPT ![k] = Store!Retired(@, now, g), ![n] = new]
    BY <2>1 DEF Rotated, Store!Rotate, Store!Exists
  <2> QED
    BY <2>2 DEF AllMinted, Exists, TypeOK
<1>5. CASE Store!Revoke(k, now, "") /\ UNCHANGED <<minted, used>>
  BY <1>1, <1>5 DEF Store!Revoke, Store!Write, Store!Exists, Exists, TypeOK
<1>6. CASE Store!Reactivate(k) /\ UNCHANGED <<minted, used>>
  BY <1>1, <1>6 DEF Store!Reactivate, Store!Write, Store!Exists, Exists, TypeOK
<1>7. CASE \E e \in Lifespans : Reschedule(k, e) /\ UNCHANGED <<minted, used>>
  BY <1>1, <1>7 DEF Reschedule, Write, TypeOK
<1>8. CASE DeleteRow(k) /\ UNCHANGED <<minted, used>>
  <2>1. \A n \in Keys : Exists(n)' => Exists(n)
    BY <1>8 DEF DeleteRow, Forget, Exists
  <2> QED
    BY <1>8, <2>1 DEF AllMinted
<1> QED
  BY <1>2, <1>3, <1>4, <1>5, <1>6, <1>7, <1>8

\* The only write of last_used_at that a request makes: the instant that its
\* record_usage() read, at most a stall ago.
LEMMA ServingWritesItsStamp ==
    ASSUME TypeOK, NEW d \in Clients, Recorded(d), Serve(d), NEW k \in Keys,
           used'[k] # used[k]
    PROVE  used'[k] \in Nat /\ now <= used'[k] + Stall
<1>1. UpdateUsage(d)
  BY DEF Serve, Present, Lookup, CheckExpiry, RejectByPolicy, RecordUsage, Table
<1>2. pc[d] = "update" /\ used'[k] = stamp[d]
  BY <1>1 DEF UpdateUsage, TypeOK
<1>3. stamp[d] \in 0 .. now
  BY <1>2 DEF TypeOK
<1> QED
  BY <1>2, <1>3 DEF Recorded

\* A client's own step: what it sees is what the table shows, and it counts as
\* authenticated once the table shows what it read, or something recent enough.
LEMMA ServingKeepsItRecorded ==
    ASSUME TypeOK, TypeOK', AllMinted, NEW c \in Clients, Recorded(c), Serve(c)
    PROVE  Recorded(c)'
<1> USE RequestAssumption, RowAssumption
<1>1. /\ now \in Nat /\ Stall \in Nat /\ Threshold \in Nat /\ Threshold > 0
      /\ now' = now /\ rows' = rows /\ minted' = minted
  BY ServeType DEF TypeOK
<1>2. \A k : Exists(k)' <=> Exists(k)
  BY <1>1 DEF Exists
<1>3. ASSUME NEW reason \in Rejections, Reject(c, reason)
      PROVE  Recorded(c)'
  <2>1. pc'[c] = "answered" /\ ~Authenticated(c)'
    BY <1>3, RefusedIsNotAuthenticated
  <2> QED
    BY <2>1 DEF Recorded
<1>4. /\ PolicyReasons \subseteq Rejections
      /\ {"malformed", "unknown_key", "bad_secret", "inactive", "expired"} \subseteq Rejections
  BY DEF Rejections
<1>5. ASSUME pc'[c] = "lookup"
      PROVE  Recorded(c)'
  BY <1>5 DEF Recorded, Authenticated
<1>6. CASE \E k \in Keys, right, shaped \in BOOLEAN : Present(c, k, right, shaped)
  <2>1. PICK k \in Keys, right \in BOOLEAN, shaped \in BOOLEAN : Present(c, k, right, shaped)
    BY <1>6
  <2>2. CASE shaped
    BY <1>5, <2>1, <2>2 DEF Present, TypeOK
  <2>3. CASE ~shaped
    BY <1>3, <1>4, <2>1, <2>3 DEF Present
  <2> QED
    BY <2>2, <2>3
<1>7. CASE Lookup(c)
  <2> DEFINE k == cred[c].key
  <2>1. CASE \E reason \in Rejections : Reject(c, reason)
    BY <1>3, <2>1
  <2>2. CASE /\ Exists(k) /\ pc' = [pc EXCEPT ![c] = "expiry"]
             /\ seen' = [seen EXCEPT ![c] = [row |-> rows[k], used |-> used[k]]]
    <3>1. pc[c] = "lookup" /\ pc'[c] = "expiry" /\ cred' = cred /\ used' = used
      BY <1>7, <2>2 DEF Lookup, Table, TypeOK
    <3>2. k \in Keys
      BY <3>1 DEF TypeOK, Credential
    <3>3. seen'[c].used = used[k]
      BY <1>7, <2>2 DEF Lookup, TypeOK
    <3>4. used[k] \in (0 .. now) \cup {NULL}
      BY <3>2 DEF TypeOK
    <3>5. seen'[c].used # NULL =>
            /\ seen'[c].used <= now'
            /\ used'[k] # NULL /\ used'[k] >= seen'[c].used - Stall
      BY <1>1, <3>1, <3>3, <3>4
    <3>6. k \in minted'
      BY <1>1, <2>2, <3>2 DEF AllMinted
    <3>7. ~Authenticated(c)'
      BY <3>1 DEF Authenticated
    <3> QED
      BY <3>1, <3>5, <3>6, <3>7 DEF Recorded
  <2> QED
    BY <1>4, <1>7, <2>1, <2>2 DEF Lookup
<1>8. CASE CheckExpiry(c)
  <2>1. CASE \E reason \in Rejections : Reject(c, reason)
    BY <1>3, <2>1
  <2>2. CASE pc' = [pc EXCEPT ![c] = "policy"] /\ UNCHANGED seen
    <3>1. /\ pc[c] = "expiry" /\ pc'[c] = "policy"
          /\ cred' = cred /\ used' = used /\ seen' = seen
      BY <1>8, <2>2 DEF CheckExpiry, Table, TypeOK
    <3>2. ~Authenticated(c)'
      BY <3>1 DEF Authenticated
    <3> QED
      BY <1>1, <1>2, <3>1, <3>2 DEF Recorded
  <2> QED
    BY <1>4, <1>8, <2>1, <2>2 DEF CheckExpiry
<1>9. CASE RejectByPolicy(c)
  BY <1>3, <1>4, <1>9 DEF RejectByPolicy
<1>10. CASE RecordUsage(c)
  <2> DEFINE k == cred[c].key
  <2>1. pc[c] = "policy" /\ stamp'[c] = now /\ cred' = cred /\ used' = used
    BY <1>10 DEF RecordUsage, Table, TypeOK
  <2>2. CASE RecentlyUsed(c) /\ Accept(c)
    <3>1. pc'[c] = "answered"
      BY <2>2, AcceptType DEF TypeOK
    <3>2. seen[c].used # NULL /\ now - seen[c].used < Threshold
      BY <2>2 DEF RecentlyUsed
    <3>3. seen[c].used \in Nat
      <4>1. seen[c] \in Seen
        BY <2>1 DEF TypeOK
      <4> QED
        BY <3>2, <4>1 DEF Seen, Instant
    <3>4. ASSUME Exists(k)
          PROVE  used[k] # NULL /\ used[k] > now - Threshold - Stall
      <4>1. used[k] # NULL /\ used[k] >= seen[c].used - Stall /\ k \in Keys
        BY <2>1, <3>2, <3>4 DEF Recorded, TypeOK
      <4>2. used[k] \in Nat
        BY <4>1 DEF TypeOK
      <4> QED
        BY <1>1, <3>2, <3>3, <4>1, <4>2
    <3>5. k \in minted'
      BY <1>1, <2>1 DEF Recorded
    <3>6. stamp'[c] # NULL /\ (Exists(k) => used'[k] # NULL /\ used'[k] > stamp'[c] - Threshold - Stall)
      BY <1>1, <2>1, <3>4
    <3> QED
      BY <1>2, <2>1, <3>1, <3>5, <3>6 DEF Recorded
  <2>3. CASE pc' = [pc EXCEPT ![c] = "update"] /\ UNCHANGED seen
    <3>1. pc'[c] = "update" /\ seen' = seen
      BY <2>3 DEF TypeOK
    <3>2. ~Authenticated(c)'
      BY <3>1 DEF Authenticated
    <3>3. now' <= stamp'[c] + Stall
      BY <1>1, <2>1
    <3> QED
      BY <1>1, <1>2, <2>1, <3>1, <3>2, <3>3 DEF Recorded
  <2> QED
    BY <1>10, <2>2, <2>3 DEF RecordUsage
<1>11. CASE UpdateUsage(c)
  <2> DEFINE k == cred[c].key
  <2>1. pc[c] = "update" /\ stamp' = stamp /\ cred' = cred
    BY <1>11 DEF UpdateUsage
  <2>2. pc'[c] = "answered"
    BY <1>11, AcceptType DEF UpdateUsage, TypeOK
  <2>3. k \in Keys /\ k \in minted'
    BY <1>1, <2>1 DEF Recorded, TypeOK, Credential
  <2>4. stamp[c] \in Nat /\ stamp[c] # NULL
    BY <2>1 DEF TypeOK
  <2>5. ASSUME Exists(k)
        PROVE  used'[k] # NULL /\ used'[k] > stamp[c] - Threshold - Stall
    <3>1. used'[k] = stamp[c]
      BY <1>11, <2>3, <2>5 DEF UpdateUsage, TypeOK
    <3> QED
      BY <1>1, <2>4, <3>1
  <2> QED
    BY <1>2, <2>1, <2>2, <2>3, <2>4, <2>5 DEF Recorded
<1> QED
  BY <1>6, <1>7, <1>8, <1>9, <1>10, <1>11 DEF Serve

\* Every step keeps what record_usage() promises.
LEMMA UsageStep ==
    ASSUME TypeOK, UsageInv, [Next]_vars
    PROVE  UsageInv'
<1> USE RequestAssumption
<1>1. TypeOK' /\ AllMinted /\ \A c \in Clients : Recorded(c)
  BY TypeStep, RecordedIsUsageInv
<1>2. now \in Nat /\ now' \in Nat
  BY <1>1 DEF TypeOK
<1> SUFFICES AllMinted' /\ \A c \in Clients : Recorded(c)'
  BY DEF UsageInv, UsageIsRecorded, AllMinted, Recorded
<1>3. CASE UNCHANGED vars
  <2>1. UNCHANGED <<now, rows, minted, used, pc, cred, seen, stamp, reply>>
    BY <1>3 DEF vars, requestVars
  <2>2. AllMinted'
    BY <1>1, <2>1 DEF AllMinted, Exists
  <2>3. ASSUME NEW c \in Clients
        PROVE  Recorded(c)'
    BY <1>1, <2>1 DEF Recorded, Exists, Authenticated
  <2> QED
    BY <2>2, <2>3
<1>4. CASE Tick
  <2>1. /\ UNCHANGED <<rows, minted, used, pc, cred, seen, stamp, reply>>
        /\ now' = now + 1
        /\ \A c \in Clients : pc[c] = "update" => now - stamp[c] < Stall
    BY <1>4 DEF Tick, Elapse, requestVars
  <2>2. AllMinted'
    BY <1>1, <2>1 DEF AllMinted, Exists
  <2>3. ASSUME NEW c \in Clients
        PROVE  Recorded(c)'
    <3>1. pc[c] = "update" => now' <= stamp[c] + Stall
      <4>1. pc[c] = "update" => stamp[c] \in Nat
        BY DEF TypeOK
      <4> QED
        BY <1>2, <2>1, <4>1
    <3> QED
      BY <1>1, <1>2, <2>1, <3>1, OthersKeepItRecorded DEF Exists
  <2> QED
    BY <2>2, <2>3
<1>5. CASE Administer
  <2>1. now' = now /\ used' = used /\ UNCHANGED <<pc, cred, seen, stamp, reply>>
    BY <1>5, AdministerType DEF requestVars
  <2>2. /\ minted \subseteq minted'
        /\ \A k \in Keys : Exists(k)' => k \in minted' /\ (k \in minted => Exists(k))
    BY <1>1, <1>5, AdministerBringsNoneBack
  <2>3. minted \subseteq Keys
    BY DEF TypeOK
  <2>4. ASSUME NEW c \in Clients
        PROVE  Recorded(c)'
    <3>1. pc[c] = "update" => now' <= stamp[c] + Stall
      BY <1>1, <2>1 DEF Recorded
    <3> QED
      BY <1>1, <1>2, <2>1, <2>2, <2>3, <3>1, OthersKeepItRecorded
  <2> QED
    BY <2>2, <2>4 DEF AllMinted
<1>6. ASSUME NEW d \in Clients, Serve(d)
      PROVE  AllMinted' /\ \A c \in Clients : Recorded(c)'
  <2>1. now' = now /\ rows' = rows /\ minted' = minted
    BY <1>6, ServeType
  <2>2. AllMinted'
    BY <1>1, <2>1 DEF AllMinted, Exists
  <2>3. ASSUME NEW c \in Clients
        PROVE  Recorded(c)'
    <3>1. CASE c = d
      BY <1>1, <1>6, <3>1, ServingKeepsItRecorded
    <3>2. CASE c # d
      <4>1. /\ pc'[c] = pc[c] /\ cred'[c] = cred[c] /\ seen'[c] = seen[c]
            /\ stamp'[c] = stamp[c] /\ reply'[c] = reply[c]
        BY <1>6, <3>2, ServeType
      <4>2. \A k \in Keys : used'[k] # used[k] => used'[k] \in Nat /\ now <= used'[k] + Stall
        BY <1>1, <1>6, ServingWritesItsStamp
      <4>3. pc[c] = "update" => now' <= stamp[c] + Stall
        BY <1>1, <2>1 DEF Recorded
      <4>4. \A k \in minted : Exists(k)' => Exists(k)
        BY <2>1 DEF Exists
      <4> QED
        BY <1>1, <1>2, <2>1, <4>1, <4>2, <4>3, <4>4, OthersKeepItRecorded
    <3> QED
      BY <3>1, <3>2
  <2> QED
    BY <2>2, <2>3
<1> QED
  BY <1>3, <1>4, <1>5, <1>6 DEF Next

\* No key has been used or issued in the initial state.
LEMMA UsageInit == Init => UsageInv
BY DEF Init, TableInit, UsageInv, UsageIsRecorded, Authenticated, Exists

\* "Was this key used recently": whichever clients write last_used_at, skip the
\* write on the strength of a row that others have since written, or write an
\* instant that others have passed, the column is wrong by less than a threshold
\* and the longest stall together.
THEOREM UsageAlwaysRecorded == Spec => []UsageIsRecorded
<1>1. Init => TypeOK /\ UsageInv
  BY TypeInit, UsageInit
<1>2. (TypeOK /\ UsageInv) /\ [Next]_vars => (TypeOK /\ UsageInv)'
  BY TypeStep, UsageStep
<1>3. UsageInv => UsageIsRecorded
  BY DEF UsageInv
<1> QED
  BY <1>1, <1>2, <1>3, PTL DEF Spec
=============================================================================
