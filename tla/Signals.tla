------------------------------ MODULE Signals -------------------------------
(***************************************************************************)
(* The life-cycle signals, their receivers, and the transactions both are  *)
(* in.  One database connection: a caller opens and leaves atomic() blocks *)
(* at will and calls generate_key(), revoke() and rotate() between; the    *)
(* calls' signals are sent from inside whatever blocks are open, rotate()'s *)
(* own one among them.                                                     *)
(*                                                                         *)
(* Two receivers listen: the auditor, which defers its record of the event *)
(* with transaction.on_commit() as signals.py advises, and a second one    *)
(* that may raise.  Time does not pass here, and reactivate() and the      *)
(* admin's forms are left out because they send nothing.                   *)
(***************************************************************************)
EXTENDS KeyRow, Sequences

CONSTANTS
    MaxDepth,   \* bound on the atomic() blocks open when a caller opens one
    Failures,   \* may a statement or a COMMIT fail?
    Misuse      \* may a receiver's own query fail, outside a block of its own?

ASSUME SignalsAssumption ==
    /\ MaxDepth \in Nat
    /\ Failures \in BOOLEAN
    /\ Misuse \in BOOLEAN

Created(n) == <<"created", n>>
RevokedEvent(k) == <<"revoked", k>>
RotatedTo(k, n) == <<"rotated", k, n>>

Event == {Created(n) : n \in Keys} \cup {RevokedEvent(k) : k \in Keys}
                                   \cup {RotatedTo(k, n) : k, n \in Keys}

VARIABLES
    table,          \* the keys' table as this connection sees it
    needs_rollback, \* Django's flag: the innermost block must not be committed
    stack,          \* what each open block goes back to when it rolls back
    deferred,       \* how many on_commit() records of each event are waiting
    audit,          \* how many of them the auditor has made
    minted,         \* the keys generated so far, stored or not
    handed,         \* the keys whose raw form callers got, as far as they know
    instance,       \* the caller's key object
    call,           \* the call in progress, or NULL
    raising,        \* is an exception on its way out of the caller's block?
    broken          \* history: has a receiver's own query broken a block?

Statements == {"lock", "insert", "update", "cutoff"}

Stages == Statements \cup {"created", "revoked", "leave", "rotated", "raise"}

Tables == [Keys -> Row \cup {NULL}]

Counts == [Event -> Nat]

Frame == [table : Tables, deferred : Counts, handed : SUBSET Keys, savepoint : BOOLEAN]

Calls == [op     : {"generate", "revoke", "rotate"},
          at     : Stages,
          key    : Keys \cup {NULL},
          new    : Keys \cup {NULL},
          grace  : (Nat \ {0}) \cup {NULL},
          row    : Row,
          before : [table : Tables, needs_rollback : BOOLEAN]]

ASSUME SignalsNull == NULL \notin Calls /\ NULL \notin [key : Keys, row : Row]

vars == <<table, needs_rollback, stack, deferred, audit, minted, handed,
          instance, call, raising, broken>>

Nothing == [e \in Event |-> 0]

Stored(t) == {k \in Keys : t[k] # NULL}

InBlock == stack # <<>>

Top == stack[Len(stack)]

Init ==
    /\ table = [k \in Keys |-> NULL]
    /\ needs_rollback = FALSE
    /\ stack = <<>>
    /\ deferred = Nothing
    /\ audit = Nothing
    /\ minted = {}
    /\ handed = {}
    /\ instance = NULL
    /\ call = NULL
    /\ raising = FALSE
    /\ broken = FALSE

-----------------------------------------------------------------------------
(* transaction.atomic() *)

\* A block entered in a broken one gets no savepoint.
Push ==
    stack' = Append(stack, [table     |-> table,
                            deferred  |-> deferred,
                            handed    |-> handed,
                            savepoint |-> ~needs_rollback])

\* Back to where the block began, on_commit() callbacks included; without a
\* savepoint the enclosing block is left to do it.
RollBack ==
    /\ stack' = SubSeq(stack, 1, Len(stack) - 1)
    /\ IF Top.savepoint
       THEN /\ table' = Top.table
            /\ deferred' = Top.deferred
            /\ needs_rollback' = FALSE
       ELSE /\ UNCHANGED <<table, deferred>>
            /\ needs_rollback' = TRUE
    /\ UNCHANGED audit

\* The savepoint is released; the outermost block commits and the callbacks run.
Release ==
    /\ stack' = SubSeq(stack, 1, Len(stack) - 1)
    /\ IF Len(stack) = 1
       THEN /\ audit' = [e \in Event |-> audit[e] + deferred[e]]
            /\ deferred' = Nothing
       ELSE UNCHANGED <<audit, deferred>>
    /\ UNCHANGED <<table, needs_rollback>>

\* A block that ends without an exception rolls back all the same, and without
\* a word, if the flag is set.
LeaveBlock == IF needs_rollback THEN RollBack ELSE Release

Idle == call = NULL /\ ~raising

CallerEnters ==
    /\ Idle
    /\ Len(stack) < MaxDepth
    /\ Push
    /\ UNCHANGED <<table, needs_rollback, deferred, audit, minted, handed,
                   instance, call, raising, broken>>

CallerLeaves ==
    /\ Idle /\ InBlock
    /\ LeaveBlock
    /\ UNCHANGED <<minted, handed, instance, call, raising, broken>>

\* An exception leaves the block, or its COMMIT fails: the caller knows that
\* what it did in there is undone, and catches the exception or passes it on.
CallerEscapes ==
    /\ call = NULL /\ InBlock
    /\ RollBack
    /\ handed' = Top.handed
    /\ raising' \in BOOLEAN /\ (raising' => Len(stack) > 1)
    /\ UNCHANGED <<minted, instance, call, broken>>

-----------------------------------------------------------------------------
(* send_safely() *)

\* on_commit() outside of any block runs its callback at once.
Hear(e) ==
    IF InBlock
    THEN deferred' = [deferred EXCEPT ![e] = @ + 1] /\ UNCHANGED audit
    ELSE audit' = [audit EXCEPT ![e] = @ + 1] /\ UNCHANGED deferred

\* What the other receiver raises is logged and forgotten; but when a query of
\* its own failed in an open block, Django has set the flag.
OtherReceiver ==
    \/ UNCHANGED <<needs_rollback, broken>>
    \/ Misuse /\ InBlock /\ needs_rollback' = TRUE /\ broken' = TRUE

Send(e) == Hear(e) /\ OtherReceiver

-----------------------------------------------------------------------------
(* The calls *)

Proceed(stage) == call' = [call EXCEPT !.at = stage]

\* A database error leaves generate_key() and revoke(); the caller does not
\* catch it inside its block.  rotate() has a block of its own to leave first.
Raise ==
    IF call.op = "rotate"
    THEN Proceed("raise") /\ UNCHANGED raising
    ELSE call' = NULL /\ raising' = InBlock

Ended == call' = NULL /\ UNCHANGED raising

Load(k) ==
    /\ Idle /\ ~needs_rollback
    /\ table[k] # NULL
    /\ instance' = [key |-> k, row |-> table[k]]
    /\ UNCHANGED <<table, needs_rollback, stack, deferred, audit, minted, handed,
                   call, raising, broken>>

\* A call of operation op about key k; `before` is how it found the database.
NewCall(op, stage, k, n, grace, row) ==
    [op |-> op, at |-> stage, key |-> k, new |-> n, grace |-> grace, row |-> row,
     before |-> [table |-> table, needs_rollback |-> needs_rollback]]

\* row is the one to insert; the random prefix is a new one.
BeginGenerate(n, expiry) ==
    /\ Idle
    /\ n \notin minted
    /\ minted' = minted \cup {n}
    /\ call' = NewCall("generate", "insert", NULL, n, NULL, NewRow(TRUE, expiry, NULL))
    /\ UNCHANGED <<table, needs_rollback, stack, deferred, audit, handed, instance,
                   raising, broken>>

\* The early return left out.
BugBeginRevoke ==
    /\ Idle
    /\ instance # NULL
    /\ LET row == Revoked(instance.row, 0, "")
       IN  /\ instance' = [instance EXCEPT !.row = row]
           /\ call' = NewCall("revoke", "update", instance.key, NULL, NULL, row)
    /\ UNCHANGED <<table, needs_rollback, stack, deferred, audit, minted, handed,
                   raising, broken>>

\* revoke() changes the instance before its UPDATE; if it says "revoked"
\* already, there is no call.
BeginRevoke ==
    /\ Idle
    /\ instance # NULL
    /\ ~AlreadyRevoked(instance.row)
    /\ LET row == Revoked(instance.row, 0, "")
       IN  /\ instance' = [instance EXCEPT !.row = row]
           /\ call' = NewCall("revoke", "update", instance.key, NULL, NULL, row)
    /\ UNCHANGED <<table, needs_rollback, stack, deferred, audit, minted, handed,
                   raising, broken>>

\* atomic(savepoint=False): an error inside is left to the caller's block.
BugBeginRotate(n, grace) ==
    /\ Idle
    /\ instance # NULL
    /\ grace # NULL => grace > 0
    /\ n \notin minted
    /\ minted' = minted \cup {n}
    /\ stack' = Append(stack, [table |-> table, deferred |-> deferred,
                               handed |-> handed, savepoint |-> ~InBlock])
    /\ call' = NewCall("rotate", "lock", instance.key, n, grace, instance.row)
    /\ UNCHANGED <<table, needs_rollback, deferred, audit, handed, instance, raising,
                   broken>>

\* rotate() opens its block.
BeginRotate(n, grace) ==
    /\ Idle
    /\ instance # NULL
    /\ grace # NULL => grace > 0
    /\ n \notin minted
    /\ minted' = minted \cup {n}
    /\ Push
    /\ call' = NewCall("rotate", "lock", instance.key, n, grace, instance.row)
    /\ UNCHANGED <<table, needs_rollback, deferred, audit, handed, instance, raising,
                   broken>>

Replaced(k) ==
    \E n \in Stored(table) : table[n].rotated_from = k /\ IsValid(table[n], 0)

\* The row is read again; a dead or replaced one is a ValueError.
RotateLock ==
    LET k == call.key
    IN  /\ call # NULL /\ call.at = "lock"
        /\ ~needs_rollback
        /\ IF table[k] # NULL /\ IsValid(table[k], 0) /\ ~Replaced(k)
           THEN call' = [call EXCEPT !.at = "insert", !.row = table[k]]
           ELSE Proceed("raise")
        /\ UNCHANGED <<table, needs_rollback, stack, deferred, audit, minted, handed,
                       instance, raising, broken>>

\* Of a rotation, the new row has the old one's expiry.
Insert ==
    /\ call # NULL /\ call.at = "insert"
    /\ ~needs_rollback
    /\ table' = [table EXCEPT ![call.new] =
                    NewRow(TRUE, call.row.expires_at, call.key)]
    /\ Proceed("created")
    /\ UNCHANGED <<needs_rollback, stack, deferred, audit, minted, handed, instance,
                   raising, broken>>

\* rotate() goes on to retire the old key: by revoke(), by a cutoff, or not at
\* all if it expires soon enough.
SendCreated ==
    /\ call # NULL /\ call.at = "created"
    /\ Send(Created(call.new))
    /\ IF call.op = "generate"
       THEN /\ Ended
            /\ handed' = handed \cup {call.new}
            /\ instance' = [key |-> call.new, row |-> table[call.new]]
       ELSE /\ Proceed(IF call.grace = NULL THEN "update"
                       ELSE IF Retired(call.row, 0, call.grace) = call.row
                            THEN "leave" ELSE "cutoff")
            /\ UNCHANGED <<handed, instance, raising>>
    /\ UNCHANGED <<table, stack, minted>>

\* The UPDATE of revoke(), which rotate() calls on the row it has locked.
Update ==
    LET k   == call.key
        row == IF call.op = "rotate" THEN Retired(call.row, 0, NULL) ELSE call.row
    IN  /\ call # NULL /\ call.at = "update"
        /\ ~needs_rollback
        /\ table[k] # NULL
        /\ table' = [table EXCEPT ![k] = SaveLifecycle(@, row)]
        /\ Proceed("revoked")
        /\ UNCHANGED <<needs_rollback, stack, deferred, audit, minted, handed,
                       instance, raising, broken>>

SendRevoked ==
    /\ call # NULL /\ call.at = "revoked"
    /\ Send(RevokedEvent(call.key))
    /\ IF call.op = "revoke" THEN Ended ELSE Proceed("leave") /\ UNCHANGED raising
    /\ UNCHANGED <<table, stack, minted, handed, instance>>

\* The UPDATE of expires_at.
Cutoff ==
    /\ call # NULL /\ call.at = "cutoff"
    /\ ~needs_rollback
    /\ table' = [table EXCEPT ![call.key] = Retired(call.row, 0, call.grace)]
    /\ Proceed("leave")
    /\ UNCHANGED <<needs_rollback, stack, deferred, audit, minted, handed, instance,
                   raising, broken>>

\* rotate() leaves its block without an exception; the caller's instance takes
\* over what rotate() believes to have stored.
RotateLeave ==
    /\ call # NULL /\ call.at = "leave"
    /\ LeaveBlock
    /\ instance' = [instance EXCEPT !.row = Synced(@, table[call.key])]
    /\ Proceed("rotated")
    /\ UNCHANGED <<minted, handed, raising, broken>>

\* send() for send_robust(): a receiver that raises takes the raw key with it.
BugSendRotated ==
    /\ call # NULL /\ call.at = "rotated"
    /\ Send(RotatedTo(call.key, call.new))
    /\ Ended
    /\ handed' \in {handed, handed \cup {call.new}}
    /\ UNCHANGED <<table, stack, minted, instance>>

SendRotated ==
    /\ call # NULL /\ call.at = "rotated"
    /\ Send(RotatedTo(call.key, call.new))
    /\ Ended
    /\ handed' = handed \cup {call.new}
    /\ UNCHANGED <<table, stack, minted, instance>>

\* No query runs in a broken block: Django raises TransactionManagementError.
Refused ==
    /\ call # NULL /\ call.at \in Statements
    /\ needs_rollback
    /\ Raise
    /\ UNCHANGED <<table, needs_rollback, stack, deferred, audit, minted, handed,
                   instance, broken>>

\* The flag set where there is no block to break.
BugStatementFails ==
    /\ call # NULL /\ call.at \in Statements
    /\ ~needs_rollback
    /\ \/ Failures
       \/ call.at = "update" /\ table[call.key] = NULL
    /\ needs_rollback' = (call.at # "lock")
    /\ Raise
    /\ UNCHANGED <<table, stack, deferred, audit, minted, handed, instance, broken>>

\* A statement fails: a colliding prefix, a row that is gone, a lost
\* connection.  save() marks the block it runs in.
StatementFails ==
    /\ call # NULL /\ call.at \in Statements
    /\ ~needs_rollback
    /\ \/ Failures
       \/ call.at = "update" /\ table[call.key] = NULL
    /\ needs_rollback' = (InBlock /\ call.at # "lock")
    /\ Raise
    /\ UNCHANGED <<table, stack, deferred, audit, minted, handed, instance, broken>>

\* The exception, or a COMMIT that fails, rolls rotate()'s block back; the
\* caller may catch it in its own block, which is intact.
RotateUnwinds ==
    /\ call # NULL
    /\ \/ call.at = "raise"
       \/ call.at = "leave" /\ Failures /\ ~needs_rollback /\ Len(stack) = 1
    /\ RollBack
    /\ call' = NULL
    /\ raising' \in BOOLEAN /\ (raising' => Len(stack) > 1)
    /\ UNCHANGED <<minted, handed, instance, broken>>

Next ==
    \/ CallerEnters
    \/ CallerLeaves
    \/ CallerEscapes
    \/ \E k \in Keys : Load(k)
    \/ \E n \in Keys, e \in Lifespans : BeginGenerate(n, e)
    \/ BeginRevoke
    \/ \E n \in Keys, g \in Graces \cup {NULL} : BeginRotate(n, g)
    \/ RotateLock
    \/ Insert
    \/ SendCreated
    \/ Update
    \/ SendRevoked
    \/ Cutoff
    \/ RotateLeave
    \/ SendRotated
    \/ Refused
    \/ StatementFails
    \/ RotateUnwinds

Spec == Init /\ [][Next]_vars

-----------------------------------------------------------------------------

\* Every variable keeps its type, only an open block can be broken, and a
\* rotation has a block of its own until it has left it.
TypeOK ==
    /\ table \in Tables
    /\ needs_rollback \in BOOLEAN
    /\ stack \in Seq(Frame)
    /\ deferred \in Counts
    /\ audit \in Counts
    /\ minted \subseteq Keys
    /\ handed \subseteq Keys
    /\ instance \in [key : Keys, row : Row] \cup {NULL}
    /\ call \in Calls \cup {NULL}
    /\ raising \in BOOLEAN
    /\ broken \in BOOLEAN
    /\ needs_rollback \/ raising => InBlock
    /\ call # NULL => ~raising
    /\ call # NULL /\ call.op = "rotate" /\ call.at # "rotated" => InBlock

\* "raw_key is your only chance to see the secret": whatever fails, in or
\* between the calls and however the blocks around them end, callers hold the
\* raw form of exactly the keys that are stored, until a receiver breaks a block.
KeysAreHandedOver == ~broken /\ call = NULL => Stored(table) = handed

\* A receiver can at worst make a key vanish that was handed over: no stored key
\* is one whose secret nobody was given.
NoKeyIsNobodys == call = NULL => Stored(table) \subseteq handed

Happened(t, e) ==
    CASE e[1] = "created" -> t[e[2]] # NULL
      [] e[1] = "revoked" -> t[e[2]] # NULL /\ ~t[e[2]].is_active
      [] e[1] = "rotated" -> t[e[3]] # NULL /\ t[e[3]].rotated_from = e[2]

Times(b) == IF b THEN 1 ELSE 0

Committed == IF InBlock THEN stack[1].table ELSE table

\* "If you call them inside an atomic() block that later rolls back, a receiver
\* has already run -- defer with transaction.on_commit inside the receiver if
\* that matters", and "once per actual revocation": the records of a receiver
\* that does are the history of the committed table, each event once, through
\* nested blocks, failures and rollbacks, until another receiver breaks a block.
AuditIsTrue ==
    ~broken /\ (call = NULL \/ InBlock) =>
        \A e \in Event : audit[e] = Times(Happened(Committed, e))

\* A rotation that raises, at whatever statement or signal it is, leaves the
\* table and the block it was called in as it found them.
RotateIsAllOrNothing ==
    [][call # NULL /\ call.at = "raise" =>
         /\ table' = call.before.table
         /\ needs_rollback' = call.before.needs_rollback]_vars

\* "A receiver that raises never breaks the operation that sent the signal":
\* a key that generate_key() or rotate() returned, to a caller that no
\* exception has reached since, is stored.
ReceiversBreakNothing == call = NULL => handed \subseteq Stored(table)

\* After revoke() has returned, or returns early, the key does not work.
RevokedStaysRevoked ==
    call = NULL /\ instance # NULL /\ AlreadyRevoked(instance.row)
    /\ table[instance.key] # NULL
    => ~IsValid(table[instance.key], 0)
=============================================================================
