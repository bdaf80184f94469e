---------------------------- MODULE KeyLifecycle ----------------------------
(***************************************************************************)
(* The life cycle of API keys as the database sees it: workers (web        *)
(* processes, admin sessions, management commands) that each hold an       *)
(* in-memory instance of one row, which may be stale, and run the methods  *)
(* of AbstractTenantAPIKey and TenantAPIKeyAdmin on it one statement at a  *)
(* time, under READ COMMITTED with row locks.                              *)
(*                                                                         *)
(* A worker between calls is at "idle".  The calls that end in a single    *)
(* UPDATE first change the instance and then wait at "revoke",             *)
(* "reactivate" or "admin" for the statement to run; rotate() goes through *)
(* "rotate", "locked", "checked", "inserted" and "retired", holding the    *)
(* row's lock from "locked" on, and publishes its writes at the commit.    *)
(***************************************************************************)
EXTENDS KeyTable

CONSTANTS
    Workers,    \* threads of control that share the table
    Operations, \* the calls and failures that may happen (see below)
    MaxTime     \* bound on the clock

\* "draft" is the admin's add form with the active box cleared.
\* "edit", "toggle" and "extend" are the ways an admin may fill in the change
\* form: leave the box and the expiry alone, click the box, alter the expiry.
\* "abort" is a database failure inside rotate()'s transaction, "failure" one
\* of a single UPDATE.
AllOperations ==
    {"generate", "draft", "revoke", "bulk", "reactivate", "rotate", "edit",
     "toggle", "extend", "delete", "abort", "failure"}

VARIABLES
    minted,     \* the keys that generate_api_key() has returned
    lock,       \* the row locks of SELECT ... FOR UPDATE
    pc,         \* how far each worker is in its current call
    self,       \* the instance each worker holds
    grace,      \* rotate()'s argument
    current,    \* rotate()'s locked row, with the changes not yet committed
    fresh       \* the replacement rotate() inserted, not yet committed

vars == <<now, rows, restored, minted, lock, pc, self, grace, current, fresh>>

Calling   == {"revoke", "reactivate", "admin"}   \* one UPDATE to run
InTxn     == {"locked", "checked", "inserted", "retired"}
Locations == {"idle", "rotate"} \cup Calling \cup InTxn

Instance == [key : Keys, row : Row]

ASSUME LifecycleAssumption ==
    /\ NULL \notin Workers
    /\ NULL \notin Instance
    /\ Operations \subseteq AllOperations
    /\ MaxTime \in Nat

-----------------------------------------------------------------------------

Init ==
    /\ TableInit
    /\ minted = {}
    /\ lock = [k \in Keys |-> NULL]
    /\ pc = [w \in Workers |-> "idle"]
    /\ self = [w \in Workers |-> NULL]
    /\ grace = [w \in Workers |-> NULL]
    /\ current = [w \in Workers |-> NULL]
    /\ fresh = [w \in Workers |-> NULL]

Goto(w, l) == pc' = [pc EXCEPT ![w] = l]

Hold(w, k, row) == self' = [self EXCEPT ![w] = [key |-> k, row |-> row]]

txnVars == <<lock, grace, current, fresh>>

\* A call that touches nothing but the worker's own instance.
Locally == UNCHANGED <<now, rows, restored, minted, lock, grace, current, fresh>>

\* The worker's instance may be used: it exists and no call is running on it.
Ready(w) == pc[w] = "idle" /\ self[w] # NULL

-----------------------------------------------------------------------------
(* Obtaining an instance *)

\* objects.get(...), a list view's query, or the GET of a change form.
Load(w, k) ==
    /\ pc[w] = "idle"
    /\ Exists(k)
    /\ Hold(w, k, rows[k])
    /\ UNCHANGED pc
    /\ Locally

\* One INSERT of a row that nobody else can name yet.  generate_key() makes it
\* active; the admin's add form may also have the box cleared.
GenerateKey(w, k, active, expiry) ==
    /\ "generate" \in Operations
    /\ active \/ "draft" \in Operations
    /\ pc[w] = "idle"
    /\ k \notin minted
    /\ minted' = minted \cup {k}
    /\ rows' = [rows EXCEPT ![k] = NewRow(active, expiry, NULL)]
    /\ Hold(w, k, NewRow(active, expiry, NULL))
    /\ UNCHANGED <<now, restored, pc, txnVars>>

-----------------------------------------------------------------------------
(* Calls that end in one UPDATE of the instance's row *)

\* revoke(): the guard reads the instance, never the table; an instance that
\* says "already revoked" ends the call there.
BeginRevoke(w, reason) ==
    /\ "revoke" \in Operations
    /\ Ready(w)
    /\ ~AlreadyRevoked(self[w].row)
    /\ Hold(w, self[w].key, Revoked(self[w].row, now, reason))
    /\ Goto(w, "revoke")
    /\ Locally

\* The admin's bulk action, on one of the rows its filter(is_active=True) found.
RevokeSelected(w) ==
    /\ "bulk" \in Operations
    /\ Ready(w)
    /\ self[w].row.is_active
    /\ Hold(w, self[w].key, Revoked(self[w].row, now, "revoked via admin"))
    /\ Goto(w, "revoke")
    /\ Locally

BeginReactivate(w) ==
    /\ "reactivate" \in Operations
    /\ Ready(w)
    /\ Hold(w, self[w].key, Reactivated(self[w].row))
    /\ Goto(w, "reactivate")
    /\ Locally

\* How the page that showed `seen` may come back, by the enabled operations.
FormMayHold(seen, box, expiry) ==
    /\ box # seen.is_active => "toggle" \in Operations
    /\ expiry # seen.expires_at => "extend" \in Operations
    /\ box = seen.is_active /\ expiry = seen.expires_at => "edit" \in Operations

\* The POST of a change form: the row is read again and the form's fields, as
\* the page showed them or as the admin altered them, are laid over it.
AdminPost(w) ==
    /\ Ready(w)
    /\ LET seen == self[w].row
           k    == self[w].key
       IN  /\ Exists(k)
           /\ \E box \in BOOLEAN, expiry \in {seen.expires_at} \cup Lifespans :
                /\ FormMayHold(seen, box, expiry)
                /\ Hold(w, k, FormApplied(rows[k], box, expiry, now))
    /\ Goto(w, "admin")
    /\ Locally

\* save(update_fields=...): waits for the row's lock, then writes the three
\* columns of the instance over whatever the row holds by then.
SaveUpdateFields(w) ==
    LET k == self[w].key
    IN  /\ pc[w] \in {"revoke", "reactivate"}
        /\ Exists(k) /\ lock[k] = NULL
        /\ Write(k, SaveLifecycle(rows[k], self[w].row))
        /\ Goto(w, "idle")
        /\ UNCHANGED <<minted, self, txnVars>>

\* The admin's obj.save(): every column of the instance is written, and a row
\* deleted since the POST read it is inserted again, provided the foreign key
\* it carries still has its target.
SaveAllFields(w) ==
    LET k      == self[w].key
        origin == self[w].row.rotated_from
    IN  /\ pc[w] = "admin"
        /\ lock[k] = NULL
        /\ origin # NULL => Exists(origin)
        /\ Write(k, self[w].row)
        /\ Goto(w, "idle")
        /\ UNCHANGED <<minted, self, txnVars>>

\* The UPDATE would match no row, or store a foreign key without its target.
TargetGone(w) ==
    IF pc[w] = "admin"
    THEN self[w].row.rotated_from # NULL /\ ~Exists(self[w].row.rotated_from)
    ELSE ~Exists(self[w].key)

\* The UPDATE raises, for that or because the database failed.  The instance
\* keeps the values that were not stored.
SaveFails(w) ==
    /\ pc[w] \in Calling
    /\ "failure" \in Operations \/ TargetGone(w)
    /\ Goto(w, "idle")
    /\ UNCHANGED self
    /\ Locally

-----------------------------------------------------------------------------
(* rotate() *)

BugBeginRotate(w, g) ==
    /\ "rotate" \in Operations
    /\ Ready(w)
    /\ grace' = [grace EXCEPT ![w] = g]
    /\ Goto(w, "rotate")
    /\ UNCHANGED <<now, rows, restored, minted, lock, self, current, fresh>>

BeginRotate(w, g) ==
    /\ "rotate" \in Operations
    /\ Ready(w)
    /\ g # NULL => g > 0
    /\ grace' = [grace EXCEPT ![w] = g]
    /\ Goto(w, "rotate")
    /\ UNCHANGED <<now, rows, restored, minted, lock, self, current, fresh>>

BugEndTxn(w) ==
    /\ Goto(w, "idle")
    /\ grace' = [grace EXCEPT ![w] = NULL]
    /\ current' = [current EXCEPT ![w] = NULL]
    /\ fresh' = [fresh EXCEPT ![w] = NULL]
    /\ UNCHANGED lock

\* Leaves the transaction, forgetting what it had not committed.
EndTxn(w) ==
    /\ Goto(w, "idle")
    /\ lock' = [k \in Keys |-> IF lock[k] = w THEN NULL ELSE lock[k]]
    /\ grace' = [grace EXCEPT ![w] = NULL]
    /\ current' = [current EXCEPT ![w] = NULL]
    /\ fresh' = [fresh EXCEPT ![w] = NULL]

BugRotateLock(w) ==
    LET k == self[w].key
    IN  /\ pc[w] = "rotate"
        /\ IsLive(k)
        /\ current' = [current EXCEPT ![w] = rows[k]]
        /\ Goto(w, "locked")
        /\ UNCHANGED <<now, rows, restored, minted, lock, self, grace, fresh>>

\* SELECT ... FOR UPDATE returns the row's committed values once nobody else
\* has it locked.
RotateLock(w) ==
    LET k == self[w].key
    IN  /\ pc[w] = "rotate"
        /\ lock[k] = NULL
        /\ IsLive(k)
        /\ lock' = [lock EXCEPT ![k] = w]
        /\ current' = [current EXCEPT ![w] = rows[k]]
        /\ Goto(w, "locked")
        /\ UNCHANGED <<now, rows, restored, minted, self, grace, fresh>>

\* The row is gone, inactive or expired: rotate() raises.
RotateRefused(w) ==
    LET k == self[w].key
    IN  /\ pc[w] = "rotate"
        /\ lock[k] = NULL
        /\ ~IsLive(k)
        /\ EndTxn(w)
        /\ UNCHANGED <<now, rows, restored, minted, self>>

BugRotateCheck(w) ==
    /\ pc[w] = "locked"
    /\ Goto(w, "checked")
    /\ UNCHANGED self
    /\ Locally

\* The replacements themselves are read without locking them.
RotateCheck(w) ==
    /\ pc[w] = "locked"
    /\ LiveReplacements(self[w].key) = {}
    /\ Goto(w, "checked")
    /\ UNCHANGED self
    /\ Locally

RotateConflict(w) ==
    /\ pc[w] = "locked"
    /\ LiveReplacements(self[w].key) # {}
    /\ EndTxn(w)
    /\ UNCHANGED <<now, rows, restored, minted, self>>

\* generate_key(): the replacement inherits the locked row's expiry unless an
\* override replaces it, and stays invisible to others until the commit.
RotateInsert(w, n) ==
    /\ pc[w] = "checked"
    /\ n \notin minted
    /\ minted' = minted \cup {n}
    /\ \E expiry \in {current[w].expires_at} \cup Lifespans :
         fresh' = [fresh EXCEPT ![w] =
                     [key |-> n, row |-> NewRow(TRUE, expiry, self[w].key)]]
    /\ Goto(w, "inserted")
    /\ UNCHANGED <<now, rows, restored, lock, self, grace, current>>

BugRotateRetire(w) ==
    /\ pc[w] = "inserted"
    /\ current' = [current EXCEPT ![w] = Retired(@, now, grace[w])]
    /\ Hold(w, self[w].key, Retired(current[w], now, grace[w]))
    /\ Goto(w, "retired")
    /\ UNCHANGED <<now, rows, restored, minted, lock, grace, fresh>>

StaleRotateRetire(w) ==
    /\ pc[w] = "inserted"
    /\ current' = [current EXCEPT ![w] = Retired(self[w].row, now, grace[w])]
    /\ Goto(w, "retired")
    /\ UNCHANGED <<now, rows, restored, minted, lock, self, grace, fresh>>

RotateRetire(w) ==
    /\ pc[w] = "inserted"
    /\ current' = [current EXCEPT ![w] = Retired(@, now, grace[w])]
    /\ Goto(w, "retired")
    /\ UNCHANGED <<now, rows, restored, minted, lock, self, grace, fresh>>

\* Both writes appear at once, the lock is released, and the caller's instance
\* takes the four columns that the rotation may have changed.
RotateCommit(w) ==
    LET k == self[w].key
    IN  /\ pc[w] = "retired"
        /\ rows' = [rows EXCEPT ![k] = Synced(@, current[w]),
                                ![fresh[w].key] = fresh[w].row]
        /\ Hold(w, k, Synced(self[w].row, current[w]))
        /\ EndTxn(w)
        /\ UNCHANGED <<now, restored, minted>>

\* The transaction fails and rolls back; the instance was not touched.
RotateAbort(w) ==
    /\ "abort" \in Operations
    /\ pc[w] \in InTxn \cup {"rotate"}
    /\ EndTxn(w)
    /\ UNCHANGED <<now, rows, restored, minted, self>>

\* The bound on Keys: a rotation that finds nothing left to mint is called off.
RotateExhausted(w) ==
    /\ pc[w] = "checked"
    /\ minted = Keys
    /\ EndTxn(w)
    /\ UNCHANGED <<now, rows, restored, minted, self>>

-----------------------------------------------------------------------------
(* The table's surroundings *)

\* The admin's delete: waits for the locks of the row and of the replacements
\* whose rotated_from it clears.
Delete(k) ==
    /\ "delete" \in Operations
    /\ \A n \in Keys : lock[n] # NULL =>
         n # k /\ (Exists(n) => rows[n].rotated_from # k)
    /\ DeleteRow(k)
    /\ UNCHANGED <<minted, lock, pc, self, grace, current, fresh>>

Tick ==
    /\ now < MaxTime
    /\ Elapse
    /\ UNCHANGED <<minted, lock, pc, self, grace, current, fresh>>

Update(w) == SaveUpdateFields(w) \/ SaveAllFields(w) \/ SaveFails(w)

\* What rotate() does by itself, as opposed to what its database does to it.
RotateProgress(w) ==
    \/ RotateLock(w)
    \/ RotateRefused(w)
    \/ RotateCheck(w)
    \/ RotateConflict(w)
    \/ \E n \in Keys : RotateInsert(w, n)
    \/ RotateRetire(w)
    \/ RotateCommit(w)
    \/ RotateExhausted(w)

Rotation(w) == RotateProgress(w) \/ RotateAbort(w)

Call(w) ==
    \/ \E k \in Keys : Load(w, k)
    \/ \E k \in Keys, active \in BOOLEAN, e \in Lifespans :
         GenerateKey(w, k, active, e)
    \/ \E reason \in CallerReasons : BeginRevoke(w, reason)
    \/ RevokeSelected(w)
    \/ BeginReactivate(w)
    \/ AdminPost(w)
    \/ \E g \in Graces \cup {NULL} : BeginRotate(w, g)

Next ==
    \/ Tick
    \/ \E k \in Keys : Delete(k)
    \/ \E w \in Workers : Call(w) \/ Update(w) \/ Rotation(w)

Spec == Init /\ [][Next]_vars

\* A call that has begun goes on: the statements of a running program execute,
\* and the database's queue of lock waiters starves nobody.  Nothing makes a
\* transaction or an UPDATE fail: nobody who waits is freed by such luck.
Fairness ==
    \A w \in Workers :
        /\ WF_vars(RotateProgress(w))
        /\ SF_vars(SaveUpdateFields(w) \/ SaveAllFields(w)
                      \/ (SaveFails(w) /\ TargetGone(w)))
        /\ SF_vars(RotateLock(w) \/ RotateRefused(w))

FairSpec == Spec /\ Fairness

-----------------------------------------------------------------------------

\* The admin's computed status column.
Status(k) ==
    IF IsExpired(rows[k], now)       THEN "Expired"
    ELSE IF rows[k].is_active        THEN "Active"
    ELSE IF rows[k].revoked_at = NULL THEN "Inactive"
    ELSE "Revoked"

\* "Revoked only shows once revoke() has actually run": never for a key that
\* an admin deactivated by clearing the box of its form.
RevokedMeansRevokeRan ==
    \A k \in Keys :
        Exists(k) /\ Status(k) = "Revoked" =>
            rows[k].revoked_reason # "deactivated via admin"

\* Every variable keeps its type, and a worker's registers are filled exactly
\* while the call that uses them runs.
TypeOK ==
    /\ now \in 0 .. MaxTime
    /\ rows \in [Keys -> Row \cup {NULL}]
    /\ restored \subseteq Keys
    /\ minted \subseteq Keys
    /\ lock \in [Keys -> Workers \cup {NULL}]
    /\ pc \in [Workers -> Locations]
    /\ self \in [Workers -> Instance \cup {NULL}]
    /\ grace \in [Workers -> (Nat \ {0}) \cup {NULL}]
    /\ current \in [Workers -> Row \cup {NULL}]
    /\ fresh \in [Workers -> Instance \cup {NULL}]
    /\ \A w \in Workers :
         /\ pc[w] # "idle" => self[w] # NULL
         /\ pc[w] \in InTxn => current[w] # NULL
         /\ pc[w] \in {"inserted", "retired"} => fresh[w] # NULL

\* "Field values are copied from that fresh row": from the SELECT ... FOR
\* UPDATE until rotate() retires the key, nobody changes the row under it, so
\* neither its copy nor its own write is based on a value that has gone.
RotatesWhatItRead ==
    \A w \in Workers :
        pc[w] \in {"locked", "checked", "inserted"} =>
            rows[self[w].key] = current[w]

\* The parts of the inductive invariant behind AtMostOneLiveReplacement.

\* A worker inside rotate()'s transaction holds the lock of a row that exists.
HoldsItsLock ==
    \A w \in Workers : pc[w] \in InTxn =>
        lock[self[w].key] = w /\ Exists(self[w].key)

\* Once checked, only restored replacements of the locked key can be live.
NoReplacementStands ==
    \A w \in Workers : pc[w] \in {"checked", "inserted", "retired"} =>
        LiveReplacements(self[w].key) \subseteq restored

\* The row to be committed is the locked row, retired at some past instant.
CurrentIsRetired ==
    \A w \in Workers : pc[w] = "retired" =>
        \E t \in 0 .. now : current[w] = Retired(rows[self[w].key], t, grace[w])

\* Every key in the table, and every key a worker names, has been minted.
NamedIsMinted ==
    /\ \A k \in Keys : Exists(k) => k \in minted
    /\ \A w \in Workers : self[w] # NULL => self[w].key \in minted

\* An uncommitted replacement is known to nobody but the worker rotating.
FreshIsHidden ==
    \A w \in Workers : pc[w] \in {"inserted", "retired"} =>
        /\ fresh[w].key \in minted
        /\ ~Exists(fresh[w].key)
        /\ fresh[w].row.rotated_from = self[w].key
        /\ \A x \in Workers :
             /\ self[x] # NULL => self[x].key # fresh[w].key
             /\ x # w /\ pc[x] \in {"inserted", "retired"} =>
                  fresh[x].key # fresh[w].key

RotationInv ==
    /\ HoldsItsLock
    /\ RotatesWhatItRead
    /\ NoReplacementStands
    /\ CurrentIsRetired
    /\ NamedIsMinted
    /\ FreshIsHidden

\* Whenever revoke() would return without writing, because its instance says
\* the key is already revoked, the stored key is indeed inactive (or deleted).
\* True only as long as nothing brings keys back and no UPDATE fails.
EarlyReturnIsSafe ==
    \A w \in Workers :
        Ready(w) /\ AlreadyRevoked(self[w].row) /\ Exists(self[w].key) =>
            ~rows[self[w].key].is_active

Commits(w) == pc[w] = "retired" /\ pc'[w] = "idle" /\ rows' # rows

\* "A grace period never extends a key's life": the key that a committing
\* rotation replaces does not become valid at any instant, present or future,
\* at which it was not, even if others used the key since rotate() was called.
RotationNeverExtendsLife ==
    [][\A w \in Workers : Commits(w) =>
         LET k == self[w].key
         IN  \A t \in now .. MaxTime :
               IsValid(rows'[k], t) => IsValid(rows[k], t)]_vars

DeadAt(k) == Exists(k) /\ ~IsLive(k)

\* Revocation and expiry are permanent until an explicit reactivate() or a
\* saved form: no rotation, revocation or deletion, however stale the instance
\* it works from, makes an inactive or expired key work again.
OnlyRestorersRestore ==
    [][\A k \in Keys :
         DeadAt(k) /\ IsLive(k)' =>
            \E w \in Workers : /\ pc[w] \in {"reactivate", "admin"}
                               /\ pc'[w] = "idle"
                               /\ self[w].key = k]_vars

\* revoke() is "idempotent": a call on a key that is revoked when the UPDATE
\* runs leaves the date and the reason of the first revocation alone.
RevocationRecordKept ==
    [][\A k \in Keys :
         /\ Exists(k) /\ AlreadyRevoked(rows[k])
         /\ Exists(k)' /\ AlreadyRevoked(rows'[k])
         => rows'[k] = rows[k]]_vars

\* revoke() acts "immediately and permanently", until an explicit
\* reactivate(): a key once inactive stays so where nobody reactivates keys
\* and nobody touches the active box of a form.
InactiveStaysInactive ==
    [][\A k \in Keys :
         Exists(k) /\ Exists(k)' /\ rows'[k].is_active
            => rows[k].is_active]_vars

\* The operations never wait for each other for ever: whoever has begun a call
\* gets to its end, through any contention for the row locks.
EveryCallReturns ==
    \A w \in Workers : pc[w] # "idle" ~> pc[w] = "idle"
-----------------------------------------------------------------------------
(* What KeyLifecycle implements *)

Store == INSTANCE KeyStore
           WITH Forms <- Operations \cap {"edit", "toggle", "extend"} # {}

\* What a reader of the table sees of overlapping calls is what the atomic
\* operations of KeyStore would have shown: every step of every call is one of
\* them or changes nothing visible.
ImplementsKeyStore == Store!Spec
=============================================================================
