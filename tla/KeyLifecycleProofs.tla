------------------------- MODULE KeyLifecycleProofs -------------------------
(***************************************************************************)
(* The theorems about KeyLifecycle, for any sets of keys and workers, any  *)
(* choice of enabled operations and any bound on the clock: the types, and *)
(* what a pending statement may write to a revoked row; that rotate()      *)
(* never leaves a key with two live replacements, however its statements   *)
(* interleave with the others'; that every statement is an operation of    *)
(* KeyStore, or changes nothing that a reader of the table can see; and    *)
(* which steps can bring a dead key back.                                  *)
(***************************************************************************)
EXTENDS KeyLifecycle, KeyRowProofs

\* The clock only shows natural numbers.
LEMMA ClockIsNat ==
    ASSUME TypeOK
    PROVE  now \in Nat /\ now \in Instant
BY LifecycleAssumption DEF TypeOK, Instant

\* Writing one row of the right type keeps the table's type.
LEMMA WriteType ==
    ASSUME TypeOK, NEW k \in Keys, NEW row \in Row, Write(k, row)
    PROVE  /\ now' \in 0 .. MaxTime
           /\ rows' \in [Keys -> Row \cup {NULL}]
           /\ restored' \subseteq Keys
BY DEF TypeOK, Write

\* Leaving rotate()'s transaction keeps the types of the lock table and of the
\* worker's registers.
LEMMA EndTxnType ==
    ASSUME TypeOK, NEW w \in Workers, EndTxn(w)
    PROVE  /\ lock' \in [Keys -> Workers \cup {NULL}]
           /\ pc' \in [Workers -> Locations]
           /\ grace' \in [Workers -> (Nat \ {0}) \cup {NULL}]
           /\ current' \in [Workers -> Row \cup {NULL}]
           /\ fresh' \in [Workers -> Instance \cup {NULL}]
           /\ pc' = [pc EXCEPT ![w] = "idle"]
           /\ \A x \in Workers \ {w} : current'[x] = current[x] /\ fresh'[x] = fresh[x]
BY DEF TypeOK, EndTxn, Goto, Locations

\* Every step keeps the types, provided that the row a rotation is about to
\* commit is still there.
LEMMA TypeStep == TypeOK /\ HoldsItsLock /\ [Next]_vars => TypeOK'
<1> SUFFICES ASSUME TypeOK, HoldsItsLock, [Next]_vars
             PROVE  TypeOK'
  OBVIOUS
<1> USE RowAssumption, LifecycleAssumption, ClockIsNat
<1>1. CASE UNCHANGED vars
  BY <1>1 DEF TypeOK, vars
<1>2. CASE Tick
  BY <1>2 DEF TypeOK, Tick, Elapse, Locations, Calling, InTxn
<1>3. ASSUME NEW k \in Keys, Delete(k)
      PROVE  TypeOK'
  <2>1. rows' \in [Keys -> Row \cup {NULL}]
    BY <1>3 DEF TypeOK, Delete, DeleteRow, Forget, Exists, Row
  <2> QED
    BY <1>3, <2>1 DEF TypeOK, Delete, DeleteRow
<1>4. ASSUME NEW w \in Workers, Call(w)
      PROVE  TypeOK'
  <2>1. ASSUME NEW k \in Keys, Load(w, k)
        PROVE  TypeOK'
    BY <2>1 DEF TypeOK, Load, Locally, Hold, Instance, Exists
  <2>2. ASSUME NEW k \in Keys, NEW active \in BOOLEAN, NEW e \in Lifespans,
               GenerateKey(w, k, active, e)
        PROVE  TypeOK'
    <3>1. NewRow(active, e, NULL) \in Row
      BY NewRowType DEF Lifespans, Instant
    <3> QED
      BY <2>2, <3>1 DEF TypeOK, GenerateKey, Hold, Instance, txnVars
  <2>3. ASSUME NEW row \in Row, Ready(w), Hold(w, self[w].key, row), Locally,
               \E l \in Calling : Goto(w, l)
        PROVE  TypeOK'
    <3>1. [key |-> self[w].key, row |-> row] \in Instance
      BY <2>3 DEF TypeOK, Ready, Instance
    <3>2. PICK l \in Calling : Goto(w, l)
      BY <2>3
    <3> QED
      BY <2>3, <3>1, <3>2 DEF TypeOK, Hold, Locally, Goto, Locations, Calling,
                              InTxn
  <2>4. ASSUME NEW reason \in CallerReasons, BeginRevoke(w, reason)
        PROVE  TypeOK'
    <3>1. Ready(w) /\ self[w].row \in Row
      BY <2>4 DEF BeginRevoke, Ready, TypeOK, Instance
    <3>2. Revoked(self[w].row, now, reason) \in Row
      BY <3>1, RevokedType DEF Reasons
    <3> QED
      BY <2>3, <2>4, <3>1, <3>2 DEF BeginRevoke, Calling
  <2>5. CASE RevokeSelected(w)
    <3>1. Ready(w) /\ self[w].row \in Row
      BY <2>5 DEF RevokeSelected, Ready, TypeOK, Instance
    <3>2. Revoked(self[w].row, now, "revoked via admin") \in Row
      BY <3>1, RevokedType DEF Reasons
    <3> QED
      BY <2>3, <2>5, <3>1, <3>2 DEF RevokeSelected, Calling
  <2>6. CASE BeginReactivate(w)
    <3>1. Ready(w) /\ self[w].row \in Row
      BY <2>6 DEF BeginReactivate, Ready, TypeOK, Instance
    <3>2. Reactivated(self[w].row) \in Row
      BY <3>1, ReactivatedType
    <3> QED
      BY <2>3, <2>6, <3>1, <3>2 DEF BeginReactivate, Calling
  <2>7. CASE AdminPost(w)
    <3>1. Ready(w) /\ self[w].row \in Row /\ self[w].key \in Keys
      BY <2>7 DEF AdminPost, Ready, TypeOK, Instance
    <3>2. rows[self[w].key] \in Row
      BY <2>7, <3>1 DEF AdminPost, TypeOK, Exists
    <3>3. PICK box \in BOOLEAN,
               expiry \in {self[w].row.expires_at} \cup Lifespans :
            Hold(w, self[w].key, FormApplied(rows[self[w].key], box, expiry, now))
      BY <2>7 DEF AdminPost
    <3>4. expiry \in Instant
      BY <3>1, <3>3 DEF Row, Lifespans, Instant
    <3>5. FormApplied(rows[self[w].key], box, expiry, now) \in Row
      BY <3>2, <3>4, FormAppliedType
    <3> QED
      BY <2>3, <2>7, <3>1, <3>3, <3>5 DEF AdminPost, Calling
  <2>8. ASSUME NEW g \in Graces \cup {NULL}, BeginRotate(w, g)
        PROVE  TypeOK'
    <3>1. g \in (Nat \ {0}) \cup {NULL}
      BY <2>8 DEF BeginRotate
    <3> QED
      BY <2>8, <3>1 DEF TypeOK, BeginRotate, Ready, Goto, Locations, InTxn
  <2> QED
    BY <1>4, <2>1, <2>2, <2>4, <2>5, <2>6, <2>7, <2>8 DEF Call
<1>5. ASSUME NEW w \in Workers, Update(w)
      PROVE  TypeOK'
  <2> DEFINE k == self[w].key
  <2>1. pc[w] \in Calling
    BY <1>5 DEF Update, SaveUpdateFields, SaveAllFields, SaveFails, Calling
  <2>2. k \in Keys /\ self[w].row \in Row
    BY <2>1 DEF TypeOK, Calling, Instance
  <2>3. ASSUME NEW row \in Row, Write(k, row), Goto(w, "idle"),
               UNCHANGED <<minted, self, txnVars>>
        PROVE  TypeOK'
    BY <2>2, <2>3, WriteType
       DEF TypeOK, Goto, txnVars, Locations, InTxn
  <2>4. CASE SaveUpdateFields(w)
    <3>1. rows[k] \in Row
      BY <2>2, <2>4 DEF SaveUpdateFields, TypeOK, Exists
    <3>2. SaveLifecycle(rows[k], self[w].row) \in Row
      BY <2>2, <3>1, SaveLifecycleType
    <3> QED
      BY <2>3, <2>4, <3>2 DEF SaveUpdateFields
  <2>5. CASE SaveAllFields(w)
    BY <2>2, <2>3, <2>5 DEF SaveAllFields
  <2>6. CASE SaveFails(w)
    BY <2>6 DEF SaveFails, TypeOK, Goto, Locally, Locations, InTxn
  <2> QED
    BY <1>5, <2>4, <2>5, <2>6 DEF Update
<1>6. ASSUME NEW w \in Workers, Rotation(w)
      PROVE  TypeOK'
  <2> DEFINE k == self[w].key
  <2>1. pc[w] \in InTxn \cup {"rotate"}
    BY <1>6 DEF Rotation, RotateProgress, RotateLock, RotateRefused, RotateCheck,
                RotateConflict, RotateInsert, RotateRetire, RotateCommit,
                RotateAbort, RotateExhausted, InTxn
  <2>2. k \in Keys /\ self[w].row \in Row
    BY <2>1 DEF TypeOK, InTxn, Instance
  <2>3. ASSUME EndTxn(w), UNCHANGED <<now, rows, restored, minted, self>>
        PROVE  TypeOK'
    BY <2>3, EndTxnType DEF TypeOK, InTxn
  <2>4. CASE RotateLock(w)
    <3>1. rows[k] \in Row
      BY <2>2, <2>4 DEF RotateLock, TypeOK, IsLive, Exists
    <3> QED
      BY <2>2, <2>4, <3>1 DEF RotateLock, TypeOK, Goto, Locations, InTxn
  <2>5. CASE RotateRefused(w)
    BY <2>3, <2>5 DEF RotateRefused
  <2>6. CASE RotateCheck(w)
    BY <2>6 DEF RotateCheck, TypeOK, Goto, Locally, Locations, InTxn
  <2>7. CASE RotateConflict(w)
    BY <2>3, <2>7 DEF RotateConflict
  <2>8. ASSUME NEW n \in Keys, RotateInsert(w, n)
        PROVE  TypeOK'
    <3>1. current[w] \in Row
      BY <2>8 DEF RotateInsert, TypeOK, InTxn
    <3>2. PICK expiry \in {current[w].expires_at} \cup Lifespans :
            fresh' = [fresh EXCEPT ![w] = [key |-> n, row |-> NewRow(TRUE, expiry, k)]]
      BY <2>8 DEF RotateInsert
    <3>3. expiry \in Instant
      BY <3>1, <3>2 DEF Row, Lifespans, Instant
    <3>4. NewRow(TRUE, expiry, k) \in Row
      BY <2>2, <3>3, NewRowType
    <3>5. [key |-> n, row |-> NewRow(TRUE, expiry, k)] \in Instance
      BY <3>4 DEF Instance
    <3> QED
      BY <2>8, <3>2, <3>5 DEF RotateInsert, TypeOK, Goto, Locations, InTxn
  <2>9. CASE RotateRetire(w)
    <3>1. current[w] \in Row
      BY <2>9 DEF RotateRetire, TypeOK, InTxn
    <3>2. Retired(current[w], now, grace[w]) \in Row
      BY <3>1, RetiredType DEF TypeOK
    <3> QED
      BY <2>9, <3>2 DEF RotateRetire, TypeOK, Goto, Locations, InTxn
  <2>10. CASE RotateCommit(w)
    <3>1. self[w] \in Instance /\ current[w] \in Row /\ fresh[w] \in Instance
      BY <2>10 DEF RotateCommit, TypeOK, InTxn
    <3>2. \A row \in Row : Synced(row, current[w]) \in Row
      BY <3>1, SyncedType
    <3>3. rows[k] \in Row
      BY <2>2, <2>10 DEF RotateCommit, HoldsItsLock, TypeOK, Exists, InTxn
    <3>4. Synced(rows[k], current[w]) \in Row /\ fresh[w].row \in Row
      BY <3>1, <3>2, <3>3 DEF Instance
    <3>5. rows' \in [Keys -> Row \cup {NULL}]
      BY <2>10, <3>4 DEF RotateCommit, TypeOK
    <3>6. [key |-> k, row |-> Synced(self[w].row, current[w])] \in Instance
      BY <2>2, <3>2 DEF Instance
    <3>7. self' \in [Workers -> Instance \cup {NULL}]
      BY <2>10, <3>6 DEF RotateCommit, Hold, TypeOK
    <3>8. /\ EndTxn(w)
          /\ UNCHANGED <<now, restored, minted>>
          /\ \A x \in Workers \ {w} : self'[x] = self[x]
      BY <2>10 DEF RotateCommit, Hold, TypeOK
    <3> QED
      BY <3>5, <3>7, <3>8, EndTxnType DEF TypeOK, InTxn
  <2>11. CASE RotateAbort(w) \/ RotateExhausted(w)
    BY <2>3, <2>11 DEF RotateAbort, RotateExhausted
  <2> QED
    BY <1>6, <2>4, <2>5, <2>6, <2>7, <2>8, <2>9, <2>10, <2>11 DEF Rotation, RotateProgress
<1> QED
  BY <1>1, <1>2, <1>3, <1>4, <1>5, <1>6 DEF Next

\* Rotations keep the locks they took, and nobody deletes a locked row.
LEMMA LockStep == TypeOK /\ HoldsItsLock /\ [Next]_vars => HoldsItsLock'
<1> SUFFICES ASSUME TypeOK, HoldsItsLock, [Next]_vars
             PROVE  HoldsItsLock'
  OBVIOUS
<1> USE RowAssumption, LifecycleAssumption
<1>1. ASSUME UNCHANGED <<lock, pc, self>>, \A k \in Keys : lock[k] # NULL /\ Exists(k) => Exists(k)'
      PROVE  HoldsItsLock'
  BY <1>1 DEF HoldsItsLock, TypeOK, Instance, InTxn, Exists
<1>2. CASE UNCHANGED vars
  BY <1>1, <1>2 DEF vars, Exists
<1>3. CASE Tick
  BY <1>1, <1>3 DEF Tick, Elapse, Exists
<1>4. ASSUME NEW k \in Keys, Delete(k)
      PROVE  HoldsItsLock'
  <2>1. ASSUME NEW n \in Keys, lock[n] # NULL, Exists(n)
        PROVE  Exists(n)'
    BY <1>4, <2>1 DEF Delete, DeleteRow, Forget, Exists, TypeOK
  <2> QED
    BY <1>1, <1>4, <2>1 DEF Delete
\* A worker outside the transaction, before and after, leaves it to the others.
<1>5. ASSUME NEW w \in Workers, pc'[w] \notin InTxn, 
             \A x \in Workers \ {w} : pc'[x] = pc[x] /\ self'[x] = self[x],
             \A k \in Keys : lock[k] # w => lock'[k] = lock[k],
             \A k \in Keys : Exists(k) => Exists(k)'
      PROVE  HoldsItsLock'
  BY <1>5 DEF HoldsItsLock, TypeOK, Instance, InTxn
<1>6. ASSUME NEW w \in Workers, Call(w)
      PROVE  HoldsItsLock'
  <2>1. /\ pc'[w] \notin InTxn
        /\ \A x \in Workers \ {w} : pc'[x] = pc[x] /\ self'[x] = self[x]
        /\ lock' = lock
    BY <1>6 DEF Call, Load, GenerateKey, BeginRevoke, RevokeSelected,
                BeginReactivate, AdminPost, BeginRotate, Locally, txnVars,
                Goto, Hold, TypeOK, InTxn
  <2>2. ASSUME NEW k \in Keys, NEW active \in BOOLEAN, NEW e \in Lifespans,
               GenerateKey(w, k, active, e), NEW n \in Keys, Exists(n)
        PROVE  Exists(n)'
    <3>1. NewRow(active, e, NULL) # NULL
      BY NewRowType DEF Lifespans, Instant
    <3> QED
      BY <2>2, <3>1 DEF GenerateKey, Exists, TypeOK
  <2>3. \A k \in Keys : Exists(k) => Exists(k)'
    BY <1>6, <2>2 DEF Call, Load, BeginRevoke, RevokeSelected,
                      BeginReactivate, AdminPost, BeginRotate, Locally, Exists
  <2> QED
    BY <1>5, <2>1, <2>3
<1>7. ASSUME NEW w \in Workers, Update(w)
      PROVE  HoldsItsLock'
  <2>1. /\ pc'[w] \notin InTxn
        /\ \A x \in Workers \ {w} : pc'[x] = pc[x] /\ self'[x] = self[x]
        /\ lock' = lock
    BY <1>7 DEF Update, SaveUpdateFields, SaveAllFields, SaveFails, Locally,
                txnVars, Goto, TypeOK, InTxn
  <2>2. ASSUME NEW k \in Keys, Exists(k)
        PROVE  Exists(k)'
    <3>1. self[w].row \in Row
      BY <1>7 DEF Update, SaveUpdateFields, SaveAllFields, SaveFails, TypeOK,
                  Instance, Calling
    <3>2. ASSUME Exists(self[w].key), self[w].key \in Keys
          PROVE  SaveLifecycle(rows[self[w].key], self[w].row) # NULL
      BY <3>1, <3>2, SaveLifecycleType DEF TypeOK, Exists
    <3>3. self[w].key \in Keys
      BY <1>7 DEF Update, SaveUpdateFields, SaveAllFields, SaveFails, TypeOK,
                  Instance, Calling
    <3>4. CASE SaveUpdateFields(w)
      BY <2>2, <3>2, <3>3, <3>4 DEF SaveUpdateFields, Write, Exists, TypeOK
    <3>5. CASE SaveAllFields(w)
      BY <2>2, <3>1, <3>3, <3>5 DEF SaveAllFields, Write, Exists, TypeOK
    <3>6. CASE SaveFails(w)
      BY <2>2, <3>6 DEF SaveFails, Locally, Exists
    <3> QED
      BY <1>7, <3>4, <3>5, <3>6 DEF Update
  <2> QED
    BY <1>5, <2>1, <2>2
<1>8. ASSUME NEW w \in Workers, Rotation(w)
      PROVE  HoldsItsLock'
  <2>1. ASSUME EndTxn(w), \A x \in Workers \ {w} : self'[x] = self[x],
               \A k \in Keys : Exists(k) => Exists(k)'
        PROVE  HoldsItsLock'
    BY <1>5, <2>1 DEF EndTxn, Goto, TypeOK, InTxn
  <2>2. ASSUME RotateRefused(w) \/ RotateConflict(w) \/ RotateAbort(w)
           \/ RotateExhausted(w)
        PROVE  HoldsItsLock'
    BY <2>1, <2>2 DEF RotateRefused, RotateConflict, RotateAbort, RotateExhausted, Exists
  <2>3. CASE RotateLock(w)
    <3>1. self[w].key \in Keys /\ IsLive(self[w].key)
      BY <2>3 DEF RotateLock, TypeOK, Instance
    <3>2. lock' = [lock EXCEPT ![self[w].key] = w] /\ lock[self[w].key] = NULL
      BY <2>3 DEF RotateLock
    <3>3. UNCHANGED <<rows, self>> /\ pc' = [pc EXCEPT ![w] = "locked"]
      BY <2>3 DEF RotateLock, Goto
    <3> QED
      BY <3>1, <3>2, <3>3
         DEF HoldsItsLock, TypeOK, Instance, InTxn, IsLive, Exists
  <2>4. ASSUME UNCHANGED <<rows, lock, self>>, pc[w] \in InTxn,
               \E l \in InTxn : Goto(w, l)
        PROVE  HoldsItsLock'
    BY <2>4 DEF HoldsItsLock, TypeOK, InTxn, Goto, Exists
  <2>5. ASSUME \/ RotateCheck(w)
               \/ \E n \in Keys : RotateInsert(w, n)
               \/ RotateRetire(w)
        PROVE  HoldsItsLock'
    BY <2>4, <2>5 DEF RotateCheck, RotateInsert, RotateRetire, Locally, InTxn
  <2>6. CASE RotateCommit(w)
    <3>1. current[w] \in Row /\ fresh[w] \in Instance
      BY <2>6 DEF RotateCommit, TypeOK, InTxn
    <3>2. ASSUME NEW k \in Keys, Exists(k)
          PROVE  Exists(k)'
      <4>1. rows[k] \in Row /\ fresh[w].row \in Row
        BY <3>1, <3>2 DEF TypeOK, Exists, Instance
      <4>2. Synced(rows[k], current[w]) \in Row
        BY <3>1, <4>1, SyncedType
      <4> QED
        BY <2>6, <4>1, <4>2, <3>2 DEF RotateCommit, TypeOK, Exists
    <3>3. EndTxn(w) /\ \A x \in Workers \ {w} : self'[x] = self[x]
      BY <2>6 DEF RotateCommit, Hold, TypeOK
    <3> QED
      BY <2>1, <3>2, <3>3
  <2> QED
    BY <1>8, <2>2, <2>3, <2>5, <2>6 DEF Rotation, RotateProgress
<1> QED
  BY <1>2, <1>3, <1>4, <1>6, <1>7, <1>8 DEF Next

\* The types and the locks hold at the start.
LEMMA TypeInit == Init => TypeOK /\ HoldsItsLock
BY LifecycleAssumption DEF Init, TableInit, TypeOK, HoldsItsLock, Locations, InTxn

\* The types and the locks hold in every reachable state.
LEMMA TypeInvariant == Spec => [](TypeOK /\ HoldsItsLock)
BY TypeInit, TypeStep, LockStep, PTL DEF Spec

\* TypeOK holds in every reachable state: the variables keep their types, and
\* no rotation commits over a row that has gone.
THEOREM TypeCorrect == Spec => []TypeOK
BY TypeInvariant, PTL

-----------------------------------------------------------------------------
(* ActiveIsUnrevoked *)

\* Inductive because the promise extends to every copy of a row that a later
\* statement may write back: the workers' instances, the row a rotation has
\* locked, and the replacement it has not yet committed.
CopiesUnrevoked ==
    /\ ActiveIsUnrevoked
    /\ \A w \in Workers :
         /\ self[w] # NULL => Unrevoked(self[w].row)
         /\ current[w] # NULL => Unrevoked(current[w])
         /\ fresh[w] # NULL => Unrevoked(fresh[w].row)

\* Every function that makes a row out of rows keeps the promise.
LEMMA UnrevokedRows ==
    ASSUME NEW row \in Row, Unrevoked(row), NEW t \in Nat
    PROVE  /\ \A active \in BOOLEAN, e \in Instant, k \in Keys \cup {NULL} :
                 Unrevoked(NewRow(active, e, k))
           /\ \A reason \in Reasons : Unrevoked(Revoked(row, t, reason))
           /\ Unrevoked(Reactivated(row))
           /\ \A g \in (Nat \ {0}) \cup {NULL} : Unrevoked(Retired(row, t, g))
           /\ \A box \in BOOLEAN, e \in Instant :
                 Unrevoked(FormApplied(row, box, e, t))
           /\ \A stored \in Row : Unrevoked(SaveLifecycle(stored, row))
<1>1. \A active \in BOOLEAN, e \in Instant, k \in Keys \cup {NULL} :
        Unrevoked(NewRow(active, e, k))
  BY DEF Unrevoked, NewRow
<1>2. \A reason \in Reasons : Unrevoked(Revoked(row, t, reason))
  BY DEF Unrevoked, Revoked, Row
<1>3. Unrevoked(Reactivated(row))
  BY DEF Unrevoked, Reactivated, Row
<1>4. ASSUME NEW g \in (Nat \ {0}) \cup {NULL}
      PROVE  Unrevoked(Retired(row, t, g))
  BY <1>2 DEF Unrevoked, Retired, Row, Revoked
<1>5. ASSUME NEW box \in BOOLEAN, NEW e \in Instant
      PROVE  Unrevoked(FormApplied(row, box, e, t))
  BY DEF Unrevoked, FormApplied, Row, Reactivated, Revoked
<1>6. \A stored \in Row : Unrevoked(SaveLifecycle(stored, row))
  BY DEF Unrevoked, SaveLifecycle, Row
<1> QED
  BY <1>1, <1>2, <1>3, <1>4, <1>5, <1>6

\* No statement of any call stores, copies or prepares a row that is active
\* but carries a record of a revocation.
LEMMA UnrevokedStep ==
    TypeOK /\ HoldsItsLock /\ CopiesUnrevoked /\ [Next]_vars => CopiesUnrevoked'
<1> SUFFICES ASSUME TypeOK, HoldsItsLock, CopiesUnrevoked, [Next]_vars
             PROVE  CopiesUnrevoked'
  OBVIOUS
<1> USE RowAssumption, LifecycleAssumption, ClockIsNat
<1>1. ASSUME UNCHANGED <<rows, self, current, fresh>>
      PROVE  CopiesUnrevoked'
  BY <1>1 DEF CopiesUnrevoked, ActiveIsUnrevoked, Exists
<1>2. ASSUME NEW k \in Keys, Delete(k)
      PROVE  CopiesUnrevoked'
  <2>1. ASSUME NEW n \in Keys, Exists(n)'
        PROVE  Unrevoked(rows'[n])
    <3>1. /\ n # k /\ Exists(n)
          /\ rows'[n] = IF rows[n].rotated_from = k
                        THEN [rows[n] EXCEPT !.rotated_from = NULL]
                        ELSE rows[n]
      BY <1>2, <2>1 DEF Delete, DeleteRow, Forget, Exists
    <3>2. rows[n] \in Row /\ Unrevoked(rows[n])
      BY <3>1 DEF TypeOK, Exists, CopiesUnrevoked, ActiveIsUnrevoked
    <3> QED
      BY <3>1, <3>2 DEF Unrevoked, Row
  <2> QED
    BY <1>2, <2>1 DEF Delete, CopiesUnrevoked, ActiveIsUnrevoked
<1>3. ASSUME NEW w \in Workers, Call(w)
      PROVE  CopiesUnrevoked'
  <2>1. ASSUME NEW k, NEW row, Unrevoked(row), Hold(w, k, row), Locally
        PROVE  CopiesUnrevoked'
    BY <2>1 DEF Hold, Locally, CopiesUnrevoked, ActiveIsUnrevoked, Exists, TypeOK
  <2>2. ASSUME NEW k \in Keys, Load(w, k)
        PROVE  CopiesUnrevoked'
    BY <2>1, <2>2 DEF Load, CopiesUnrevoked, ActiveIsUnrevoked
  <2>3. ASSUME NEW k \in Keys, NEW active \in BOOLEAN, NEW e \in Lifespans,
               GenerateKey(w, k, active, e)
        PROVE  CopiesUnrevoked'
    <3>1. Unrevoked(NewRow(active, e, NULL))
      BY DEF Unrevoked, NewRow
    <3> QED
      BY <2>3, <3>1 DEF GenerateKey, Hold, txnVars, CopiesUnrevoked,
                        ActiveIsUnrevoked, Exists, TypeOK
  <2>4. ASSUME Ready(w)
        PROVE  self[w].row \in Row /\ Unrevoked(self[w].row)
    BY <2>4 DEF Ready, TypeOK, Instance, CopiesUnrevoked
  <2>5. ASSUME NEW reason \in CallerReasons, BeginRevoke(w, reason)
        PROVE  CopiesUnrevoked'
    BY <2>1, <2>4, <2>5, UnrevokedRows DEF BeginRevoke, Reasons
  <2>6. CASE RevokeSelected(w)
    BY <2>1, <2>4, <2>6, UnrevokedRows DEF RevokeSelected, Reasons
  <2>7. CASE BeginReactivate(w)
    BY <2>1, <2>4, <2>7, UnrevokedRows DEF BeginReactivate
  <2>8. CASE AdminPost(w)
    <3>1. self[w].key \in Keys /\ self[w].row \in Row
      BY <2>8 DEF AdminPost, Ready, TypeOK, Instance
    <3>2. rows[self[w].key] \in Row /\ Unrevoked(rows[self[w].key])
      BY <2>8, <3>1 DEF AdminPost, TypeOK, Exists, CopiesUnrevoked,
                        ActiveIsUnrevoked
    <3>3. PICK box \in BOOLEAN,
               expiry \in {self[w].row.expires_at} \cup Lifespans :
            Hold(w, self[w].key, FormApplied(rows[self[w].key], box, expiry, now))
      BY <2>8 DEF AdminPost
    <3>4. expiry \in Instant
      BY <3>1, <3>3 DEF Row, Lifespans, Instant
    <3>5. Unrevoked(FormApplied(rows[self[w].key], box, expiry, now))
      BY <3>2, <3>4, UnrevokedRows
    <3> QED
      BY <2>1, <2>8, <3>3, <3>5 DEF AdminPost
  <2>9. ASSUME NEW g \in Graces \cup {NULL}, BeginRotate(w, g)
        PROVE  CopiesUnrevoked'
    BY <1>1, <2>9 DEF BeginRotate
  <2> QED
    BY <1>3, <2>2, <2>3, <2>5, <2>6, <2>7, <2>8, <2>9 DEF Call
<1>4. ASSUME NEW w \in Workers, Update(w)
      PROVE  CopiesUnrevoked'
  <2>1. /\ self[w].key \in Keys
        /\ self[w].row \in Row
        /\ Unrevoked(self[w].row)
    BY <1>4 DEF Update, SaveUpdateFields, SaveAllFields, SaveFails, TypeOK,
                Instance, Calling, CopiesUnrevoked
  <2>2. ASSUME NEW row, Unrevoked(row), Write(self[w].key, row),
               UNCHANGED <<self, txnVars>>
        PROVE  CopiesUnrevoked'
    BY <2>1, <2>2 DEF Write, txnVars, CopiesUnrevoked, ActiveIsUnrevoked,
                      Exists, TypeOK
  <2>3. CASE SaveUpdateFields(w)
    <3>1. rows[self[w].key] \in Row
      BY <2>1, <2>3 DEF SaveUpdateFields, TypeOK, Exists
    <3> QED
      BY <2>1, <2>2, <2>3, <3>1, UnrevokedRows DEF SaveUpdateFields
  <2>4. CASE SaveAllFields(w)
    BY <2>1, <2>2, <2>4 DEF SaveAllFields
  <2>5. CASE SaveFails(w)
    BY <1>1, <2>5 DEF SaveFails, Locally
  <2> QED
    BY <1>4, <2>3, <2>4, <2>5 DEF Update
<1>5. ASSUME NEW w \in Workers, Rotation(w)
      PROVE  CopiesUnrevoked'
  <2>1. ASSUME EndTxn(w), UNCHANGED <<rows, self>>
        PROVE  CopiesUnrevoked'
    BY <2>1 DEF EndTxn, CopiesUnrevoked, ActiveIsUnrevoked, Exists, TypeOK
  <2>2. ASSUME RotateRefused(w) \/ RotateConflict(w) \/ RotateAbort(w)
           \/ RotateExhausted(w)
        PROVE  CopiesUnrevoked'
    BY <2>1, <2>2 DEF RotateRefused, RotateConflict, RotateAbort, RotateExhausted
  <2>3. CASE RotateLock(w)
    <3>1. self[w].key \in Keys /\ Exists(self[w].key)
      BY <2>3 DEF RotateLock, TypeOK, Instance, IsLive
    <3> QED
      BY <2>3, <3>1 DEF RotateLock, CopiesUnrevoked, ActiveIsUnrevoked, Exists,
                        TypeOK
  <2>4. CASE RotateCheck(w)
    BY <1>1, <2>4 DEF RotateCheck, Locally
  <2>5. ASSUME NEW n \in Keys, RotateInsert(w, n)
        PROVE  CopiesUnrevoked'
    <3>1. PICK e \in {current[w].expires_at} \cup Lifespans :
            fresh' = [fresh EXCEPT ![w] =
                        [key |-> n, row |-> NewRow(TRUE, e, self[w].key)]]
      BY <2>5 DEF RotateInsert
    <3>2. Unrevoked(NewRow(TRUE, e, self[w].key))
      BY DEF Unrevoked, NewRow
    <3>3. UNCHANGED <<rows, self, current>>
      BY <2>5 DEF RotateInsert
    <3> QED
      BY <3>1, <3>2, <3>3 DEF CopiesUnrevoked, ActiveIsUnrevoked, Exists, TypeOK
  <2>6. CASE RotateRetire(w)
    <3>1. current[w] \in Row /\ Unrevoked(current[w])
      BY <2>6 DEF RotateRetire, TypeOK, InTxn, CopiesUnrevoked
    <3>2. Unrevoked(Retired(current[w], now, grace[w]))
      BY <3>1, UnrevokedRows DEF TypeOK
    <3> QED
      BY <2>6, <3>2 DEF RotateRetire, CopiesUnrevoked, ActiveIsUnrevoked,
                        Exists, TypeOK
  <2>7. CASE RotateCommit(w)
    <3> DEFINE k == self[w].key
    <3>1. /\ k \in Keys /\ self[w].row \in Row /\ rows[k] \in Row
          /\ current[w] \in Row /\ Unrevoked(current[w])
          /\ fresh[w] \in Instance /\ Unrevoked(fresh[w].row)
      BY <2>7 DEF RotateCommit, TypeOK, InTxn, Instance, CopiesUnrevoked,
                  HoldsItsLock, Exists
    <3>2. ASSUME NEW row \in Row
          PROVE  Unrevoked(Synced(row, current[w]))
      BY <3>1 DEF Unrevoked, Synced, SaveLifecycle, Row
    <3>3. Unrevoked(Synced(rows[k], current[w])) /\ Unrevoked(Synced(self[w].row, current[w]))
      BY <3>1, <3>2
    <3>4. /\ rows' = [rows EXCEPT ![k] = Synced(rows[k], current[w]),
                                  ![fresh[w].key] = fresh[w].row]
          /\ self' = [self EXCEPT ![w] = [key |-> k, row |-> Synced(self[w].row, current[w])]]
          /\ EndTxn(w)
      BY <2>7 DEF RotateCommit, Hold
    <3>5. ActiveIsUnrevoked'
      BY <3>1, <3>3, <3>4 DEF CopiesUnrevoked, ActiveIsUnrevoked, Exists, TypeOK
    <3>6. ASSUME NEW x \in Workers, self'[x] # NULL
          PROVE  Unrevoked(self'[x].row)
      BY <3>3, <3>4, <3>6 DEF CopiesUnrevoked, TypeOK
    <3> QED
      BY <3>4, <3>5, <3>6 DEF CopiesUnrevoked, EndTxn, TypeOK
  <2> QED
    BY <1>5, <2>2, <2>3, <2>4, <2>5, <2>6, <2>7 DEF Rotation, RotateProgress
<1> QED
  BY <1>1, <1>2, <1>3, <1>4, <1>5 DEF Next, Tick, Elapse, vars

\* No interleaving of calls leaves an active key with a revocation record.
THEOREM ActiveKeysAreUnrevoked == Spec => []ActiveIsUnrevoked
<1>1. Init => CopiesUnrevoked
  BY DEF Init, TableInit, CopiesUnrevoked, ActiveIsUnrevoked, Exists
<1>2. CopiesUnrevoked => ActiveIsUnrevoked
  BY DEF CopiesUnrevoked
<1> QED
  BY <1>1, <1>2, UnrevokedStep, TypeInvariant, PTL DEF Spec

-----------------------------------------------------------------------------
(* One live replacement *)

Registers(w) == <<pc[w], self[w], grace[w], current[w], fresh[w]>>

Moves(w) == Call(w) \/ Update(w) \/ Rotation(w)

\* A worker's step touches no other worker's registers.
LEMMA Frame ==
    ASSUME TypeOK, NEW w \in Workers, Moves(w), NEW x \in Workers \ {w}
    PROVE  Registers(x)' = Registers(x)
<1>1. CASE Call(w)
  BY <1>1 DEF Call, Load, GenerateKey, BeginRevoke, RevokeSelected,
              BeginReactivate, AdminPost, BeginRotate, Locally, Goto, Hold,
              txnVars, TypeOK, Registers
<1>2. CASE Update(w)
  BY <1>2 DEF Update, SaveUpdateFields, SaveAllFields, SaveFails, Locally,
              Goto, txnVars, TypeOK, Registers
<1>3. CASE Rotation(w)
  BY <1>3 DEF Rotation, RotateProgress, RotateLock, RotateRefused, RotateCheck,
              RotateConflict, RotateInsert, RotateRetire, RotateCommit,
              RotateAbort, RotateExhausted, EndTxn,
              Locally, Goto, Hold, TypeOK, Registers
<1> QED
  BY <1>1, <1>2, <1>3 DEF Moves

\* What each call that is neither a rotation nor an UPDATE does to the table.
LEMMA CallRows ==
    ASSUME TypeOK, NEW w \in Workers, Call(w)
    PROVE  /\ UNCHANGED <<now, restored, lock>>
           /\ \/ UNCHANGED <<rows, minted>>
              \/ \E k \in Keys, active \in BOOLEAN, e \in Lifespans :
                   GenerateKey(w, k, active, e)
           /\ pc'[w] \notin InTxn
BY DEF Call, Load, GenerateKey, BeginRevoke, RevokeSelected, BeginReactivate,
       AdminPost, BeginRotate, Locally, Goto, TypeOK, InTxn, txnVars

\* An UPDATE writes at most the row its instance names, and only if nobody has
\* that row locked.
LEMMA UpdateRows ==
    ASSUME TypeOK, NEW w \in Workers, Update(w)
    PROVE  /\ self[w] \in Instance
           /\ \/ UNCHANGED <<now, rows, restored>>
              \/ /\ lock[self[w].key] = NULL
                 /\ \E row \in Row : Write(self[w].key, row)
           /\ UNCHANGED <<lock, minted, self>>
           /\ pc'[w] \notin InTxn
<1>1. self[w] \in Instance
  BY DEF Update, SaveUpdateFields, SaveAllFields, SaveFails, TypeOK, Calling
<1>2. CASE SaveUpdateFields(w)
  <2>1. rows[self[w].key] \in Row
    BY <1>1, <1>2 DEF SaveUpdateFields, TypeOK, Exists, Instance
  <2>2. SaveLifecycle(rows[self[w].key], self[w].row) \in Row
    BY <1>1, <2>1, SaveLifecycleType DEF Instance
  <2> QED
    BY <1>1, <1>2, <2>2 DEF SaveUpdateFields, Goto, TypeOK, txnVars, InTxn
<1>3. CASE SaveAllFields(w)
  BY <1>1, <1>3 DEF SaveAllFields, Goto, TypeOK, txnVars, InTxn, Instance
<1>4. CASE SaveFails(w)
  BY <1>1, <1>4 DEF SaveFails, Locally, Goto, TypeOK, InTxn
<1> QED
  BY <1>2, <1>3, <1>4 DEF Update

\* Only the commit of a rotation writes to the table.
LEMMA RotationRows ==
    ASSUME TypeOK, NEW w \in Workers, Rotation(w), ~RotateCommit(w)
    PROVE  UNCHANGED <<now, rows, restored, self>>
BY DEF Rotation, RotateProgress, RotateLock, RotateRefused, RotateCheck, RotateConflict,
       RotateInsert, RotateRetire, RotateAbort, RotateExhausted, Locally

\* What a commit writes: the locked row, retired, and the replacement.
LEMMA CommitRows ==
    ASSUME TypeOK, RotationInv, NEW w \in Workers, RotateCommit(w)
    PROVE  /\ self[w] \in Instance /\ fresh[w] \in Instance
           /\ current[w] \in Row /\ rows[self[w].key] \in Row
           /\ fresh[w].key # self[w].key
           /\ rows'[self[w].key] = Synced(rows[self[w].key], current[w])
           /\ rows'[fresh[w].key] = fresh[w].row
           /\ \A k \in Keys \ {self[w].key, fresh[w].key} : rows'[k] = rows[k]
           /\ UNCHANGED <<now, restored, minted>>
           /\ \A x \in Workers \ {w} : self'[x] = self[x]
           /\ self'[w].key = self[w].key
           /\ self'[w] # NULL
           /\ pc'[w] = "idle"
<1>1. self[w] \in Instance /\ fresh[w] \in Instance /\ current[w] \in Row
  BY DEF RotateCommit, TypeOK, InTxn
<1>2. rows[self[w].key] \in Row
  BY <1>1 DEF RotationInv, HoldsItsLock, RotateCommit, InTxn, TypeOK, Exists,
              Instance
<1>3. fresh[w].key # self[w].key
  BY <1>2, RowAssumption DEF RotationInv, FreshIsHidden, RotateCommit, Exists
<1>4. /\ rows' = [rows EXCEPT ![self[w].key] = Synced(rows[self[w].key], current[w]),
                              ![fresh[w].key] = fresh[w].row]
      /\ self' = [self EXCEPT ![w] =
                    [key |-> self[w].key, row |-> Synced(self[w].row, current[w])]]
      /\ pc' = [pc EXCEPT ![w] = "idle"]
      /\ UNCHANGED <<now, restored, minted>>
  BY DEF RotateCommit, Hold, EndTxn, Goto
<1>5. [key |-> self[w].key, row |-> Synced(self[w].row, current[w])] \in Instance
  <2>1. Synced(self[w].row, current[w]) \in Row
    BY <1>1, SyncedType DEF Instance
  <2> QED
    BY <1>1, <2>1 DEF Instance
<1> QED
  BY <1>1, <1>2, <1>3, <1>4, <1>5, LifecycleAssumption DEF TypeOK, Instance

\* While a rotation holds its row's lock, only its own commit changes the row.
LEMMA LockedRowStays ==
    ASSUME TypeOK, RotationInv, [Next]_vars, NEW x \in Workers,
           pc[x] \in InTxn, ~RotateCommit(x)
    PROVE  rows'[self[x].key] = rows[self[x].key]
<1> DEFINE k == self[x].key
<1> USE RowAssumption, LifecycleAssumption
<1>1. self[x] \in Instance /\ k \in Keys /\ lock[k] = x /\ Exists(k) /\ x # NULL
  BY DEF TypeOK, InTxn, Instance, RotationInv, HoldsItsLock
<1>2. CASE UNCHANGED vars \/ Tick
  BY <1>2 DEF vars, Tick, Elapse
<1>3. ASSUME NEW j \in Keys, Delete(j)
      PROVE  rows'[k] = rows[k]
  <2>1. k # j /\ rows[k].rotated_from # j
    BY <1>1, <1>3 DEF Delete
  <2> QED
    BY <1>1, <1>3, <2>1 DEF Delete, DeleteRow, Forget, Exists
<1>4. ASSUME NEW w \in Workers, Call(w)
      PROVE  rows'[k] = rows[k]
  <2>1. k \in minted
    BY <1>1 DEF RotationInv, NamedIsMinted
  <2> QED
    BY <1>1, <1>4, <2>1, CallRows DEF GenerateKey, TypeOK
<1>5. ASSUME NEW w \in Workers, Update(w)
      PROVE  rows'[k] = rows[k]
  <2>1. CASE UNCHANGED rows
    BY <2>1
  <2>2. CASE lock[self[w].key] = NULL /\ \E row \in Row : Write(self[w].key, row)
    BY <1>1, <2>2 DEF Write, TypeOK
  <2> QED
    BY <1>5, <2>1, <2>2, UpdateRows
<1>6. ASSUME NEW w \in Workers, Rotation(w)
      PROVE  rows'[k] = rows[k]
  <2>1. CASE ~RotateCommit(w)
    BY <1>6, <2>1, RotationRows
  <2>2. CASE RotateCommit(w)
    <3>1. w # x
      BY <2>2
    <3>2. self[w].key # k
      BY <1>1, <2>2, <3>1 DEF RotateCommit, RotationInv, HoldsItsLock, InTxn
    <3>3. fresh[w].key # k
      BY <1>1, <2>2 DEF RotateCommit, RotationInv, FreshIsHidden
    <3> QED
      BY <1>1, <2>2, <3>2, <3>3, CommitRows
  <2> QED
    BY <2>1, <2>2
<1> QED
  BY <1>2, <1>3, <1>4, <1>5, <1>6 DEF Next

-----------------------------------------------------------------------------
(* Which replacements become live *)

\* No key gets a live replacement that it did not have, except restored ones.
NothingRevives ==
    \A k \in Keys : (LiveReplacements(k) \ restored)'
                      \subseteq LiveReplacements(k) \ restored

\* The history records every write that brings a replacement to life.
LEMMA WriteRevivesNothing ==
    ASSUME TypeOK, NEW j \in Keys, NEW row \in Row, Write(j, row)
    PROVE  NothingRevives
<1> SUFFICES ASSUME NEW k \in Keys, NEW n \in Keys,
                    n \in (LiveReplacements(k) \ restored)'
             PROVE  n \in LiveReplacements(k) \ restored
  BY DEF NothingRevives, LiveReplacements
<1>1. n \notin restored /\ n \notin restored'
  BY DEF Write
<1>2. IsLive(n)' /\ rows'[n].rotated_from = k
  BY DEF LiveReplacements
<1>3. CASE n # j
  <2>1. rows'[n] = rows[n] /\ now' = now
    BY <1>3 DEF Write, TypeOK
  <2> QED
    BY <1>1, <1>2, <2>1 DEF LiveReplacements, IsLive, Exists
<1>4. CASE n = j
  <2>1. rows'[n] = row /\ now' = now
    BY <1>4 DEF Write, TypeOK
  <2>2. ~Restores(j, row)
    BY <1>1, <1>4 DEF Write
  <2>3. IsValid(row, now) /\ row.rotated_from = k
    BY <1>2, <2>1 DEF IsLive
  <2> QED
    BY <1>1, <1>4, <2>2, <2>3, RowAssumption
       DEF Restores, LiveReplacements
<1> QED
  BY <1>3, <1>4

\* Every step but a commit leaves no new live replacement behind.
LEMMA OnlyCommitsRevive ==
    ASSUME TypeOK, RotationInv, [Next]_vars, \A w \in Workers : ~RotateCommit(w)
    PROVE  NothingRevives
<1> USE RowAssumption, LifecycleAssumption
<1>1. ASSUME UNCHANGED <<now, rows, restored>>
      PROVE  NothingRevives
  BY <1>1 DEF NothingRevives, LiveReplacements, IsLive, Exists
<1>2. CASE Tick
  <2>1. \A n \in Keys : IsLive(n)' => IsLive(n)
    <3> SUFFICES ASSUME NEW n \in Keys, IsLive(n)'
                 PROVE  IsLive(n)
      OBVIOUS
    <3>1. rows' = rows /\ now' = now + 1 /\ now \in Nat
      BY <1>2, ClockIsNat DEF Tick, Elapse
    <3>2. rows[n] \in Row
      BY <3>1 DEF IsLive, Exists, TypeOK
    <3>3. rows[n].expires_at \in Nat \cup {NULL}
      BY <3>2 DEF Row, Instant
    <3> QED
      BY <3>1, <3>3 DEF IsLive, IsValid, IsExpired, Exists
  <2> QED
    BY <1>2, <2>1 DEF Tick, Elapse, NothingRevives, LiveReplacements
<1>3. ASSUME NEW j \in Keys, Delete(j)
      PROVE  NothingRevives
  <2> SUFFICES ASSUME NEW k \in Keys, NEW n \in Keys,
                      n \in (LiveReplacements(k) \ restored)'
               PROVE  n \in LiveReplacements(k) \ restored
    BY DEF NothingRevives, LiveReplacements
  <2>1. IsLive(n)' /\ rows'[n].rotated_from = k /\ n \notin restored'
    BY DEF LiveReplacements
  <2>2. /\ rows'[n] = IF n = j THEN NULL
                      ELSE IF Exists(n) /\ rows[n].rotated_from = j
                           THEN [rows[n] EXCEPT !.rotated_from = NULL]
                           ELSE rows[n]
        /\ now' = now /\ restored' = restored
    BY <1>3 DEF Delete, DeleteRow, Forget
  <2>3. rows'[n] = rows[n]
    <3>1. CASE Exists(n) /\ rows[n].rotated_from = j /\ n # j
      <4>1. rows[n] \in Row
        BY <3>1 DEF Exists, TypeOK
      <4>2. rows'[n].rotated_from = NULL
        BY <2>2, <3>1, <4>1 DEF Row
      <4> QED
        BY <2>1, <4>2
    <3> QED
      BY <2>1, <2>2, <3>1 DEF IsLive, Exists
  <2> QED
    BY <2>1, <2>2, <2>3 DEF LiveReplacements, IsLive, Exists
<1>4. ASSUME NEW w \in Workers, Call(w)
      PROVE  NothingRevives
  <2>1. ASSUME NEW j \in Keys, NEW active \in BOOLEAN, NEW e \in Lifespans,
               GenerateKey(w, j, active, e)
        PROVE  NothingRevives
    <3>1. /\ \A n \in Keys \ {j} : rows'[n] = rows[n]
          /\ rows'[j].rotated_from = NULL
          /\ UNCHANGED <<now, restored>>
      BY <2>1 DEF GenerateKey, NewRow, TypeOK
    <3> QED
      BY <3>1 DEF NothingRevives, LiveReplacements, IsLive, Exists
  <2> QED
    BY <1>1, <1>4, <2>1, CallRows
<1>5. ASSUME NEW w \in Workers, Update(w)
      PROVE  NothingRevives
  BY <1>1, <1>5, UpdateRows, WriteRevivesNothing DEF Instance
<1>6. ASSUME NEW w \in Workers, Rotation(w)
      PROVE  NothingRevives
  BY <1>1, <1>6, RotationRows
<1>7. CASE UNCHANGED vars
  BY <1>1, <1>7 DEF vars
<1> QED
  BY <1>2, <1>3, <1>4, <1>5, <1>6, <1>7 DEF Next

\* A commit gives the key it retires one live replacement, and no other key any.
LEMMA CommitRevivesFresh ==
    ASSUME TypeOK, RotationInv, NEW w \in Workers, RotateCommit(w),
           NEW k \in Keys, NEW n \in Keys,
           n \in (LiveReplacements(k) \ restored)'
    PROVE  \/ n \in LiveReplacements(k) \ restored
           \/ n = fresh[w].key /\ k = self[w].key
<1> DEFINE old == self[w].key
<1> USE RowAssumption
<1>1. IsLive(n)' /\ rows'[n].rotated_from = k /\ n \notin restored'
  BY DEF LiveReplacements
<1>2. UNCHANGED <<now, restored>>
  BY CommitRows
<1>3. CASE n = fresh[w].key
  <2>1. fresh[w].row.rotated_from = old
    BY DEF RotationInv, FreshIsHidden, RotateCommit
  <2> QED
    BY <1>1, <1>3, <2>1, CommitRows
<1>4. CASE n = old
  <2>1. rows[old] \in Row /\ Exists(old)
    BY CommitRows DEF Exists
  <2>2. PICK t \in 0 .. now : current[w] = Retired(rows[old], t, grace[w])
    BY DEF RotationInv, CurrentIsRetired, RotateCommit
  <2>3. t \in Nat /\ grace[w] \in (Nat \ {0}) \cup {NULL} /\ now \in Nat
    BY <2>2, ClockIsNat DEF TypeOK
  <2>4. rows'[old] = Synced(rows[old], Retired(rows[old], t, grace[w]))
    BY <2>2, CommitRows
  <2>5. rows'[old].rotated_from = rows[old].rotated_from
    BY <2>1, <2>4 DEF Synced, SaveLifecycle, Row
  <2>6. IsValid(Synced(rows[old], Retired(rows[old], t, grace[w])), now)
          => IsValid(rows[old], now)
    BY <2>1, <2>3, RetiringShortensLife
  <2> QED
    BY <1>1, <1>2, <1>4, <2>1, <2>4, <2>5, <2>6 DEF LiveReplacements, IsLive
<1>5. CASE n \notin {old, fresh[w].key}
  BY <1>1, <1>2, <1>5, CommitRows DEF LiveReplacements, IsLive, Exists
<1> QED
  BY <1>3, <1>4, <1>5

-----------------------------------------------------------------------------
(* The parts of the invariant *)

\* The step leaves x and everything it has in hand as they were.
Stays(x) == Registers(x)' = Registers(x)

\* Whoever is in a stage of rotate()'s transaction after a step was there
\* before, or took one of the four steps that lead into it.
LEMMA RotationMoves ==
    ASSUME TypeOK, [Next]_vars, NEW x \in Workers, pc'[x] \in InTxn
    PROVE  \/ Stays(x) /\ ~RotateCommit(x)
           \/ RotateLock(x)
           \/ RotateCheck(x)
           \/ \E n \in Keys : RotateInsert(x, n)
           \/ RotateRetire(x)
<1>1. CASE UNCHANGED vars
  BY <1>1 DEF vars, Stays, Registers, RotateCommit, EndTxn, Goto, TypeOK, InTxn
<1>2. CASE Tick \/ \E k \in Keys : Delete(k)
  BY <1>2 DEF Tick, Delete, Stays, Registers, RotateCommit, EndTxn, Goto,
              TypeOK, InTxn
<1>3. ASSUME NEW w \in Workers, Moves(w), w # x
      PROVE  Stays(x) /\ ~RotateCommit(x)
  <2>1. Stays(x)
    BY <1>3, Frame DEF Stays
  <2> QED
    BY <2>1 DEF Stays, Registers, RotateCommit, EndTxn, Goto, TypeOK, InTxn
<1>4. CASE Moves(x)
  <2>1. ~Call(x)
    BY CallRows
  <2>2. ~Update(x)
    BY UpdateRows
  <2>3. Rotation(x)
    BY <1>4, <2>1, <2>2 DEF Moves
  <2> QED
    BY <2>3 DEF Rotation, RotateProgress, RotateRefused, RotateConflict, RotateCommit,
                RotateAbort, RotateExhausted, EndTxn, Goto, TypeOK, InTxn
<1> QED
  BY <1>1, <1>2, <1>3, <1>4 DEF Next, Moves

\* rotate() works on the instance it was called on until it has committed.
LEMMA RotationKeepsSelf ==
    ASSUME TypeOK, [Next]_vars, NEW x \in Workers, pc'[x] \in InTxn
    PROVE  self'[x] = self[x] /\ self[x] \in Instance
<1>1. self'[x] = self[x]
  <2>1. CASE Stays(x)
    BY <2>1 DEF Stays, Registers
  <2>2. CASE RotateLock(x)
    BY <2>2 DEF RotateLock
  <2>3. CASE RotateCheck(x)
    BY <2>3 DEF RotateCheck
  <2>4. CASE \E n \in Keys : RotateInsert(x, n)
    BY <2>4 DEF RotateInsert
  <2>5. CASE RotateRetire(x)
    BY <2>5 DEF RotateRetire
  <2> QED
    BY <2>1, <2>2, <2>3, <2>4, <2>5, RotationMoves
<1>2. pc[x] # "idle"
  BY RotationMoves DEF Stays, Registers, RotateLock, RotateCheck,
     RotateInsert, RotateRetire, InTxn
<1> QED
  BY <1>1, <1>2 DEF TypeOK

\* Nobody changes a row between its SELECT FOR UPDATE and its retirement.
LEMMA ReadsStep ==
    TypeOK /\ RotationInv /\ [Next]_vars => RotatesWhatItRead'
<1> SUFFICES ASSUME TypeOK, RotationInv, [Next]_vars, NEW x \in Workers,
                    pc'[x] \in {"locked", "checked", "inserted"}
             PROVE  rows'[self'[x].key] = current'[x]
  BY DEF RotatesWhatItRead
<1>1. CASE Stays(x) /\ ~RotateCommit(x)
  <2>1. pc[x] \in InTxn /\ rows[self[x].key] = current[x]
    BY <1>1 DEF Stays, Registers, RotationInv, RotatesWhatItRead, InTxn
  <2> QED
    BY <1>1, <2>1, LockedRowStays DEF Stays, Registers
<1>2. CASE RotateLock(x)
  BY <1>2 DEF RotateLock, TypeOK
<1>3. CASE RotateCheck(x)
  BY <1>3 DEF RotateCheck, Locally, RotationInv, RotatesWhatItRead
<1>4. ASSUME NEW n \in Keys, RotateInsert(x, n)
      PROVE  rows'[self'[x].key] = current'[x]
  BY <1>4 DEF RotateInsert, RotationInv, RotatesWhatItRead
<1>5. ~RotateRetire(x)
  BY DEF RotateRetire, Goto, TypeOK
<1> QED
  BY <1>1, <1>2, <1>3, <1>4, <1>5, RotationMoves DEF InTxn

\* What a rotation is about to commit is still the stored row, retired at an
\* instant that has passed.
LEMMA RetiredStep ==
    TypeOK /\ RotationInv /\ [Next]_vars => CurrentIsRetired'
<1> SUFFICES ASSUME TypeOK, RotationInv, [Next]_vars, NEW x \in Workers,
                    pc'[x] = "retired"
             PROVE  \E t \in 0 .. now' :
                       current'[x] = Retired(rows'[self'[x].key], t, grace'[x])
  BY DEF CurrentIsRetired
<1>1. CASE Stays(x) /\ ~RotateCommit(x)
  <2>1. pc[x] = "retired" /\ pc[x] \in InTxn
    BY <1>1 DEF Stays, Registers, InTxn
  <2>2. PICK t \in 0 .. now : current[x] = Retired(rows[self[x].key], t, grace[x])
    BY <2>1 DEF RotationInv, CurrentIsRetired
  <2>3. rows'[self[x].key] = rows[self[x].key]
    BY <1>1, <2>1, LockedRowStays
  <2>4. now \in Nat /\ (now' = now \/ now' = now + 1)
    <3>1. ASSUME NEW w \in Workers, Moves(w)
          PROVE  now' = now
      <4>1. ASSUME RotateCommit(w)
            PROVE  now' = now
        BY <4>1 DEF RotateCommit
      <4> QED
        BY <3>1, <4>1, CallRows, UpdateRows, RotationRows DEF Moves, Write
    <3>2. now \in Nat
      BY ClockIsNat
    <3> QED
      BY <3>1, <3>2 DEF Next, Moves, Tick, Elapse, Delete, DeleteRow, vars
  <2>5. t \in 0 .. now'
    BY <2>2, <2>4
  <2> QED
    BY <1>1, <2>2, <2>3, <2>5 DEF Stays, Registers
<1>2. CASE RotateRetire(x)
  <2>1. /\ current'[x] = Retired(current[x], now, grace[x])
        /\ UNCHANGED <<now, rows, self, grace>>
    BY <1>2 DEF RotateRetire, TypeOK
  <2>2. current[x] = rows[self[x].key]
    BY <1>2 DEF RotateRetire, RotationInv, RotatesWhatItRead
  <2>3. now \in 0 .. now'
    BY <2>1, ClockIsNat
  <2> QED
    BY <2>1, <2>2, <2>3
<1>3. ~RotateLock(x) /\ ~RotateCheck(x) /\ \A n \in Keys : ~RotateInsert(x, n)
  BY DEF RotateLock, RotateCheck, RotateInsert, Goto, TypeOK
<1> QED
  BY <1>1, <1>2, <1>3, RotationMoves DEF InTxn

\* Once rotate() has looked for live replacements none appears but by name.
LEMMA StandsStep ==
    TypeOK /\ RotationInv /\ [Next]_vars => NoReplacementStands'
<1> SUFFICES ASSUME TypeOK, RotationInv, [Next]_vars, NEW x \in Workers,
                    pc'[x] \in {"checked", "inserted", "retired"},
                    NEW n \in Keys, n \in LiveReplacements(self[x].key)',
                    n \notin restored'
             PROVE  FALSE
  BY DEF NoReplacementStands, LiveReplacements
<1> DEFINE k == self[x].key
<1>1. self'[x] = self[x] /\ self[x] \in Instance /\ k \in Keys
  BY RotationKeepsSelf DEF InTxn, Instance
<1>2. LiveReplacements(k) \subseteq restored
  <2>1. CASE Stays(x)
    BY <2>1 DEF Stays, Registers, RotationInv, NoReplacementStands
  <2>2. ~RotateLock(x)
    BY DEF RotateLock, Goto, TypeOK
  <2>3. CASE RotateCheck(x)
    BY <2>3 DEF RotateCheck
  <2>4. CASE RotateRetire(x) \/ \E m \in Keys : RotateInsert(x, m)
    BY <2>4 DEF RotateRetire, RotateInsert, RotationInv, NoReplacementStands
  <2> QED
    BY <2>1, <2>2, <2>3, <2>4, RotationMoves DEF InTxn
<1>3. CASE \A w \in Workers : ~RotateCommit(w)
  BY <1>1, <1>2, <1>3, OnlyCommitsRevive DEF NothingRevives
<1>4. ASSUME NEW w \in Workers, RotateCommit(w)
      PROVE  FALSE
  <2>1. w # x
    BY <1>4, CommitRows
  <2>2. pc'[x] = pc[x] /\ pc[x] \in InTxn
    BY <1>4, <2>1 DEF RotateCommit, EndTxn, Goto, TypeOK, InTxn
  <2>3. k # self[w].key
    BY <1>4, <2>1, <2>2 DEF RotationInv, HoldsItsLock, RotateCommit, InTxn
  <2> QED
    BY <1>1, <1>2, <1>4, <2>3, CommitRevivesFresh
<1> QED
  BY <1>3, <1>4

\* Rows and instances only ever have keys that generate_api_key() returned.
LEMMA MintedStep ==
    TypeOK /\ RotationInv /\ [Next]_vars => NamedIsMinted'
<1> SUFFICES ASSUME TypeOK, RotationInv, [Next]_vars
             PROVE  NamedIsMinted'
  OBVIOUS
<1> USE RowAssumption, LifecycleAssumption
<1>1. ASSUME UNCHANGED <<rows, minted, self>>
      PROVE  NamedIsMinted'
  BY <1>1 DEF RotationInv, NamedIsMinted, Exists
<1>2. ASSUME NEW j \in Keys, Delete(j)
      PROVE  NamedIsMinted'
  <2>1. ASSUME NEW n \in Keys, Exists(n)'
        PROVE  Exists(n)
    BY <1>2, <2>1 DEF Delete, DeleteRow, Forget, Exists
  <2> QED
    BY <1>2, <2>1 DEF Delete, RotationInv, NamedIsMinted
<1>3. ASSUME NEW w \in Workers, Call(w)
      PROVE  NamedIsMinted'
  <2>1. ASSUME NEW k \in Keys, NEW active \in BOOLEAN, NEW e \in Lifespans,
               GenerateKey(w, k, active, e)
        PROVE  NamedIsMinted'
    BY <2>1 DEF GenerateKey, Hold, RotationInv, NamedIsMinted, Exists, TypeOK
  <2>2. ASSUME NEW k \in Keys, Load(w, k)
        PROVE  NamedIsMinted'
    BY <2>2 DEF Load, Hold, Locally, RotationInv, NamedIsMinted, Exists, TypeOK
  <2>3. ASSUME NEW row, Ready(w), Hold(w, self[w].key, row), Locally
        PROVE  NamedIsMinted'
    BY <2>3 DEF Ready, Hold, Locally, RotationInv, NamedIsMinted, Exists, TypeOK
  <2>4. ASSUME \/ \E reason \in CallerReasons : BeginRevoke(w, reason)
               \/ RevokeSelected(w) \/ BeginReactivate(w) \/ AdminPost(w)
        PROVE  NamedIsMinted'
    BY <2>3, <2>4 DEF BeginRevoke, RevokeSelected, BeginReactivate, AdminPost
  <2>5. ASSUME NEW g \in Graces \cup {NULL}, BeginRotate(w, g)
        PROVE  NamedIsMinted'
    BY <1>1, <2>5 DEF BeginRotate
  <2> QED
    BY <1>3, <2>1, <2>2, <2>4, <2>5 DEF Call
<1>4. ASSUME NEW w \in Workers, Update(w)
      PROVE  NamedIsMinted'
  <2>1. /\ self[w].key \in minted
        /\ UNCHANGED <<minted, self>>
        /\ \A k \in Keys \ {self[w].key} : rows'[k] = rows[k]
    <3>1. self[w] \in Instance /\ self[w].key \in minted
      BY <1>4, UpdateRows DEF RotationInv, NamedIsMinted
    <3> QED
      BY <1>4, <3>1, UpdateRows DEF Write, TypeOK
  <2> QED
    BY <2>1 DEF RotationInv, NamedIsMinted, Exists
<1>5. ASSUME NEW w \in Workers, Rotation(w)
      PROVE  NamedIsMinted'
  <2>1. CASE RotateCommit(w)
    <3>1. fresh[w].key \in minted /\ self[w].key \in minted
      BY <2>1, CommitRows DEF RotationInv, FreshIsHidden, NamedIsMinted,
                              RotateCommit
    <3> QED
      BY <2>1, <3>1, CommitRows DEF RotationInv, NamedIsMinted, Exists
  <2>2. CASE ~RotateCommit(w)
    <3>1. UNCHANGED <<rows, self>> /\ minted \subseteq minted'
      BY <1>5, <2>2 DEF Rotation, RotateProgress, RotateLock, RotateRefused, RotateCheck,
            RotateConflict, RotateInsert, RotateRetire, RotateAbort,
            RotateExhausted, Locally
    <3> QED
      BY <3>1 DEF RotationInv, NamedIsMinted, Exists
  <2> QED
    BY <2>1, <2>2
<1> QED
  BY <1>1, <1>2, <1>3, <1>4, <1>5 DEF Next, Tick, Elapse, vars

\* A replacement stays unknown to everybody else until it is committed.
LEMMA HiddenStep ==
    TypeOK /\ RotationInv /\ [Next]_vars => FreshIsHidden'
<1> SUFFICES ASSUME TypeOK, RotationInv, [Next]_vars
             PROVE  FreshIsHidden'
  OBVIOUS
<1> USE RowAssumption, LifecycleAssumption
<1> DEFINE Stage == {"inserted", "retired"}
\* A row that another transaction has inserted cannot be named, inserted again
\* or written by anybody.
<1>1. ASSUME NEW x \in Workers, pc[x] \in Stage, Stays(x)
      PROVE  /\ fresh[x].key \in minted'
             /\ rows'[fresh[x].key] = NULL
             /\ \A y \in Workers : self'[y] # NULL => self'[y].key # fresh[x].key
  <2> DEFINE f == fresh[x].key
  <2>1. /\ f \in Keys /\ f \in minted /\ ~Exists(f)
        /\ \A y \in Workers : self[y] # NULL => self[y].key # f
        /\ \A y \in Workers \ {x} : pc[y] \in Stage => fresh[y].key # f
    BY <1>1 DEF RotationInv, FreshIsHidden, TypeOK, Instance
  <2>2. minted \subseteq minted'
    <3>1. ASSUME NEW w \in Workers, Rotation(w)
          PROVE  minted \subseteq minted'
      BY <3>1 DEF Rotation, RotateProgress, RotateLock, RotateRefused, RotateCheck,
            RotateConflict, RotateInsert, RotateRetire, RotateCommit,
            RotateAbort, RotateExhausted, Locally
    <3>2. ASSUME NEW w \in Workers, Call(w)
          PROVE  minted \subseteq minted'
      BY <3>2, CallRows DEF GenerateKey
    <3> QED
      BY <3>1, <3>2, UpdateRows DEF Next, Tick, Delete, vars
  <2>3. rows'[f] = NULL
    <3>1. ASSUME NEW w \in Workers, Call(w)
          PROVE  rows'[f] = rows[f]
      BY <2>1, <3>1, CallRows DEF GenerateKey, TypeOK
    <3>2. ASSUME NEW w \in Workers, Update(w)
          PROVE  rows'[f] = rows[f]
      BY <2>1, <3>2, UpdateRows DEF Write, TypeOK
    <3>3. ASSUME NEW w \in Workers, Rotation(w)
          PROVE  rows'[f] = rows[f]
      <4>1. CASE RotateCommit(w)
        <5>1. w # x
          BY <1>1, <4>1, CommitRows DEF Stays, Registers
        <5>2. fresh[w].key # f /\ self[w].key # f
          BY <2>1, <4>1, <5>1, CommitRows DEF RotateCommit
        <5> QED
          BY <2>1, <4>1, <5>2, CommitRows
      <4> QED
        BY <3>3, <4>1, RotationRows
    <3>4. ASSUME NEW k \in Keys, Delete(k)
          PROVE  rows'[f] = NULL
      BY <2>1, <3>4 DEF Delete, DeleteRow, Forget, Exists
    <3>5. CASE UNCHANGED vars \/ Tick
      BY <2>1, <3>5 DEF vars, Tick, Elapse, Exists
    <3>6. ASSUME NEW w \in Workers, Moves(w)
          PROVE  rows'[f] = NULL
      BY <2>1, <3>1, <3>2, <3>3, <3>6 DEF Moves, Exists
    <3> QED
      BY <3>4, <3>5, <3>6 DEF Next, Moves
  <2>4. ASSUME NEW y \in Workers, self'[y] # NULL, self'[y] # self[y]
        PROVE  self'[y].key # f
    <3>1. ASSUME NEW w \in Workers, Moves(w)
          PROVE  w = y
      BY <2>4, <3>1, Frame DEF Registers
    <3>2. CASE Call(y)
      <4>1. ASSUME NEW k \in Keys, Load(y, k) 
            PROVE  self'[y].key # f
        BY <2>1, <4>1 DEF Load, Hold, TypeOK
      <4>2. ASSUME NEW k \in Keys, NEW active \in BOOLEAN, NEW e \in Lifespans,
                   GenerateKey(y, k, active, e)
            PROVE  self'[y].key # f
        BY <2>1, <4>2 DEF GenerateKey, Hold, TypeOK
      <4>3. ASSUME NEW row, Ready(y), Hold(y, self[y].key, row)
            PROVE  self'[y].key # f
        BY <2>1, <4>3 DEF Ready, Hold, TypeOK
      <4>4. ASSUME \/ \E reason \in CallerReasons : BeginRevoke(y, reason)
                   \/ RevokeSelected(y) \/ BeginReactivate(y) \/ AdminPost(y)
            PROVE  self'[y].key # f
        BY <4>3, <4>4 DEF BeginRevoke, RevokeSelected, BeginReactivate, AdminPost
      <4>5. ASSUME NEW g \in Graces \cup {NULL}, BeginRotate(y, g)
            PROVE  FALSE
        BY <2>4, <4>5 DEF BeginRotate
      <4> QED
        BY <3>2, <4>1, <4>2, <4>4, <4>5 DEF Call
    <3>3. ~Update(y)
      BY <2>4, UpdateRows
    <3>4. CASE Rotation(y)
      <4>1. RotateCommit(y)
        BY <2>4, <3>4, RotationRows
      <4>2. self[y].key # f
        BY <2>1, <4>1, CommitRows
      <4> QED
        BY <4>1, <4>2, CommitRows
    <3> QED
      BY <2>4, <3>1, <3>2, <3>3, <3>4 DEF Next, Moves, Tick, Delete, vars
  <2> QED
    BY <2>1, <2>2, <2>3, <2>4
\* The key that a transaction has just minted is new to everybody.
<1>2. ASSUME NEW x \in Workers, NEW n \in Keys, RotateInsert(x, n)
      PROVE  /\ fresh'[x].key = n /\ n \in minted' /\ rows'[n] = NULL
             /\ fresh'[x].row.rotated_from = self'[x].key
             /\ \A y \in Workers : /\ self'[y] # NULL => self'[y].key # n
                                   /\ y # x /\ pc[y] \in Stage => fresh[y].key # n
  <2>1. n \notin minted /\ minted' = minted \cup {n} /\ UNCHANGED <<rows, self>>
    BY <1>2 DEF RotateInsert
  <2>2. PICK e \in {current[x].expires_at} \cup Lifespans :
          fresh'[x] = [key |-> n, row |-> NewRow(TRUE, e, self[x].key)]
    BY <1>2 DEF RotateInsert, TypeOK
  <2>3. fresh'[x].key = n /\ fresh'[x].row = NewRow(TRUE, e, self[x].key)
    BY <2>2
  <2>4. fresh'[x].key = n /\ fresh'[x].row.rotated_from = self'[x].key
    <3>1. self'[x] = self[x]
      BY <1>2 DEF RotateInsert
    <3>2. \A k : NewRow(TRUE, e, k).rotated_from = k
      BY DEF NewRow
    <3> QED
      BY <2>3, <3>1, <3>2
  <2> QED
    BY <2>1, <2>4 DEF RotationInv, NamedIsMinted, FreshIsHidden, Exists
<1>3. ASSUME NEW x \in Workers, RotateRetire(x)
      PROVE  /\ pc[x] \in Stage
             /\ UNCHANGED <<rows, minted, self, fresh>>
             /\ \A y \in Workers \ {x} : pc'[y] = pc[y]
  BY <1>3 DEF RotateRetire, Goto, TypeOK
<1>4. ASSUME NEW x \in Workers, pc'[x] \in Stage
      PROVE  \/ Stays(x) /\ pc[x] \in Stage
             \/ \E n \in Keys : RotateInsert(x, n)
             \/ RotateRetire(x)
  <2>1. ~RotateLock(x) /\ ~RotateCheck(x)
    BY <1>4 DEF RotateLock, RotateCheck, Goto, TypeOK
  <2> QED
    BY <1>4, <2>1, RotationMoves DEF InTxn, Stays, Registers
<1> QED
  <2> SUFFICES ASSUME NEW x \in Workers, pc'[x] \in Stage
               PROVE  /\ fresh'[x].key \in minted'
                      /\ rows'[fresh'[x].key] = NULL
                      /\ fresh'[x].row.rotated_from = self'[x].key
                      /\ \A y \in Workers : self'[y] # NULL => self'[y].key # fresh'[x].key
                      /\ \A y \in Workers \ {x} : pc'[y] \in Stage =>
                           fresh'[y].key # fresh'[x].key
    BY DEF FreshIsHidden, Exists
  <2>1. CASE Stays(x) /\ pc[x] \in Stage
    <3>1. /\ fresh'[x] = fresh[x] /\ self'[x] = self[x]
          /\ fresh[x].row.rotated_from = self[x].key
          /\ \A y \in Workers \ {x} : pc[y] \in Stage => fresh[y].key # fresh[x].key
      BY <2>1 DEF Stays, Registers, RotationInv, FreshIsHidden
    <3>2. ASSUME NEW y \in Workers \ {x}, pc'[y] \in Stage
          PROVE  fresh'[y].key # fresh[x].key
      <4>1. CASE Stays(y) /\ pc[y] \in Stage
        BY <3>1, <4>1 DEF Stays, Registers
      <4>2. ASSUME NEW n \in Keys, RotateInsert(y, n)
            PROVE  fresh'[y].key # fresh[x].key
        BY <1>2, <2>1, <4>2
      <4>3. CASE RotateRetire(y)
        BY <1>3, <3>1, <4>3
      <4> QED
        BY <1>4, <3>2, <4>1, <4>2, <4>3
    <3> QED
      BY <1>1, <2>1, <3>1, <3>2
  <2>2. ASSUME NEW n \in Keys, RotateInsert(x, n)
        PROVE  /\ fresh'[x].key \in minted'
               /\ rows'[fresh'[x].key] = NULL
               /\ fresh'[x].row.rotated_from = self'[x].key
               /\ \A y \in Workers : self'[y] # NULL => self'[y].key # fresh'[x].key
               /\ \A y \in Workers \ {x} : pc'[y] \in Stage =>
                    fresh'[y].key # fresh'[x].key
    <3>1. \A y \in Workers \ {x} : pc'[y] = pc[y] /\ fresh'[y] = fresh[y]
      BY <2>2 DEF RotateInsert, Goto, TypeOK
    <3> QED
      BY <1>2, <2>2, <3>1 DEF Exists
  <2>3. CASE RotateRetire(x)
    BY <1>3, <2>3 DEF RotationInv, FreshIsHidden, Exists
  <2> QED
    BY <1>4, <2>1, <2>2, <2>3

\* All the parts are preserved together.
LEMMA RotationStep == TypeOK /\ RotationInv /\ [Next]_vars => RotationInv'
BY LockStep, ReadsStep, StandsStep, RetiredStep, MintedStep, HiddenStep
   DEF RotationInv

\* No rotation is under way at the start.
LEMMA RotationInit == Init => RotationInv
BY DEF Init, TableInit, RotationInv, HoldsItsLock, RotatesWhatItRead,
       NoReplacementStands, CurrentIsRetired, NamedIsMinted, FreshIsHidden,
       InTxn, Exists

\* The rotation invariant holds in every reachable state.
LEMMA TypedRotations == Spec => [](TypeOK /\ RotationInv)
BY RotationInit, RotationStep, TypeInvariant, PTL DEF Spec

\* What a rotation in its transaction knows stays true until it commits: it
\* holds the row's lock, its copy is the committed row, no replacement but a
\* restored one stands, and nobody has seen the key it is about to add.
THEOREM RotationInvariant == Spec => []RotationInv
BY TypedRotations, PTL

\* rotate() copies and retires the row as it is at the commit, never a value
\* that another call has replaced since the row was read.
THEOREM RotationsReadFreshRows == Spec => []RotatesWhatItRead
BY TypedRotations, PTL DEF RotationInv

\* No step gives a key a second live replacement, other than by name.
LEMMA OneLiveStep ==
    TypeOK /\ RotationInv /\ AtMostOneLiveReplacement /\ [Next]_vars
        => AtMostOneLiveReplacement'
<1> SUFFICES ASSUME TypeOK, RotationInv, AtMostOneLiveReplacement, [Next]_vars,
                    NEW k \in Keys, NEW m \in Keys, NEW n \in Keys,
                    m \in (LiveReplacements(k) \ restored)',
                    n \in (LiveReplacements(k) \ restored)'
             PROVE  m = n
  BY DEF AtMostOneLiveReplacement, LiveReplacements
<1>1. CASE \A w \in Workers : ~RotateCommit(w)
  BY <1>1, OnlyCommitsRevive DEF NothingRevives, AtMostOneLiveReplacement
<1>2. ASSUME NEW w \in Workers, RotateCommit(w)
      PROVE  m = n
  <2>1. LiveReplacements(self[w].key) \subseteq restored
    BY <1>2 DEF RotationInv, NoReplacementStands, RotateCommit
  <2>2. CASE k = self[w].key
    BY <1>2, <2>1, <2>2, CommitRevivesFresh
  <2>3. CASE k # self[w].key
    BY <1>2, <2>3, CommitRevivesFresh DEF AtMostOneLiveReplacement
  <2> QED
    BY <2>2, <2>3
<1> QED
  BY <1>1, <1>2

\* No key ever has two live replacements unless one was brought back by name.
THEOREM OneLiveReplacement == Spec => []AtMostOneLiveReplacement
<1>1. Init => AtMostOneLiveReplacement
  BY DEF Init, TableInit, AtMostOneLiveReplacement, LiveReplacements, IsLive, Exists
<1> QED
  BY <1>1, OneLiveStep, TypedRotations, PTL DEF Spec

\* A committing rotation never lengthens the life of the key it replaces.
THEOREM GraceNeverExtends == Spec => RotationNeverExtendsLife
<1> DEFINE Extends ==
      \A w \in Workers : Commits(w) =>
         LET k == self[w].key
         IN  \A t \in now .. MaxTime :
               IsValid(rows'[k], t) => IsValid(rows[k], t)
<1>1. TypeOK /\ RotationInv /\ [Next]_vars => [Extends]_vars
  <2> SUFFICES ASSUME TypeOK, RotationInv, [Next]_vars, NEW w \in Workers,
                      Commits(w), NEW u \in now .. MaxTime,
                      IsValid(rows'[self[w].key], u)
               PROVE  IsValid(rows[self[w].key], u)
    OBVIOUS
  <2>1. RotateCommit(w)
    <3>1. PICK x \in Workers : Moves(x)
      BY DEF Next, Moves, Commits, Tick, Delete, vars
    <3>2. x = w
      BY <3>1, Frame DEF Registers, Commits
    <3>3. ~Call(w)
      BY DEF Call, Load, GenerateKey, BeginRevoke, RevokeSelected,
             BeginReactivate, AdminPost, BeginRotate, Ready, Commits
    <3>4. ~Update(w)
      BY DEF Update, SaveUpdateFields, SaveAllFields, SaveFails, Calling, Commits
    <3> QED
      BY <3>1, <3>2, <3>3, <3>4, RotationRows DEF Moves, Commits
  <2>2. PICK t \in 0 .. now :
          current[w] = Retired(rows[self[w].key], t, grace[w])
    BY <2>1 DEF RotationInv, CurrentIsRetired, RotateCommit
  <2>3. t \in Nat /\ u \in Nat /\ grace[w] \in (Nat \ {0}) \cup {NULL}
    BY <2>2, ClockIsNat DEF TypeOK
  <2>4. rows[self[w].key] \in Row
    BY <2>1, CommitRows
  <2>5. IsValid(Synced(rows[self[w].key], Retired(rows[self[w].key], t, grace[w])), u)
          => IsValid(rows[self[w].key], u)
    BY <2>3, <2>4, RetiringShortensLife
  <2> QED
    BY <2>1, <2>2, <2>5, CommitRows
<1> QED
  BY <1>1, TypedRotations, PTL DEF Spec, RotationNeverExtendsLife

-----------------------------------------------------------------------------
(* What KeyLifecycle implements, and what brings a key back *)

FormsInUse == Operations \cap {"edit", "toggle", "extend"} # {}

\* What the statements that are still to run may write: a revocation dated in
\* the past, a reactivation, a form that an admin has saved, or the
\* replacement of a key that is active, with its expiry or an override, after
\* the grace period that the caller asked for.
PendingIsLegal ==
    \A w \in Workers :
        /\ grace[w] \in Graces \cup {NULL}
        /\ pc[w] = "revoke" =>
             ~self[w].row.is_active /\ self[w].row.revoked_at \in 0 .. now
        /\ pc[w] = "reactivate" =>
             /\ self[w].row.is_active
             /\ self[w].row.revoked_at = NULL
             /\ self[w].row.revoked_reason = ""
        /\ pc[w] = "admin" => FormsInUse
        /\ pc[w] \in InTxn => rows[self[w].key].is_active
        /\ pc[w] \in {"inserted", "retired"} =>
             \E expiry \in {rows[self[w].key].expires_at} \cup Lifespans :
               fresh[w].row = NewRow(TRUE, expiry, self[w].key)

\* The clock never runs backwards.
LEMMA ClockAdvances ==
    ASSUME TypeOK, [Next]_vars
    PROVE  now \in Nat /\ now' \in Nat /\ now <= now'
<1>1. now \in Nat
  BY ClockIsNat
<1>2. ASSUME NEW w \in Workers, Moves(w)
      PROVE  now' = now
  <2>1. ASSUME RotateCommit(w)
        PROVE  now' = now
    BY <2>1 DEF RotateCommit
  <2> QED
    BY <1>2, <2>1, CallRows, UpdateRows, RotationRows DEF Moves, Write
<1> QED
  BY <1>1, <1>2 DEF Next, Moves, Tick, Elapse, Delete, DeleteRow, vars

\* Whoever waits for its UPDATE after a step waited before, or has just put
\* its own change into its instance.
LEMMA CallMoves ==
    ASSUME TypeOK, [Next]_vars, NEW x \in Workers, pc'[x] \in Calling
    PROVE  \/ Stays(x)
           \/ \E reason \in CallerReasons : BeginRevoke(x, reason)
           \/ RevokeSelected(x)
           \/ BeginReactivate(x)
           \/ AdminPost(x)
<1>1. CASE UNCHANGED vars
  BY <1>1 DEF vars, Stays, Registers
<1>2. CASE Tick \/ \E k \in Keys : Delete(k)
  BY <1>2 DEF Tick, Delete, Stays, Registers
<1>3. ASSUME NEW w \in Workers, Moves(w), w # x
      PROVE  Stays(x)
  BY <1>3, Frame DEF Stays
<1>4. CASE Moves(x)
  <2>1. ~Update(x)
    BY DEF Update, SaveUpdateFields, SaveAllFields, SaveFails, Goto, TypeOK, Calling
  <2>2. ~Rotation(x)
    BY DEF Rotation, RotateProgress, RotateLock, RotateRefused, RotateCheck,
           RotateConflict, RotateInsert, RotateRetire, RotateCommit, RotateAbort,
           RotateExhausted, EndTxn, Goto,
           TypeOK, Calling
  <2>3. ASSUME \/ \E k \in Keys : Load(x, k)
               \/ \E k \in Keys, active \in BOOLEAN, e \in Lifespans :
                    GenerateKey(x, k, active, e)
               \/ \E g \in Graces \cup {NULL} : BeginRotate(x, g)
        PROVE  FALSE
    BY <2>3 DEF Load, GenerateKey, BeginRotate, Goto, TypeOK, Calling
  <2> QED
    BY <1>4, <2>1, <2>2, <2>3 DEF Moves, Call
<1> QED
  BY <1>1, <1>2, <1>3, <1>4 DEF Next, Moves

\* The grace period of a rotation is the one its caller passed.
LEMMA GracesArePassed ==
    ASSUME TypeOK, PendingIsLegal, [Next]_vars, NEW x \in Workers
    PROVE  grace'[x] \in Graces \cup {NULL}
<1>1. CASE grace'[x] = grace[x]
  BY <1>1 DEF PendingIsLegal
<1>2. ASSUME NEW w \in Workers, Moves(w), w # x
      PROVE  grace'[x] = grace[x]
  BY <1>2, Frame DEF Registers
<1>3. CASE Call(x)
  BY <1>1, <1>3 DEF Call, Load, GenerateKey, BeginRevoke, RevokeSelected,
     BeginReactivate, AdminPost, BeginRotate, Locally, txnVars, TypeOK
<1>4. CASE Update(x)
  BY <1>1, <1>4 DEF Update, SaveUpdateFields, SaveAllFields, SaveFails,
                    Locally, txnVars
<1>5. CASE Rotation(x)
  BY <1>1, <1>5 DEF Rotation, RotateProgress, RotateLock, RotateRefused, RotateCheck,
     RotateConflict, RotateInsert, RotateRetire, RotateCommit, RotateAbort,
     RotateExhausted,
     EndTxn, Locally, TypeOK
<1>6. CASE UNCHANGED vars \/ Tick \/ \E k \in Keys : Delete(k)
  BY <1>1, <1>6 DEF vars, Tick, Delete
<1> QED
  BY <1>1, <1>2, <1>3, <1>4, <1>5, <1>6 DEF Next, Moves

\* A pending UPDATE stays what the call made it.
LEMMA PendingUpdates ==
    ASSUME TypeOK, PendingIsLegal, [Next]_vars, NEW x \in Workers
    PROVE  /\ pc'[x] = "revoke" =>
                ~self'[x].row.is_active /\ self'[x].row.revoked_at \in 0 .. now'
           /\ pc'[x] = "reactivate" =>
                /\ self'[x].row.is_active
                /\ self'[x].row.revoked_at = NULL
                /\ self'[x].row.revoked_reason = ""
           /\ pc'[x] = "admin" => FormsInUse
<1> SUFFICES ASSUME pc'[x] \in Calling
             PROVE  /\ pc'[x] = "revoke" =>
                         ~self'[x].row.is_active /\ self'[x].row.revoked_at \in 0 .. now'
                    /\ pc'[x] = "reactivate" =>
                         /\ self'[x].row.is_active
                         /\ self'[x].row.revoked_at = NULL
                         /\ self'[x].row.revoked_reason = ""
                    /\ pc'[x] = "admin" => FormsInUse
  BY DEF Calling
<1>1. CASE Stays(x)
  <2>1. \A t \in 0 .. now : t \in 0 .. now'
    BY ClockAdvances
  <2> QED
    BY <1>1, <2>1 DEF Stays, Registers, PendingIsLegal
<1>2. ASSUME NEW reason, Ready(x), Goto(x, "revoke"), Locally,
             Hold(x, self[x].key, Revoked(self[x].row, now, reason))
      PROVE  /\ pc'[x] = "revoke"
             /\ ~self'[x].row.is_active
             /\ self'[x].row.revoked_at \in 0 .. now'
  <2>1. self[x].row \in Row
    BY <1>2 DEF Ready, TypeOK, Instance
  <2>2. pc'[x] = "revoke" /\ now' = now /\ self'[x].row = Revoked(self[x].row, now, reason)
    BY <1>2 DEF Goto, Hold, Locally, TypeOK
  <2>3. now \in 0 .. now
    BY ClockIsNat
  <2> QED
    BY <2>1, <2>2, <2>3 DEF Revoked, Row
<1>3. ASSUME NEW reason \in CallerReasons, BeginRevoke(x, reason)
      PROVE  /\ pc'[x] = "revoke"
             /\ ~self'[x].row.is_active
             /\ self'[x].row.revoked_at \in 0 .. now'
  BY <1>2, <1>3 DEF BeginRevoke
<1>4. CASE RevokeSelected(x)
  BY <1>2, <1>4 DEF RevokeSelected
<1>5. CASE BeginReactivate(x)
  <2>1. self[x].row \in Row
    BY <1>5 DEF BeginReactivate, Ready, TypeOK, Instance
  <2>2. pc'[x] = "reactivate" /\ self'[x].row = Reactivated(self[x].row)
    BY <1>5 DEF BeginReactivate, Goto, Hold, TypeOK
  <2> QED
    BY <2>1, <2>2 DEF Reactivated, Row
<1>6. CASE AdminPost(x)
  <2>1. pc'[x] = "admin"
    BY <1>6 DEF AdminPost, Goto, TypeOK
  <2>2. FormsInUse
    BY <1>6 DEF AdminPost, FormMayHold, FormsInUse
  <2> QED
    BY <2>1, <2>2
<1> QED
  BY <1>1, <1>3, <1>4, <1>5, <1>6, CallMoves

\* The key being rotated stays active until the commit, which adds the
\* replacement that was inserted for it.
LEMMA PendingRotations ==
    ASSUME TypeOK, RotationInv, PendingIsLegal, [Next]_vars, NEW x \in Workers,
           pc'[x] \in InTxn
    PROVE  /\ rows'[self'[x].key].is_active
           /\ pc'[x] \in {"inserted", "retired"} =>
                \E expiry \in {rows'[self'[x].key].expires_at} \cup Lifespans :
                  fresh'[x].row = NewRow(TRUE, expiry, self'[x].key)
<1>1. CASE Stays(x) /\ ~RotateCommit(x)
  <2>1. pc[x] \in InTxn
    BY <1>1 DEF Stays, Registers
  <2>2. rows'[self[x].key] = rows[self[x].key]
    BY <1>1, <2>1, LockedRowStays
  <2> QED
    BY <1>1, <2>1, <2>2 DEF Stays, Registers, PendingIsLegal
<1>2. CASE RotateLock(x)
  <2>1. pc'[x] = "locked" /\ UNCHANGED <<rows, self>>
    BY <1>2 DEF RotateLock, Goto, TypeOK
  <2> QED
    BY <1>2, <2>1 DEF RotateLock, IsLive, IsValid
<1>3. CASE RotateCheck(x)
  <2>1. pc'[x] = "checked" /\ pc[x] \in InTxn /\ UNCHANGED <<rows, self>>
    BY <1>3 DEF RotateCheck, Goto, TypeOK, Locally, InTxn
  <2> QED
    BY <2>1 DEF PendingIsLegal
<1>4. ASSUME NEW n \in Keys, RotateInsert(x, n)
      PROVE  /\ rows'[self'[x].key].is_active
             /\ \E expiry \in {rows'[self'[x].key].expires_at} \cup Lifespans :
                  fresh'[x].row = NewRow(TRUE, expiry, self'[x].key)
  <2>1. pc[x] \in InTxn /\ UNCHANGED <<rows, self>>
    BY <1>4 DEF RotateInsert, InTxn
  <2>2. PICK e \in {current[x].expires_at} \cup Lifespans :
          fresh' = [fresh EXCEPT ![x] =
                      [key |-> n, row |-> NewRow(TRUE, e, self[x].key)]]
    BY <1>4 DEF RotateInsert
  <2>3. current[x] = rows[self[x].key]
    BY <1>4 DEF RotateInsert, RotationInv, RotatesWhatItRead
  <2>4. fresh'[x].row = NewRow(TRUE, e, self[x].key)
    BY <2>2 DEF TypeOK
  <2> QED
    BY <2>1, <2>2, <2>3, <2>4 DEF PendingIsLegal
<1>5. CASE RotateRetire(x)
  <2>1. pc[x] \in InTxn /\ pc[x] = "inserted" /\ UNCHANGED <<rows, self, fresh>>
    BY <1>5 DEF RotateRetire, InTxn
  <2> QED
    BY <2>1 DEF PendingIsLegal
<1> QED
  BY <1>1, <1>2, <1>3, <1>4, <1>5, RotationMoves

\* What is to be written stays legal through every step of everybody.
LEMMA PendingStep ==
    TypeOK /\ RotationInv /\ PendingIsLegal /\ [Next]_vars => PendingIsLegal'
<1> SUFFICES ASSUME TypeOK, RotationInv, PendingIsLegal, [Next]_vars,
                    NEW x \in Workers
             PROVE  /\ grace'[x] \in Graces \cup {NULL}
                    /\ pc'[x] = "revoke" =>
                         ~self'[x].row.is_active /\ self'[x].row.revoked_at \in 0 .. now'
                    /\ pc'[x] = "reactivate" =>
                         /\ self'[x].row.is_active
                         /\ self'[x].row.revoked_at = NULL
                         /\ self'[x].row.revoked_reason = ""
                    /\ pc'[x] = "admin" => FormsInUse
                    /\ pc'[x] \in InTxn => rows'[self'[x].key].is_active
                    /\ pc'[x] \in {"inserted", "retired"} =>
                         \E expiry \in {rows'[self'[x].key].expires_at} \cup Lifespans :
                           fresh'[x].row = NewRow(TRUE, expiry, self'[x].key)
  BY DEF PendingIsLegal, FormsInUse
<1>1. pc'[x] \in {"inserted", "retired"} => pc'[x] \in InTxn
  BY DEF InTxn
<1> QED
  BY <1>1, GracesArePassed, PendingUpdates, PendingRotations

\* Nothing is under way at the start.
LEMMA PendingInit == Init => PendingIsLegal
BY DEF Init, PendingIsLegal, InTxn

\* The invariant that all the theorems of this module rest on.
LifecycleInv == TypeOK /\ RotationInv /\ CopiesUnrevoked /\ PendingIsLegal

\* It holds in every reachable state.
LEMMA LifecycleInvariant == Spec => []LifecycleInv
<1>1. Init => CopiesUnrevoked
  BY DEF Init, TableInit, CopiesUnrevoked, ActiveIsUnrevoked, Exists
<1>2. TypeOK /\ RotationInv /\ CopiesUnrevoked /\ [Next]_vars => CopiesUnrevoked'
  BY UnrevokedStep DEF RotationInv
<1> QED
  BY <1>1, <1>2, PendingInit, PendingStep, TypedRotations, PTL
     DEF Spec, LifecycleInv

-----------------------------------------------------------------------------
(* Every step is one of KeyStore's *)

\* The writes of KeyStore are those of KeyTable.
LEMMA StoreWrites ==
    ASSUME NEW k, NEW row, Write(k, row)
    PROVE  Store!Write(k, row)
BY DEF Write, Store!Write, Restores, Store!Restores, IsValid, Store!IsValid,
       IsExpired, Store!IsExpired, IsLive, Store!IsLive, Exists, Store!Exists

\* The clock and the deletions are the same in both.
LEMMA SurroundingsRefine ==
    ASSUME TypeOK, Tick \/ \E k \in Keys : Delete(k)
    PROVE  Store!Next
BY DEF Tick, Elapse, Store!Elapse, Delete, DeleteRow, Store!DeleteRow, Forget,
       Store!Forget, Exists, Store!Exists, Store!Next

\* generate_key() and the add form create a row that was not there; the other
\* calls show nothing until a statement of theirs runs.
LEMMA CallsRefine ==
    ASSUME LifecycleInv, NEW w \in Workers, Call(w)
    PROVE  Store!Next \/ UNCHANGED tableVars
<1>1. TypeOK /\ RotationInv
  BY DEF LifecycleInv
<1>2. ASSUME NEW k \in Keys, NEW active \in BOOLEAN, NEW e \in Lifespans,
             GenerateKey(w, k, active, e)
      PROVE  Store!Next
  <2>1. ~Exists(k)
    BY <1>1, <1>2 DEF GenerateKey, RotationInv, NamedIsMinted
  <2>2. ~Restores(k, NewRow(active, e, NULL))
    BY DEF Restores, NewRow
  <2>3. Write(k, NewRow(active, e, NULL))
    BY <1>2, <2>2 DEF GenerateKey, Write
  <2>4. Store!NewRow(active, e, NULL) = NewRow(active, e, NULL)
    BY DEF NewRow, Store!NewRow
  <2>5. Store!Create(k, active, e)
    BY <2>1, <2>3, <2>4, StoreWrites DEF Store!Create, Store!Exists, Exists
  <2> QED
    BY <2>5 DEF Store!Next, Store!Lifespans, Lifespans
<1> QED
  BY <1>1, <1>2, CallRows DEF tableVars

\* The UPDATE of a call is one abstract operation on the row as it is then,
\* however old the instance that it writes from.
LEMMA UpdatesRefine ==
    ASSUME LifecycleInv, NEW w \in Workers, Update(w)
    PROVE  Store!Next \/ UNCHANGED tableVars
<1> DEFINE k == self[w].key
           row == self[w].row
<1>1. TypeOK /\ RotationInv /\ CopiesUnrevoked /\ PendingIsLegal
  BY DEF LifecycleInv
<1>2. /\ pc[w] \in Calling /\ self[w] \in Instance /\ self[w] # NULL
      /\ k \in Keys /\ row \in Row
  <2>1. pc[w] \in Calling
    BY DEF Update, SaveUpdateFields, SaveAllFields, SaveFails, Calling
  <2> QED
    BY <1>1, <2>1, LifecycleAssumption DEF TypeOK, Calling, Instance
<1>3. CASE SaveUpdateFields(w)
  <2>1. /\ Exists(k) /\ rows[k] \in Row
        /\ Write(k, SaveLifecycle(rows[k], row))
    BY <1>1, <1>2, <1>3 DEF SaveUpdateFields, TypeOK, Exists
  <2>2. CASE pc[w] = "revoke"
    <3>1. ~row.is_active /\ row.revoked_at \in 0 .. now
      BY <1>1, <2>2 DEF PendingIsLegal
    <3>2. row.is_active = FALSE /\ row.revoked_reason \in Reasons
      BY <1>2, <3>1 DEF Row
    <3>3. SaveLifecycle(rows[k], row) = Store!Revoked(rows[k], row.revoked_at, row.revoked_reason)
      BY <2>1, <3>2 DEF SaveLifecycle, Store!Revoked, Row
    <3>4. Store!Revoke(k, row.revoked_at, row.revoked_reason)
      BY <2>1, <3>3, StoreWrites DEF Store!Revoke, Store!Exists, Exists
    <3> QED
      BY <1>2, <3>1, <3>2, <3>4 DEF Store!Next, Store!Reasons, Reasons
  <2>3. CASE pc[w] = "reactivate"
    <3>1. row.is_active = TRUE /\ row.revoked_at = NULL /\ row.revoked_reason = ""
      BY <1>1, <1>2, <2>3 DEF PendingIsLegal, Row
    <3>2. SaveLifecycle(rows[k], row) = Store!Reactivated(rows[k])
      BY <2>1, <3>1 DEF SaveLifecycle, Store!Reactivated, Row
    <3>3. Store!Reactivate(k)
      BY <2>1, <3>2, StoreWrites DEF Store!Reactivate, Store!Exists, Exists
    <3> QED
      BY <1>2, <3>3 DEF Store!Next
  <2> QED
    BY <1>3, <2>2, <2>3 DEF SaveUpdateFields
<1>4. CASE SaveAllFields(w)
  <2>1. pc[w] = "admin" /\ Write(k, row)
    BY <1>4 DEF SaveAllFields
  <2>2. rows'[k] = row
    BY <1>1, <1>2, <2>1 DEF Write, TypeOK
  <2>3. FormsInUse /\ Unrevoked(row)
    BY <1>1, <1>2, <2>1 DEF PendingIsLegal, CopiesUnrevoked
  <2>4. Store!Overwrite(k)
    BY <1>2, <2>1, <2>2, <2>3, StoreWrites
       DEF Store!Overwrite, FormsInUse, Store!Row, Row, Store!Instant, Instant,
           Store!Reasons, Reasons, Store!Unrevoked, Unrevoked
  <2> QED
    BY <1>2, <2>4 DEF Store!Next
<1>5. CASE SaveFails(w)
  BY <1>5 DEF SaveFails, Locally, tableVars
<1> QED
  BY <1>3, <1>4, <1>5 DEF Update

\* The commit replaces the key and retires it in one step; the statements
\* before it are not seen.
LEMMA RotationsRefine ==
    ASSUME LifecycleInv, NEW w \in Workers, Rotation(w)
    PROVE  Store!Next \/ UNCHANGED tableVars
<1> DEFINE k == self[w].key
           n == fresh[w].key
<1>1. TypeOK /\ RotationInv /\ PendingIsLegal
  BY DEF LifecycleInv
<1>2. CASE ~RotateCommit(w)
  BY <1>1, <1>2, RotationRows DEF tableVars
<1>3. CASE RotateCommit(w)
  <2>1. /\ k \in Keys /\ n \in Keys \ {k} /\ rows[k] \in Row
        /\ UNCHANGED <<now, restored>>
        /\ rows' = [rows EXCEPT ![k] = Synced(rows[k], current[w]),
                                ![n] = fresh[w].row]
    BY <1>1, <1>3, CommitRows DEF Instance, RotateCommit
  <2>2. Exists(k) /\ rows[k].is_active /\ ~Exists(n)
    BY <1>1, <1>3 DEF RotateCommit, RotationInv, HoldsItsLock, FreshIsHidden,
                      PendingIsLegal, InTxn
  <2>3. LiveReplacements(k) \subseteq restored
    BY <1>1, <1>3 DEF RotateCommit, RotationInv, NoReplacementStands
  <2>4. PICK t \in 0 .. now : current[w] = Retired(rows[k], t, grace[w])
    BY <1>1, <1>3 DEF RotateCommit, RotationInv, CurrentIsRetired
  <2>5. PICK e \in {rows[k].expires_at} \cup Lifespans :
          fresh[w].row = NewRow(TRUE, e, k)
    BY <1>1, <1>3 DEF RotateCommit, PendingIsLegal
  <2>6. Synced(rows[k], current[w]) = Store!Retired(rows[k], t, grace[w])
    BY <2>1, <2>4 DEF Synced, SaveLifecycle, Retired, Revoked, Store!Retired,
                      Store!Revoked, Row
  <2>7. grace[w] \in Graces \cup {NULL} /\ (grace[w] # NULL => grace[w] > 0)
    <3>1. grace[w] \in Graces \cup {NULL}
      BY <1>1 DEF PendingIsLegal
    <3>2. grace[w] \in (Nat \ {0}) \cup {NULL}
      BY <1>1 DEF TypeOK
    <3>3. \A g \in Nat \ {0} : g > 0
      OBVIOUS
    <3> QED
      BY <3>1, <3>2, <3>3
  <2>8. Store!Rotate(k, n, t, grace[w])
    BY <2>1, <2>2, <2>3, <2>5, <2>6, <2>7
       DEF Store!Rotate, Store!Exists, Exists, Store!LiveReplacements,
           LiveReplacements, Store!IsLive, IsLive, Store!IsValid, IsValid,
           Store!IsExpired, IsExpired, Store!Lifespans, Lifespans,
           Store!NewRow, NewRow
  <2> QED
    BY <2>1, <2>4, <2>7, <2>8 DEF Store!Next
<1> QED
  BY <1>2, <1>3

\* A step of KeyLifecycle is a step of KeyStore or changes nothing of it.
LEMMA StepRefines ==
    LifecycleInv /\ [Next]_vars => [Store!Next]_(Store!tableVars)
<1> SUFFICES ASSUME LifecycleInv, [Next]_vars
             PROVE  Store!Next \/ UNCHANGED tableVars
  BY DEF tableVars, Store!tableVars
<1>1. TypeOK
  BY DEF LifecycleInv
<1>2. CASE UNCHANGED vars
  BY <1>2 DEF vars, tableVars
<1> QED
  BY <1>1, <1>2, SurroundingsRefine, CallsRefine, UpdatesRefine,
     RotationsRefine DEF Next

\* KeyLifecycle implements KeyStore.
THEOREM LifecycleImplementsStore == Spec => ImplementsKeyStore
<1>1. Init => Store!TableInit
  BY DEF Init, TableInit, Store!TableInit
<1> QED
  BY <1>1, StepRefines, LifecycleInvariant, PTL DEF Spec, ImplementsKeyStore, Store!Spec

-----------------------------------------------------------------------------
(* Which steps bring a dead key back *)

\* Neither the clock nor the deletion of another key makes a dead key live.
LEMMA SurroundingsRestoreNothing ==
    ASSUME TypeOK, Tick \/ (\E j \in Keys : Delete(j)) \/ UNCHANGED vars,
           NEW k \in Keys, DeadAt(k)
    PROVE  ~IsLive(k)'
<1>1. rows[k] \in Row /\ rows[k].expires_at \in Nat \cup {NULL}
  BY DEF DeadAt, Exists, TypeOK, Row, Instant
<1>2. CASE Tick
  <2>1. rows' = rows /\ now' = now + 1 /\ now \in Nat
    BY <1>2, ClockIsNat DEF Tick, Elapse
  <2> QED
    BY <1>1, <2>1, RowAssumption DEF DeadAt, IsLive, IsValid, IsExpired, Exists
<1>3. ASSUME NEW j \in Keys, Delete(j)
      PROVE  ~IsLive(k)'
  <2>1. /\ rows'[k] = IF k = j THEN NULL
                      ELSE IF rows[k].rotated_from = j
                           THEN [rows[k] EXCEPT !.rotated_from = NULL]
                           ELSE rows[k]
        /\ now' = now
    BY <1>3 DEF Delete, DeleteRow, Forget, DeadAt, Exists
  <2>2. /\ [rows[k] EXCEPT !.rotated_from = NULL].is_active = rows[k].is_active
        /\ [rows[k] EXCEPT !.rotated_from = NULL].expires_at = rows[k].expires_at
    BY <1>1 DEF Row
  <2> QED
    BY <2>1, <2>2 DEF DeadAt, IsLive, IsValid, IsExpired, Exists
<1>4. CASE UNCHANGED vars
  BY <1>4 DEF vars, DeadAt, IsLive, Exists
<1> QED
  BY <1>2, <1>3, <1>4

\* Of the UPDATEs, those of revoke() and of the bulk action leave a row that
\* is not active; the others are the ones that may bring a key back.
LEMMA OnlyRestoringUpdates ==
    ASSUME LifecycleInv, NEW w \in Workers, Update(w), NEW k \in Keys,
           DeadAt(k), IsLive(k)'
    PROVE  pc[w] \in {"reactivate", "admin"} /\ pc'[w] = "idle" /\ self[w].key = k
<1>1. TypeOK /\ PendingIsLegal
  BY DEF LifecycleInv
<1>2. ASSUME UNCHANGED <<now, rows>>
      PROVE  FALSE
  BY <1>2 DEF DeadAt, IsLive, Exists
<1>3. ~SaveFails(w)
  BY <1>2 DEF SaveFails, Locally
<1>4. self[w] \in Instance /\ self[w].key \in Keys /\ self[w].row \in Row
  BY <1>1, UpdateRows DEF Instance
<1>5. ASSUME NEW row, Write(self[w].key, row)
      PROVE  self[w].key = k /\ IsValid(row, now)
  <2>1. \A j \in Keys \ {self[w].key} : rows'[j] = rows[j]
    BY <1>1, <1>5 DEF Write, TypeOK
  <2>2. self[w].key = k
    BY <1>2, <1>5, <2>1 DEF Write, DeadAt, IsLive, Exists
  <2>3. rows'[k] = row /\ now' = now
    BY <1>1, <1>5, <2>2 DEF Write, TypeOK
  <2> QED
    BY <2>2, <2>3 DEF IsLive
<1>6. CASE SaveUpdateFields(w)
  <2>1. Write(self[w].key, SaveLifecycle(rows[self[w].key], self[w].row))
    BY <1>6 DEF SaveUpdateFields
  <2>2. rows[self[w].key] \in Row
    BY <1>1, <1>4, <1>6 DEF SaveUpdateFields, Exists, TypeOK
  <2>3. self[w].row.is_active
    <3>1. SaveLifecycle(rows[self[w].key], self[w].row).is_active = self[w].row.is_active
      BY <2>2 DEF SaveLifecycle, Row
    <3>2. IsValid(SaveLifecycle(rows[self[w].key], self[w].row), now)
      BY <1>5, <2>1
    <3> QED
      BY <3>1, <3>2 DEF IsValid
  <2>4. pc[w] = "reactivate"
    BY <1>1, <1>6, <2>3 DEF SaveUpdateFields, PendingIsLegal
  <2> QED
    BY <1>1, <1>5, <1>6, <2>1, <2>4 DEF SaveUpdateFields, Goto, TypeOK
<1>7. CASE SaveAllFields(w)
  BY <1>1, <1>5, <1>7 DEF SaveAllFields, Goto, TypeOK
<1> QED
  BY <1>3, <1>6, <1>7 DEF Update

\* A rotation shortens the life of the key it replaces and adds another one.
LEMMA RotationsRestoreNothing ==
    ASSUME LifecycleInv, NEW w \in Workers, Rotation(w), NEW k \in Keys, DeadAt(k)
    PROVE  ~IsLive(k)'
<1>1. TypeOK /\ RotationInv
  BY DEF LifecycleInv
<1>2. CASE ~RotateCommit(w)
  BY <1>1, <1>2, RotationRows DEF DeadAt, IsLive, Exists
<1>3. CASE RotateCommit(w)
  <2>1. UNCHANGED now /\ k # fresh[w].key
    BY <1>1, <1>3, CommitRows DEF RotateCommit, RotationInv, FreshIsHidden, DeadAt
  <2>2. CASE k # self[w].key
    BY <1>1, <1>3, <2>1, <2>2, CommitRows DEF DeadAt, IsLive, Exists
  <2>3. CASE k = self[w].key
    <3>1. PICK t \in 0 .. now : current[w] = Retired(rows[k], t, grace[w])
      BY <1>1, <1>3, <2>3 DEF RotationInv, CurrentIsRetired, RotateCommit
    <3>2. t \in Nat /\ now \in Nat /\ grace[w] \in (Nat \ {0}) \cup {NULL}
      BY <1>1, <3>1, ClockIsNat DEF TypeOK
    <3>3. rows[k] \in Row /\ rows'[k] = Synced(rows[k], Retired(rows[k], t, grace[w]))
      BY <1>1, <1>3, <2>3, <3>1, CommitRows
    <3>4. IsValid(Synced(rows[k], Retired(rows[k], t, grace[w])), now)
            => IsValid(rows[k], now)
      BY <3>2, <3>3, RetiringShortensLife
    <3> QED
      BY <2>1, <3>3, <3>4 DEF DeadAt, IsLive, Exists
  <2> QED
    BY <2>2, <2>3
<1> QED
  BY <1>2, <1>3

\* A revoked or expired key stays dead until an explicit reactivate() or a
\* saved form names it.
THEOREM OnlyRestorersBringBack == Spec => OnlyRestorersRestore
<1> DEFINE Restored ==
      \A k \in Keys :
         DeadAt(k) /\ IsLive(k)' =>
            \E w \in Workers : /\ pc[w] \in {"reactivate", "admin"}
                               /\ pc'[w] = "idle"
                               /\ self[w].key = k
<1>1. LifecycleInv /\ [Next]_vars => [Restored]_vars
  <2> SUFFICES ASSUME LifecycleInv, [Next]_vars, NEW k \in Keys,
                      DeadAt(k), IsLive(k)'
               PROVE  \E w \in Workers : /\ pc[w] \in {"reactivate", "admin"}
                                         /\ pc'[w] = "idle"
                                         /\ self[w].key = k
    OBVIOUS
  <2>1. TypeOK /\ RotationInv
    BY DEF LifecycleInv
  <2>2. ASSUME NEW w \in Workers, Call(w)
        PROVE  FALSE
    <3>1. k \in minted
      BY <2>1 DEF RotationInv, NamedIsMinted, DeadAt
    <3>2. rows'[k] = rows[k] /\ now' = now
      BY <2>1, <2>2, <3>1, CallRows DEF GenerateKey, TypeOK
    <3> QED
      BY <3>2 DEF DeadAt, IsLive, Exists
  <2> QED
    BY <2>1, <2>2, SurroundingsRestoreNothing, OnlyRestoringUpdates,
       RotationsRestoreNothing DEF Next
<1> QED
  BY <1>1, LifecycleInvariant, PTL DEF Spec, OnlyRestorersRestore

-----------------------------------------------------------------------------
(* When revoke() may trust its instance *)

\* Nobody reactivates keys or saves a form, and no UPDATE fails: what the
\* early return of revoke() takes for granted.
NothingRestores ==
    Operations \cap {"reactivate", "edit", "toggle", "extend", "failure"} = {}

\* An instance that says its key is inactive is right, unless the statement
\* that is to make it right has yet to run.
InstancesAreRight ==
    \A w \in Workers :
        /\ pc[w] \notin {"reactivate", "admin"}
        /\ self[w] # NULL /\ pc[w] # "revoke" /\ Exists(self[w].key)
             => self[w].row.is_active \/ ~rows[self[w].key].is_active

\* No key that an instance names is created or made active.
LEMMA NamedKeysFade ==
    ASSUME LifecycleInv, InstancesAreRight, [Next]_vars,
           NEW x \in Workers, self[x] # NULL, NEW k, k = self[x].key, Exists(k)'
    PROVE  Exists(k) /\ (rows'[k].is_active => rows[k].is_active)
<1>1. /\ TypeOK /\ RotationInv /\ PendingIsLegal
      /\ k \in Keys /\ k \in minted
  BY DEF LifecycleInv, TypeOK, Instance, RotationInv, NamedIsMinted
<1>2. CASE rows'[k] = rows[k]
  BY <1>2 DEF Exists
<1>3. ASSUME NEW j \in Keys, Delete(j)
      PROVE  Exists(k) /\ (rows'[k].is_active => rows[k].is_active)
  <2>1. rows'[k] = IF k = j THEN NULL
                   ELSE IF Exists(k) /\ rows[k].rotated_from = j
                        THEN [rows[k] EXCEPT !.rotated_from = NULL]
                        ELSE rows[k]
    BY <1>1, <1>3 DEF Delete, DeleteRow, Forget
  <2>2. Exists(k)
    BY <2>1 DEF Exists
  <2>3. rows[k] \in Row
    BY <1>1, <2>2 DEF TypeOK, Exists
  <2>4. [rows[k] EXCEPT !.rotated_from = NULL].is_active = rows[k].is_active
    BY <2>3 DEF Row
  <2> QED
    BY <2>1, <2>2, <2>4 DEF Exists
<1>4. ASSUME NEW w \in Workers, Call(w)
      PROVE  rows'[k] = rows[k]
  BY <1>1, <1>4, CallRows DEF GenerateKey, TypeOK
<1>5. ASSUME NEW w \in Workers, Update(w)
      PROVE  Exists(k) /\ (rows'[k].is_active => rows[k].is_active)
  <2>1. self[w] \in Instance /\ self[w].row \in Row
    BY <1>1, <1>5, UpdateRows DEF Instance
  <2>2. ~SaveAllFields(w)
    BY DEF InstancesAreRight, SaveAllFields
  <2>3. CASE SaveFails(w)
    BY <1>2, <2>3 DEF SaveFails, Locally
  <2>4. CASE SaveUpdateFields(w)
    <3>1. /\ Exists(self[w].key) /\ pc[w] = "revoke"
          /\ Write(self[w].key, SaveLifecycle(rows[self[w].key], self[w].row))
      BY <2>4 DEF SaveUpdateFields, InstancesAreRight
    <3>2. CASE k # self[w].key
      BY <1>1, <1>2, <3>1, <3>2 DEF Write, TypeOK
    <3>3. CASE k = self[w].key
      <4>1. rows[k] \in Row /\ ~self[w].row.is_active
        <5>1. rows[k] \in Row
          BY <1>1, <3>1, <3>3 DEF TypeOK, Exists
        <5>2. ~self[w].row.is_active
          BY <1>1, <3>1 DEF PendingIsLegal
        <5> QED
          BY <5>1, <5>2
      <4>2. rows'[k] = SaveLifecycle(rows[k], self[w].row)
        BY <1>1, <3>1, <3>3 DEF Write, TypeOK
      <4>3. ~rows'[k].is_active
        BY <2>1, <4>1, <4>2 DEF SaveLifecycle, Row
      <4> QED
        BY <3>1, <3>3, <4>3
    <3> QED
      BY <3>2, <3>3
  <2> QED
    BY <1>5, <2>2, <2>3, <2>4 DEF Update
<1>6. ASSUME NEW w \in Workers, Rotation(w)
      PROVE  Exists(k) /\ (rows'[k].is_active => rows[k].is_active)
  <2>1. CASE ~RotateCommit(w)
    BY <1>1, <1>2, <1>6, <2>1, RotationRows
  <2>2. CASE RotateCommit(w)
    <3>1. k # fresh[w].key
      BY <1>1, <2>2 DEF RotateCommit, RotationInv, FreshIsHidden
    <3>2. CASE k # self[w].key
      BY <1>1, <1>2, <2>2, <3>1, <3>2, CommitRows
    <3>3. CASE k = self[w].key
      BY <1>1, <2>2, <3>3
         DEF RotateCommit, RotationInv, HoldsItsLock, PendingIsLegal, InTxn
    <3> QED
      BY <3>2, <3>3
  <2> QED
    BY <2>1, <2>2
<1>7. CASE UNCHANGED vars \/ Tick
  BY <1>2, <1>7 DEF vars, Tick, Elapse
<1> QED
  BY <1>2, <1>3, <1>4, <1>5, <1>6, <1>7 DEF Next

\* Whoever takes no step, or keeps its instance, stays right.
LEMMA UnmovedStaysRight ==
    ASSUME LifecycleInv, InstancesAreRight, [Next]_vars, NEW x \in Workers,
           self'[x] = self[x], pc[x] # "revoke", self[x] # NULL,
           Exists(self[x].key)'
    PROVE  self[x].row.is_active \/ ~rows'[self[x].key].is_active
BY NamedKeysFade DEF InstancesAreRight

\* The instance a call leaves its worker with is right about its key.
LEMMA MovedIsRight ==
    ASSUME NothingRestores, LifecycleInv, InstancesAreRight, [Next]_vars,
           NEW x \in Workers, Moves(x), self'[x] # NULL, pc'[x] # "revoke",
           rows'[self'[x].key] # NULL
    PROVE  self'[x].row.is_active \/ ~rows'[self'[x].key].is_active
<1>1. TypeOK /\ RotationInv /\ PendingIsLegal
  BY DEF LifecycleInv
<1>2. ASSUME self'[x] = self[x], pc[x] # "revoke"
      PROVE  self'[x].row.is_active \/ ~rows'[self'[x].key].is_active
  BY <1>2, UnmovedStaysRight DEF Exists
<1>3. CASE Call(x)
  <2>1. ASSUME NEW k \in Keys, Load(x, k)
        PROVE  self'[x].row.is_active \/ ~rows'[self'[x].key].is_active
    <3>1. self'[x] = [key |-> k, row |-> rows[k]] /\ rows' = rows
      BY <1>1, <2>1 DEF Load, Hold, Locally, TypeOK
    <3> QED
      BY <3>1
  <2>2. ASSUME NEW k \in Keys, NEW active \in BOOLEAN, NEW e \in Lifespans,
               GenerateKey(x, k, active, e)
        PROVE  self'[x].row.is_active \/ ~rows'[self'[x].key].is_active
    <3>1. /\ self'[x] = [key |-> k, row |-> NewRow(active, e, NULL)]
          /\ rows'[k] = NewRow(active, e, NULL)
      BY <1>1, <2>2 DEF GenerateKey, Hold, TypeOK
    <3> QED
      BY <3>1
  <2>3. ASSUME \/ \E reason \in CallerReasons : BeginRevoke(x, reason)
               \/ RevokeSelected(x)
        PROVE  FALSE
    BY <1>1, <2>3 DEF BeginRevoke, RevokeSelected, Goto, TypeOK
  <2>4. ~BeginReactivate(x) /\ ~AdminPost(x)
    BY DEF BeginReactivate, AdminPost, FormMayHold, NothingRestores
  <2>5. ASSUME NEW g \in Graces \cup {NULL}, BeginRotate(x, g)
        PROVE  self'[x].row.is_active \/ ~rows'[self'[x].key].is_active
    BY <1>2, <2>5 DEF BeginRotate, Ready
  <2> QED
    BY <1>3, <2>1, <2>2, <2>3, <2>4, <2>5 DEF Call
<1>4. CASE Update(x)
  <2>1. self[x] \in Instance /\ self[x].row \in Row /\ self'[x] = self[x]
    BY <1>1, <1>4, UpdateRows DEF Instance
  <2>2. pc[x] = "revoke"
    BY <1>4 DEF Update, SaveUpdateFields, SaveAllFields, SaveFails, Calling,
                InstancesAreRight
  <2>3. ~SaveAllFields(x)
    BY <2>2 DEF SaveAllFields
  <2>4. CASE SaveFails(x)
    BY <2>1, <2>2, <2>4 DEF SaveFails, TargetGone, NothingRestores, Locally,
                            Exists
  <2>5. CASE SaveUpdateFields(x)
    <3>1. /\ Exists(self[x].key)
          /\ rows' = [rows EXCEPT ![self[x].key] =
                                    SaveLifecycle(rows[self[x].key], self[x].row)]
      BY <2>5 DEF SaveUpdateFields, Write
    <3>2. ~self[x].row.is_active /\ rows[self[x].key] \in Row
      BY <1>1, <2>1, <2>2, <3>1 DEF PendingIsLegal, TypeOK, Exists, Instance
    <3>3. rows'[self[x].key] = SaveLifecycle(rows[self[x].key], self[x].row)
      BY <1>1, <2>1, <3>1 DEF TypeOK, Instance
    <3>4. ~rows'[self[x].key].is_active
      BY <2>1, <3>2, <3>3 DEF SaveLifecycle, Row
    <3> QED
      BY <2>1, <3>4
  <2> QED
    BY <1>4, <2>3, <2>4, <2>5 DEF Update
<1>5. CASE Rotation(x)
  <2>1. CASE ~RotateCommit(x)
    <3>1. pc[x] # "revoke"
      BY <1>5 DEF Rotation, RotateProgress, RotateLock, RotateRefused, RotateCheck,
         RotateConflict, RotateInsert, RotateRetire, RotateCommit, RotateAbort,
         RotateExhausted,
         InTxn
    <3> QED
      BY <1>1, <1>2, <1>5, <2>1, <3>1, RotationRows
  <2>2. CASE RotateCommit(x)
    <3>1. /\ self[x] \in Instance /\ self[x].row \in Row
          /\ current[x] \in Row /\ rows[self[x].key] \in Row
          /\ self'[x].key = self[x].key
          /\ rows'[self[x].key] = Synced(rows[self[x].key], current[x])
      BY <1>1, <2>2, CommitRows DEF Instance
    <3>2. self'[x].row = Synced(self[x].row, current[x])
      BY <1>1, <2>2 DEF RotateCommit, Hold, TypeOK
    <3>3. \A row \in Row : Synced(row, current[x]).is_active = current[x].is_active
      BY <3>1 DEF Synced, SaveLifecycle, Row
    <3> QED
      BY <3>1, <3>2, <3>3
  <2> QED
    BY <2>1, <2>2
<1> QED
  BY <1>3, <1>4, <1>5 DEF Moves

\* Where nothing brings keys back, every step keeps the instances right.
LEMMA RightStep ==
    NothingRestores /\ LifecycleInv /\ InstancesAreRight /\ [Next]_vars
        => InstancesAreRight'
<1> SUFFICES ASSUME NothingRestores, LifecycleInv, InstancesAreRight, [Next]_vars,
                    NEW x \in Workers
             PROVE  /\ pc'[x] \notin {"reactivate", "admin"}
                    /\ self'[x] # NULL /\ pc'[x] # "revoke" /\ rows'[self'[x].key] # NULL
                         => self'[x].row.is_active \/ ~rows'[self'[x].key].is_active
  BY DEF InstancesAreRight, Exists
<1>1. TypeOK
  BY DEF LifecycleInv
<1>2. pc'[x] \notin {"reactivate", "admin"}
  <2> SUFFICES ASSUME pc'[x] \in {"reactivate", "admin"}
               PROVE  FALSE
    OBVIOUS
  <2>1. ~Stays(x)
    BY DEF Stays, Registers, InstancesAreRight
  <2>2. ~BeginReactivate(x) /\ ~AdminPost(x)
    BY DEF BeginReactivate, AdminPost, FormMayHold, NothingRestores
  <2>3. ~RevokeSelected(x) /\ \A reason \in CallerReasons : ~BeginRevoke(x, reason)
    BY <1>1 DEF RevokeSelected, BeginRevoke, Goto, TypeOK
  <2> QED
    BY <1>1, <2>1, <2>2, <2>3, CallMoves DEF Calling
<1>3. CASE Stays(x)
  BY <1>2, <1>3, UnmovedStaysRight DEF Stays, Registers, Exists
<1>4. CASE ~Stays(x)
  <2>1. Moves(x)
    <3>1. ASSUME NEW w \in Workers, Moves(w)
          PROVE  w = x
      BY <1>1, <1>4, <3>1, Frame DEF Stays
    <3> QED
      BY <1>4, <3>1 DEF Next, Moves, Tick, Delete, vars, Stays, Registers
  <2> QED
    BY <1>2, <2>1, MovedIsRight
<1> QED
  BY <1>3, <1>4

\* revoke() may return early: where nobody brings keys back and no UPDATE
\* fails, the instance that says "already revoked" is right about the table.
THEOREM EarlyReturnsAreSafe == NothingRestores => (Spec => []EarlyReturnIsSafe)
<1> SUFFICES ASSUME NothingRestores
             PROVE  Spec => []EarlyReturnIsSafe
  OBVIOUS
<1>1. Init => InstancesAreRight
  BY DEF Init, InstancesAreRight
<1>2. LifecycleInv /\ InstancesAreRight /\ [Next]_vars => InstancesAreRight'
  BY RightStep
<1>3. InstancesAreRight => EarlyReturnIsSafe
  BY DEF InstancesAreRight, EarlyReturnIsSafe, Ready, AlreadyRevoked
<1> QED
  BY <1>1, <1>2, <1>3, LifecycleInvariant, PTL DEF Spec
=============================================================================
