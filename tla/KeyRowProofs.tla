---------------------------- MODULE KeyRowProofs ----------------------------
(***************************************************************************)
(* What the functions of KeyRow return, for every row and every instant.   *)
(***************************************************************************)
EXTENDS KeyRow, TLAPS

\* A row that generate_key() or the admin's add form inserts has the type.
LEMMA NewRowType ==
    ASSUME NEW active \in BOOLEAN, NEW expiry \in Instant,
           NEW origin \in Keys \cup {NULL}
    PROVE  NewRow(active, expiry, origin) \in Row
BY DEF NewRow, Row, Instant, Reasons

\* revoke() keeps a row's type.
LEMMA RevokedType ==
    ASSUME NEW row \in Row, NEW t \in Nat, NEW reason \in Reasons
    PROVE  Revoked(row, t, reason) \in Row
BY DEF Revoked, Row, Instant

\* reactivate() keeps a row's type.
LEMMA ReactivatedType ==
    ASSUME NEW row \in Row
    PROVE  Reactivated(row) \in Row
BY DEF Reactivated, Row, Instant, Reasons

\* The partial save keeps a row's type.
LEMMA SaveLifecycleType ==
    ASSUME NEW stored \in Row, NEW instance \in Row
    PROVE  SaveLifecycle(stored, instance) \in Row
BY DEF SaveLifecycle, Row

\* The caller's instance keeps its type when rotate() brings it up to date.
LEMMA SyncedType ==
    ASSUME NEW row \in Row, NEW copy \in Row
    PROVE  Synced(row, copy) \in Row
BY DEF Synced, SaveLifecycle, Row

\* Retiring a key, at once or after a positive grace period, keeps its type.
LEMMA RetiredType ==
    ASSUME NEW row \in Row, NEW t \in Nat,
           NEW g \in (Nat \ {0}) \cup {NULL}
    PROVE  Retired(row, t, g) \in Row
<1>1. CASE g = NULL
  <2>1. "rotated" \in Reasons
    BY DEF Reasons
  <2> QED
    BY <1>1, <2>1, RevokedType DEF Retired
<1>2. CASE g \in Nat \ {0}
  <2>1. t + g \in Instant
    BY <1>2 DEF Instant
  <2>2. [row EXCEPT !.expires_at = t + g] \in Row
    BY <2>1 DEF Row
  <2> QED
    BY <1>2, <2>2, RowAssumption DEF Retired
<1> QED
  BY <1>1, <1>2

\* Retiring a key never makes it valid at an instant at which it was not.
LEMMA RetiringShortensLife ==
    ASSUME NEW row \in Row, NEW t \in Nat, NEW u \in Nat,
           NEW g \in (Nat \ {0}) \cup {NULL}
    PROVE  IsValid(Synced(row, Retired(row, t, g)), u) => IsValid(row, u)
<1> HAVE IsValid(Synced(row, Retired(row, t, g)), u)
<1> DEFINE after == Synced(row, Retired(row, t, g))
<1> USE RowAssumption
<1>1. row.is_active \in BOOLEAN /\ row.expires_at \in Nat \cup {NULL}
  BY DEF Row, Instant
<1>2. Retired(row, t, g) \in Row
  BY RetiredType
<1>3. /\ after.is_active = Retired(row, t, g).is_active
      /\ after.expires_at = Retired(row, t, g).expires_at
  BY <1>2 DEF Synced, SaveLifecycle, Row
<1>4. CASE g = NULL
  <2>1. ~Retired(row, t, g).is_active
    BY <1>4 DEF Retired, Revoked, Row
  <2> QED
    BY <1>3, <2>1 DEF IsValid
<1>5. CASE g # NULL /\ (row.expires_at = NULL \/ row.expires_at > t + g)
  <2>1. Retired(row, t, g) = [row EXCEPT !.expires_at = t + g]
    BY <1>5 DEF Retired
  <2>2. Retired(row, t, g).is_active = row.is_active /\ Retired(row, t, g).expires_at = t + g
    BY <2>1 DEF Row
  <2>3. row.is_active /\ ~(t + g <= u)
    BY <1>3, <1>5, <2>2 DEF IsValid, IsExpired
  <2>4. row.expires_at # NULL => ~(row.expires_at <= u)
    BY <1>1, <1>5, <2>3
  <2> QED
    BY <2>3, <2>4 DEF IsValid, IsExpired
<1>6. CASE g # NULL /\ ~(row.expires_at = NULL \/ row.expires_at > t + g)
  <2>1. Retired(row, t, g) = row
    BY <1>6 DEF Retired
  <2> QED
    BY <1>3, <2>1 DEF IsValid, IsExpired
<1> QED
  BY <1>4, <1>5, <1>6

\* The change form and its correction of the audit columns keep the type.
LEMMA FormAppliedType ==
    ASSUME NEW row \in Row, NEW box \in BOOLEAN, NEW expiry \in Instant,
           NEW t \in Nat
    PROVE  FormApplied(row, box, expiry, t) \in Row
<1> DEFINE edited == [row EXCEPT !.expires_at = expiry]
<1>1. edited \in Row
  BY DEF Row
<1>2. Reactivated(edited) \in Row
  BY <1>1, ReactivatedType
<1>3. Revoked(edited, t, "deactivated via admin") \in Row
  BY <1>1, RevokedType DEF Reasons
<1>4. [edited EXCEPT !.is_active = FALSE] \in Row
  BY <1>1 DEF Row
<1> QED
  BY <1>1, <1>2, <1>3, <1>4 DEF FormApplied
=============================================================================
