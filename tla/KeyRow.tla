------------------------------- MODULE KeyRow -------------------------------
(***************************************************************************)
(* One row of the API key table and the pure functions models.py and       *)
(* admin.py apply to it.  Only the columns that decide whether a key works *)
(* are kept; name, scopes, limits and metadata are payload that no         *)
(* operation of the life cycle reads.  Instants are natural numbers.       *)
(***************************************************************************)
EXTENDS Integers

CONSTANTS
    Keys,           \* the rows' identities: a primary key with its prefix and hash
    CallerReasons,  \* the texts callers give to revoke(reason=...)
    Expiries,       \* the expires_at values callers and admins choose
    Graces,         \* the grace periods callers pass to rotate()
    NULL            \* the database's NULL, and Python's None

\* revoke(reason=...) is free text; the code itself writes the four others.
Reasons == CallerReasons \cup
           {"", "rotated", "revoked via admin", "deactivated via admin"}

Instant == Nat \cup {NULL}

Lifespans == Expiries \cup {NULL}

Row == [is_active      : BOOLEAN,
        expires_at     : Instant,
        revoked_at     : Instant,
        revoked_reason : Reasons,
        rotated_from   : Keys \cup {NULL}]

ASSUME RowAssumption ==
    /\ NULL \notin Nat
    /\ NULL \notin Keys
    /\ NULL \notin Row
    /\ Expiries \subseteq Nat
    /\ Graces \subseteq Int

-----------------------------------------------------------------------------

\* A new row, as generate_key() and the admin's add form insert it.
NewRow(active, expiry, origin) ==
    [is_active      |-> active,
     expires_at     |-> expiry,
     revoked_at     |-> NULL,
     revoked_reason |-> "",
     rotated_from   |-> origin]

IsExpired(row, t) == row.expires_at # NULL /\ row.expires_at <= t

IsValid(row, t) == row.is_active /\ ~IsExpired(row, t)

\* revoke()'s early return: this instance is already inactive and dated.
AlreadyRevoked(row) == ~row.is_active /\ row.revoked_at # NULL

Revoked(row, t, reason) ==
    [row EXCEPT !.is_active = FALSE, !.revoked_at = t, !.revoked_reason = reason]

BugReactivated(row) == [row EXCEPT !.is_active = TRUE]

Reactivated(row) ==
    [row EXCEPT !.is_active = TRUE, !.revoked_at = NULL, !.revoked_reason = ""]

\* save(update_fields=["is_active", "revoked_at", "revoked_reason"]): of the
\* stored row, only these three columns take the instance's values.
SaveLifecycle(stored, instance) ==
    [stored EXCEPT !.is_active      = instance.is_active,
                   !.revoked_at     = instance.revoked_at,
                   !.revoked_reason = instance.revoked_reason]

\* The four columns that a rotation may change, taken over from its own copy.
Synced(row, copy) ==
    [SaveLifecycle(row, copy) EXCEPT !.expires_at = copy.expires_at]

BugRetired(row, t, grace) ==
    IF grace = NULL
    THEN Revoked(row, t, "rotated")
    ELSE [row EXCEPT !.expires_at = t + grace]

\* What rotate() does to the key it replaces: revoked at once, or cut off at
\* the end of the grace period unless it expires sooner anyway.
Retired(row, t, grace) ==
    IF grace = NULL
    THEN Revoked(row, t, "rotated")
    ELSE IF row.expires_at = NULL \/ row.expires_at > t + grace
         THEN [row EXCEPT !.expires_at = t + grace]
         ELSE row

BugFormApplied(row, box, expiry, t) ==
    [row EXCEPT !.is_active = box, !.expires_at = expiry]

\* The change form's fields laid over the row read by the POST, and
\* save_model()'s correction of the revocation record when the box differs.
FormApplied(row, box, expiry, t) ==
    LET edited == [row EXCEPT !.expires_at = expiry]
    IN  IF box = row.is_active       THEN edited
        ELSE IF box                  THEN Reactivated(edited)
        ELSE IF row.revoked_at = NULL
                                     THEN Revoked(edited, t, "deactivated via admin")
        ELSE [edited EXCEPT !.is_active = FALSE]
=============================================================================
