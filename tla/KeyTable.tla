------------------------------ MODULE KeyTable ------------------------------
(***************************************************************************)
(* The committed table of API keys, the clock, and the questions and       *)
(* writes that both the abstract and the detailed specification are made   *)
(* of.                                                                     *)
(***************************************************************************)
EXTENDS KeyRow

VARIABLES
    now,        \* the clock that timezone.now() reads
    rows,       \* the committed table: a row, or NULL, for every key
    restored    \* history: the replacements somebody brought back to life

tableVars == <<now, rows, restored>>

TableInit ==
    /\ now = 0
    /\ rows = [k \in Keys |-> NULL]
    /\ restored = {}

-----------------------------------------------------------------------------

Exists(k) == rows[k] # NULL

IsLive(k) == Exists(k) /\ IsValid(rows[k], now)

LiveReplacements(k) == {n \in Keys : IsLive(n) /\ rows[n].rotated_from = k}

\* Writing `row` over row k makes k a live replacement that it was not before.
Restores(k, row) ==
    /\ IsValid(row, now)
    /\ row.rotated_from # NULL
    /\ ~(IsLive(k) /\ rows[k].rotated_from = row.rotated_from)

-----------------------------------------------------------------------------

\* Any write of one row but a rotation's, with its entry in the history.
Write(k, row) ==
    /\ rows' = [rows EXCEPT ![k] = row]
    /\ restored' = IF Restores(k, row) THEN restored \cup {k} ELSE restored
    /\ UNCHANGED now

\* The deleted key's replacements forget it (on_delete=SET_NULL).
Forget(k) ==
    [n \in Keys |->
        IF n = k THEN NULL
        ELSE IF Exists(n) /\ rows[n].rotated_from = k
             THEN [rows[n] EXCEPT !.rotated_from = NULL]
             ELSE rows[n]]

DeleteRow(k) ==
    /\ Exists(k)
    /\ rows' = Forget(k)
    /\ UNCHANGED <<now, restored>>

Elapse == now' = now + 1 /\ UNCHANGED <<rows, restored>>

-----------------------------------------------------------------------------

\* An active row carries no record of a revocation.
Unrevoked(row) ==
    row.is_active => row.revoked_at = NULL /\ row.revoked_reason = ""

\* The admin guide promises that "a key can't end up active-but-revoked": no
\* interleaving of the calls that write is_active, revoked_at and
\* revoked_reason leaves an active row with a date or a reason of revocation.
ActiveIsUnrevoked == \A k \in Keys : Exists(k) => Unrevoked(rows[k])

\* rotate() promises that neither a stale instance nor two concurrent
\* rotations leave two live replacements of a key.  The replacements that
\* reactivate() or the admin's form brought back by name are not counted:
\* neither of them looks for another live replacement.
AtMostOneLiveReplacement ==
    \A k \in Keys : \A m, n \in LiveReplacements(k) \ restored : m = n
=============================================================================
