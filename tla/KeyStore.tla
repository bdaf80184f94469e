------------------------------ MODULE KeyStore ------------------------------
(***************************************************************************)
(* What the key table promises whoever reads it, with every operation of   *)
(* the package reduced to one atomic step: the abstract specification that *)
(* KeyLifecycle, whose calls take several database statements and overlap, *)
(* is shown to implement.                                                  *)
(***************************************************************************)
EXTENDS KeyTable

CONSTANT Forms      \* whether the admin's change form is in use

Create(k, active, expiry) ==
    /\ ~Exists(k)
    /\ Write(k, NewRow(active, expiry, NULL))

\* The instant recorded is the one the caller read before its UPDATE ran.
Revoke(k, t, reason) ==
    /\ Exists(k)
    /\ Write(k, Revoked(rows[k], t, reason))

Reactivate(k) ==
    /\ Exists(k)
    /\ Write(k, Reactivated(rows[k]))

\* The key is replaced and retired in one step, only while it is active and
\* every live replacement it has was brought back by somebody else; the new
\* row inherits the expiry the old one had, unless an override replaces it.
Rotate(k, n, t, grace) ==
    /\ Exists(k) /\ rows[k].is_active
    /\ ~Exists(n)
    /\ grace # NULL => grace > 0
    /\ LiveReplacements(k) \subseteq restored
    /\ \E expiry \in {rows[k].expires_at} \cup Lifespans :
         rows' = [rows EXCEPT ![k] = Retired(@, t, grace),
                              ![n] = NewRow(TRUE, expiry, k)]
    /\ UNCHANGED <<now, restored>>

\* The admin's change form replaces the whole row, by any consistent one.
Overwrite(k) ==
    /\ Forms
    /\ rows'[k] \in Row
    /\ Unrevoked(rows'[k])
    /\ Write(k, rows'[k])

-----------------------------------------------------------------------------

Next ==
    \/ Elapse
    \/ \E k \in Keys :
         \/ \E active \in BOOLEAN, e \in Lifespans : Create(k, active, e)
         \/ \E t \in 0 .. now, reason \in Reasons : Revoke(k, t, reason)
         \/ Reactivate(k)
         \/ \E n \in Keys \ {k}, t \in 0 .. now, g \in Graces \cup {NULL} :
              Rotate(k, n, t, g)
         \/ Overwrite(k)
         \/ DeleteRow(k)

Spec == TableInit /\ [][Next]_tableVars
=============================================================================
