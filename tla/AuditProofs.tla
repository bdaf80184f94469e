---------------------------- MODULE AuditProofs -----------------------------
(***************************************************************************)
(* The auditor's records are the committed history: what every row and     *)
(* every instance says about the past, and what has been recorded, is yet  *)
(* to be recorded and is deferred to a commit, when no receiver breaks the *)
(* block it is called in.                                                  *)
(***************************************************************************)
EXTENDS SignalsProofs

-----------------------------------------------------------------------------
(* The rows behind the history *)

Inactive(t) == {k \in Stored(t) : ~t[k].is_active}

Dated(t) == \A k \in Inactive(t) : t[k].revoked_at # NULL

\* Every table to go back to is a part of the present one's history.
FrameRows ==
    \A i \in 1 .. Len(stack) :
        /\ Dated(stack[i].table)
        /\ Stored(stack[i].table) \subseteq minted
        /\ Inactive(stack[i].table) \subseteq Inactive(table)
        /\ \A j \in 1 .. Len(stack) :
             i <= j => Inactive(stack[i].table) \subseteq Inactive(stack[j].table)

TableRows == Dated(table) /\ Stored(table) \subseteq minted

\* A revocation is of a key that is active, a new key is new, and a rotation's
\* copy of the row agrees with the table.
CallRows ==
    call # NULL =>
        /\ call.op = "revoke" =>
            /\ AlreadyRevoked(call.row)
            /\ instance # NULL /\ AlreadyRevoked(instance.row)
            /\ call.at = "update" => call.key \notin Inactive(table)
        /\ call.op # "revoke" =>
            /\ call.new \in minted
            /\ call.at \in {"lock", "insert"} => call.new \notin Stored(table)
        /\ call.op = "rotate" =>
            /\ instance.key = call.key
            /\ call.at = "cutoff" => call.grace # NULL
            /\ call.at \in {"insert", "created", "update", "cutoff"} =>
                /\ table[call.key].is_active /\ call.row.is_active
                /\ call.row.rotated_from = table[call.key].rotated_from

\* An instance that says "active" is of a key that is, or that was rolled back.
InstanceRow ==
    instance # NULL /\ ~AlreadyRevoked(instance.row) =>
        instance.key \notin Inactive(IF Rotating THEN Top.table ELSE table)

RowsInv == FrameRows /\ TableRows /\ CallRows /\ InstanceRow

\* What each statement does to the rows.
LEMMA InsertRows ==
    ASSUME TypeOK, CallOK, TableRows, CallRows, Insert
    PROVE  /\ call.new \in Keys /\ table[call.new] = NULL
           /\ table' = [table EXCEPT ![call.new] = table'[call.new]]
           /\ table'[call.new] \in Row
           /\ table'[call.new].is_active
           /\ table'[call.new].rotated_from = call.key
           /\ Inactive(table') = Inactive(table)
           /\ Stored(table') = Stored(table) \cup {call.new}
           /\ Dated(table') /\ Stored(table') \subseteq minted
<1> USE RowAssumption
<1> DEFINE row == NewRow(TRUE, call.row.expires_at, call.key)
<1>1. /\ call # NULL /\ call.at = "insert"
      /\ table' = [table EXCEPT ![call.new] = row]
  BY DEF Insert
<1>2. call.op # "revoke" /\ call.new \in Keys /\ call \in Calls /\ table \in Tables
  BY <1>1, StageOf DEF TypeOK
<1>3. call.row \in Row /\ call.key \in Keys \cup {NULL}
  BY <1>2 DEF Calls
<1>4. row \in Row
  <2>1. call.row.expires_at \in Instant
    BY <1>3 DEF Row
  <2> QED
    BY <1>3, <2>1, NewRowType
<1>5. row.is_active /\ row.rotated_from = call.key
  BY DEF NewRow
<1> HIDE DEF row
<1>6. table'[call.new] = row /\ \A k \in Keys \ {call.new} : table'[k] = table[k]
  BY <1>1, <1>2 DEF Tables
<1>7. call.new \notin Stored(table) /\ call.new \in minted
  BY <1>1, <1>2 DEF CallRows
<1>8. table[call.new] = NULL
  BY <1>2, <1>7 DEF Stored
<1>9. Stored(table') = Stored(table) \cup {call.new}
  BY <1>2, <1>4, <1>6 DEF Stored
<1>10. Inactive(table') = Inactive(table)
  BY <1>5, <1>6, <1>7, <1>9 DEF Inactive, Stored
<1>11. Dated(table')
  <2>1. \A k \in Inactive(table) : k \in Keys \ {call.new}
    BY <1>7 DEF Inactive, Stored
  <2> QED
    BY <1>6, <1>10, <2>1 DEF TableRows, Dated
<1> QED
  BY <1>1, <1>2, <1>4, <1>5, <1>6, <1>7, <1>8, <1>9, <1>10, <1>11 DEF TableRows

LEMMA UpdateRows ==
    ASSUME TypeOK, CallOK, TableRows, CallRows, Update
    PROVE  /\ call.key \in Keys /\ table[call.key] \in Row
           /\ call.key \notin Inactive(table)
           /\ table' = [table EXCEPT ![call.key] = table'[call.key]]
           /\ table'[call.key] \in Row
           /\ ~table'[call.key].is_active
           /\ table'[call.key].rotated_from = table[call.key].rotated_from
           /\ Inactive(table') = Inactive(table) \cup {call.key}
           /\ Stored(table') = Stored(table)
           /\ Dated(table') /\ Stored(table') \subseteq minted
<1> USE RowAssumption
<1> DEFINE row == IF call.op = "rotate" THEN Retired(call.row, 0, NULL) ELSE call.row
<1> DEFINE new == SaveLifecycle(table[call.key], row)
<1>1. /\ call # NULL /\ call.at = "update" /\ table[call.key] # NULL
      /\ table' = [table EXCEPT ![call.key] = new]
  BY DEF Update
<1>2. /\ call.op \in {"revoke", "rotate"} /\ call.key \in Keys /\ call.row \in Row
      /\ table \in Tables
  BY <1>1, StageOf DEF Calls, TypeOK
<1>3. row \in Row /\ table[call.key] \in Row
  BY <1>1, <1>2, RetiredType DEF Tables
<1>4. ~row.is_active /\ row.revoked_at # NULL
  <2>1. CASE call.op = "rotate"
    <3>1. row = [call.row EXCEPT !.is_active = FALSE, !.revoked_at = 0,
                                 !.revoked_reason = "rotated"]
      BY <2>1, Zenon DEF Retired, Revoked
    <3> HIDE DEF row
    <3>2. row.is_active = FALSE /\ row.revoked_at = 0
      BY <1>2, <3>1 DEF Row
    <3>3. 0 # NULL
      BY RowAssumption
    <3> QED
      BY <3>2, <3>3
  <2>2. CASE call.op = "revoke"
    BY <1>1, <1>2, <2>2 DEF CallRows, AlreadyRevoked
  <2> QED
    BY <1>2, <2>1, <2>2
<1> HIDE DEF row
<1>5. new \in Row
  BY <1>3, SaveLifecycleType
<1>6. /\ ~new.is_active /\ new.revoked_at # NULL
      /\ new.rotated_from = table[call.key].rotated_from
  BY <1>3, <1>4 DEF SaveLifecycle, Row
<1> HIDE DEF new
<1>7. table'[call.key] = new /\ \A k \in Keys \ {call.key} : table'[k] = table[k]
  BY <1>1, <1>2 DEF Tables
<1>8. call.key \notin Inactive(table)
  BY <1>1, <1>2 DEF CallRows, Inactive
<1>9. Stored(table') = Stored(table)
  BY <1>1, <1>2, <1>5, <1>7 DEF Stored
<1>10. Inactive(table') = Inactive(table) \cup {call.key}
  BY <1>1, <1>2, <1>6, <1>7, <1>9 DEF Inactive, Stored
<1>11. Dated(table')
  <2> SUFFICES ASSUME NEW k \in Inactive(table')
               PROVE  table'[k].revoked_at # NULL
    BY DEF Dated
  <2>1. CASE k = call.key
    BY <1>6, <1>7, <2>1
  <2>2. CASE k # call.key
    <3>1. k \in Inactive(table) /\ k \in Keys
      BY <1>10, <2>2 DEF Inactive, Stored
    <3> QED
      BY <1>7, <2>2, <3>1 DEF TableRows, Dated
  <2> QED
    BY <2>1, <2>2
<1> QED
  BY <1>1, <1>2, <1>3, <1>5, <1>6, <1>7, <1>8, <1>9, <1>10, <1>11 DEF TableRows

LEMMA CutoffRows ==
    ASSUME TypeOK, CallOK, TableRows, CallRows, Cutoff
    PROVE  /\ call.key \in Keys /\ table[call.key] \in Row
           /\ table[call.key].is_active
           /\ table' = [table EXCEPT ![call.key] = table'[call.key]]
           /\ table'[call.key] \in Row
           /\ table'[call.key].is_active
           /\ table'[call.key].rotated_from = table[call.key].rotated_from
           /\ Inactive(table') = Inactive(table)
           /\ Stored(table') = Stored(table)
           /\ Dated(table') /\ Stored(table') \subseteq minted
<1> USE RowAssumption
<1> DEFINE new == Retired(call.row, 0, call.grace)
<1>1. /\ call # NULL /\ call.at = "cutoff"
      /\ table' = [table EXCEPT ![call.key] = new]
  BY DEF Cutoff
<1>2. /\ call.op = "rotate" /\ call.key \in Keys /\ call.row \in Row
      /\ call.grace \in (Nat \ {0}) \cup {NULL}
      /\ table \in Tables /\ table[call.key] # NULL
  BY <1>1, StageOf DEF TypeOK, CallOK
<1>3. table[call.key] \in Row
  BY <1>2 DEF Tables
<1>4. /\ table[call.key].is_active /\ call.row.is_active
      /\ call.row.rotated_from = table[call.key].rotated_from
  BY <1>1, <1>2 DEF CallRows
<1>5. new \in Row
  BY <1>2, RetiredType
<1>6. new.rotated_from = call.row.rotated_from /\ new.is_active
  <2>1. call.grace # NULL
    BY <1>1, <1>2 DEF CallRows
  <2>2. new = call.row \/ new = [call.row EXCEPT !.expires_at = 0 + call.grace]
    BY <2>1 DEF Retired
  <2> QED
    BY <1>2, <1>4, <2>2 DEF Row
<1> HIDE DEF new
<1>7. table'[call.key] = new /\ \A k \in Keys \ {call.key} : table'[k] = table[k]
  BY <1>1, <1>2 DEF Tables
<1>8. Stored(table') = Stored(table)
  BY <1>2, <1>5, <1>7, RowAssumption DEF Stored
<1>9. Inactive(table') = Inactive(table)
  BY <1>2, <1>4, <1>6, <1>7, <1>8 DEF Inactive, Stored
<1>10. Dated(table')
  <2>1. \A k \in Inactive(table) : k \in Keys \ {call.key}
    BY <1>4 DEF Inactive, Stored
  <2> QED
    BY <1>7, <1>9, <2>1 DEF TableRows, Dated
<1> QED
  BY <1>1, <1>2, <1>3, <1>4, <1>5, <1>6, <1>7, <1>8, <1>9, <1>10 DEF TableRows

\* A step that changes the table is a statement, or rolls it back to where a
\* block began.
TableStep ==
    \/ UNCHANGED table
    \/ Insert
    \/ Update
    \/ Cutoff
    \/ /\ InBlock /\ stack' = SubSeq(stack, 1, Len(stack) - 1)
       /\ table' = Top.table /\ call' = NULL

LEMMA TableChanges ==
    ASSUME ShapeInv, CalmInv, ~broken', [Next]_vars
    PROVE  TableStep
<1>1. TypeOK /\ CallOK
  BY DEF ShapeInv
<1>2. InBlock => Top.savepoint
  BY <1>1, TopIsAFrame DEF CalmInv
<1>3. CASE UNCHANGED vars
  BY <1>3 DEF vars, TableStep
<1>4. CASE CallerEnters \/ CallerLeaves \/ CallerEscapes \/ \E k \in Keys : Load(k)
  BY <1>2, <1>4 DEF CallerEnters, CallerLeaves, CallerEscapes, Load, LeaveBlock, Release,
                    RollBack, CalmInv, Idle, TableStep
<1>5. CASE (\E n \in Keys, e \in Lifespans : BeginGenerate(n, e)) \/ BeginRevoke
  BY <1>5 DEF BeginGenerate, BeginRevoke, TableStep
<1>6. CASE \E n \in Keys, g \in Graces \cup {NULL} : BeginRotate(n, g)
  BY <1>6 DEF BeginRotate, TableStep
<1>7. CASE RotateLock \/ Insert \/ Update \/ Cutoff
  BY <1>7 DEF RotateLock, TableStep
<1>8. CASE SendCreated \/ SendRevoked \/ SendRotated \/ Refused \/ StatementFails
  BY <1>8 DEF SendCreated, SendRevoked, SendRotated, Refused, StatementFails, TableStep
<1>9. CASE RotateLeave
  <2>1. call # NULL /\ call.at = "leave" /\ ~raising
    BY <1>1, <1>9 DEF RotateLeave, TypeOK
  <2>2. ~needs_rollback
    BY <2>1 DEF CalmInv
  <2> QED
    BY <1>9, <2>2 DEF RotateLeave, LeaveBlock, Release, TableStep
<1>10. CASE RotateUnwinds
  <2>1. InBlock
    BY <1>1, <1>10, StageOf DEF RotateUnwinds, Rotating
  <2> QED
    BY <1>2, <1>10, <2>1 DEF RotateUnwinds, RollBack, TableStep
<1> QED
  BY <1>3, <1>4, <1>5, <1>6, <1>7, <1>8, <1>9, <1>10, NextIsSteps DEF Steps

\* What any step does to the rows.
LEMMA TableRowsStep ==
    ASSUME ShapeInv, CalmInv, RowsInv, ~broken', [Next]_vars
    PROVE  /\ TableRows' /\ minted \subseteq minted'
           /\ UNCHANGED stack => Inactive(table) \subseteq Inactive(table')
<1>1. TypeOK /\ CallOK /\ TableRows /\ CallRows /\ TableStep
  BY TableChanges DEF ShapeInv, RowsInv
<1>2. minted \subseteq minted'
  <2>1. CASE UNCHANGED minted
    BY <2>1
  <2>2. CASE ~UNCHANGED minted
    BY <2>2, NextIsSteps
      DEF Steps, vars, CallerEnters, CallerLeaves, CallerEscapes, Load, BeginGenerate,
          BeginRevoke, BeginRotate, RotateLock, Insert, SendCreated, Update, SendRevoked,
          Cutoff, RotateLeave, SendRotated, Refused, StatementFails, RotateUnwinds
  <2> QED
    BY <2>1, <2>2
<1>3. CASE UNCHANGED table
  BY <1>1, <1>2, <1>3 DEF TableRows
<1>4. CASE Insert
  BY <1>1, <1>2, <1>4, InsertRows DEF TableRows
<1>5. CASE Update
  BY <1>1, <1>2, <1>5, UpdateRows DEF TableRows
<1>6. CASE Cutoff
  BY <1>1, <1>2, <1>6, CutoffRows DEF TableRows
<1>7. CASE InBlock /\ stack' = SubSeq(stack, 1, Len(stack) - 1) /\ table' = Top.table
  <2>1. Dated(Top.table) /\ Stored(Top.table) \subseteq minted
    BY <1>1, <1>7, TopIsAFrame DEF RowsInv, FrameRows
  <2>2. stack' # stack
    <3>1. Len(stack') = Len(stack) - 1 /\ Len(stack) \in Nat \ {0}
      BY <1>1, <1>7, PopFrames
    <3>2. \A n \in Nat \ {0} : n - 1 # n
      OBVIOUS
    <3> QED
      BY <3>1, <3>2
  <2> QED
    BY <1>2, <1>7, <2>1, <2>2 DEF TableRows
<1> QED
  BY <1>1, <1>3, <1>4, <1>5, <1>6, <1>7 DEF TableStep

LEMMA FrameRowsStep ==
    ASSUME ShapeInv, CalmInv, RowsInv, ~broken', [Next]_vars
    PROVE  FrameRows'
<1>1. /\ TypeOK /\ BlockStep /\ FrameRows /\ TableRows
      /\ minted \subseteq minted'
      /\ UNCHANGED stack => Inactive(table) \subseteq Inactive(table')
  BY BlocksStayCalm, TableRowsStep DEF ShapeInv, RowsInv
<1>2. CASE UNCHANGED stack
  BY <1>1, <1>2 DEF FrameRows
<1>3. CASE Idle /\ Push /\ UNCHANGED table
  <2> DEFINE frame == [table |-> table, deferred |-> deferred, handed |-> handed,
                       savepoint |-> ~needs_rollback]
  <2>1. frame.table = table
    OBVIOUS
  <2> HIDE DEF frame
  <2>2. ASSUME NEW i \in 1 .. Len(stack')
        PROVE  \/ i \in 1 .. Len(stack) /\ stack'[i] = stack[i]
               \/ i = Len(stack') /\ stack'[i] = frame
    BY <1>1, <1>3, FramesAfterPush DEF frame
  <2>3. Len(stack) \in Nat /\ Len(stack') = Len(stack) + 1
    BY <1>1, <1>3, PushFrames, LenProperties DEF TypeOK
  <2> SUFFICES ASSUME NEW i \in 1 .. Len(stack')
               PROVE  /\ Dated(stack'[i].table)
                      /\ Stored(stack'[i].table) \subseteq minted'
                      /\ Inactive(stack'[i].table) \subseteq Inactive(table')
                      /\ \A j \in 1 .. Len(stack') :
                           i <= j => Inactive(stack'[i].table) \subseteq Inactive(stack'[j].table)
    BY DEF FrameRows
  <2>4. CASE i \in 1 .. Len(stack) /\ stack'[i] = stack[i]
    <3>1. /\ Dated(stack[i].table) /\ Stored(stack[i].table) \subseteq minted
          /\ Inactive(stack[i].table) \subseteq Inactive(table)
          /\ \A j \in 1 .. Len(stack) :
               i <= j => Inactive(stack[i].table) \subseteq Inactive(stack[j].table)
      BY <1>1, <2>4 DEF FrameRows
    <3>2. ASSUME NEW j \in 1 .. Len(stack'), i <= j
          PROVE  Inactive(stack[i].table) \subseteq Inactive(stack'[j].table)
      <4>1. CASE j \in 1 .. Len(stack) /\ stack'[j] = stack[j]
        BY <3>1, <3>2, <4>1
      <4>2. CASE stack'[j] = frame
        BY <2>1, <3>1, <4>2
      <4> QED
        BY <2>2, <4>1, <4>2
    <3> QED
      BY <1>1, <1>3, <2>4, <3>1, <3>2
  <2>5. CASE i = Len(stack') /\ stack'[i] = frame
    <3>1. ASSUME NEW j \in 1 .. Len(stack'), i <= j
          PROVE  j = i
      BY <2>3, <2>5, <3>1
    <3> QED
      BY <1>1, <1>3, <2>1, <2>5, <3>1 DEF TableRows
  <2> QED
    BY <2>2, <2>4, <2>5
<1>4. CASE InBlock /\ stack' = SubSeq(stack, 1, Len(stack) - 1)
           /\ (table' = table \/ table' = Top.table)
  <2>1. \A i \in 1 .. Len(stack') :
          i \in 1 .. Len(stack) /\ i < Len(stack) /\ stack'[i] = stack[i]
    BY <1>1, <1>4, FramesAfterPop
  <2>2. Len(stack) \in 1 .. Len(stack) /\ Top = stack[Len(stack)]
    BY <1>1, <1>4, TopIsAFrame
  <2>3. \A i \in 1 .. Len(stack') : Inactive(stack[i].table) \subseteq Inactive(Top.table)
    <3> TAKE i \in 1 .. Len(stack')
    <3>1. i \in 1 .. Len(stack) /\ i <= Len(stack)
      BY <2>1
    <3> QED
      BY <1>1, <2>2, <3>1 DEF FrameRows
  <2> SUFFICES ASSUME NEW i \in 1 .. Len(stack')
               PROVE  /\ Dated(stack'[i].table)
                      /\ Stored(stack'[i].table) \subseteq minted'
                      /\ Inactive(stack'[i].table) \subseteq Inactive(table')
                      /\ \A j \in 1 .. Len(stack') :
                           i <= j => Inactive(stack'[i].table) \subseteq Inactive(stack'[j].table)
    BY DEF FrameRows
  <2>4. /\ Dated(stack[i].table) /\ Stored(stack[i].table) \subseteq minted
        /\ Inactive(stack[i].table) \subseteq Inactive(table)
        /\ \A j \in 1 .. Len(stack) :
             i <= j => Inactive(stack[i].table) \subseteq Inactive(stack[j].table)
        /\ stack'[i] = stack[i]
    BY <1>1, <2>1 DEF FrameRows
  <2>5. Inactive(stack[i].table) \subseteq Inactive(table')
    BY <1>4, <2>3, <2>4
  <2> QED
    BY <1>1, <2>1, <2>4, <2>5
<1> QED
  BY <1>1, <1>2, <1>3, <1>4 DEF BlockStep, Release, RollBack

LEMMA CallRowsStep ==
    ASSUME ShapeInv, CalmInv, RowsInv, ~broken', [Next]_vars
    PROVE  CallRows'
<1> USE RowAssumption
<1>1. /\ TypeOK /\ CallOK /\ TableRows /\ CallRows /\ InstanceRow
      /\ TypeOK' /\ CallOK'
  BY ShapeStep DEF ShapeInv, RowsInv
<1>2. ASSUME call' = NULL
      PROVE  CallRows'
  BY <1>2 DEF CallRows
<1>3. CASE UNCHANGED vars
  BY <1>1, <1>3 DEF vars, CallRows, Inactive, Stored
<1>4. CASE CallerEnters \/ CallerLeaves \/ CallerEscapes \/ \E k \in Keys : Load(k)
  <2>1. call' = NULL
    BY <1>4 DEF CallerEnters, CallerLeaves, CallerEscapes, Load, Idle
  <2> QED
    BY <1>2, <2>1
<1>5. CASE \E n \in Keys, e \in Lifespans : BeginGenerate(n, e)
  <2>1. PICK n \in Keys, e \in Lifespans : BeginGenerate(n, e)
    BY <1>5
  <2>2. /\ call'.op = "generate" /\ call'.new = n /\ minted' = minted \cup {n}
        /\ n \notin minted /\ table' = table
    BY <2>1 DEF BeginGenerate, NewCall
  <2> QED
    BY <1>1, <2>2 DEF CallRows, TableRows
<1>6. CASE BeginRevoke
  <2> DEFINE row == Revoked(instance.row, 0, "")
  <2>1. instance \in [key : Keys, row : Row] /\ call = NULL /\ instance # NULL
        /\ ~AlreadyRevoked(instance.row)
    BY <1>1, <1>6 DEF BeginRevoke, Idle, TypeOK
  <2>2. AlreadyRevoked(row)
    <3>1. row.is_active = FALSE /\ row.revoked_at = 0
      BY <2>1 DEF Revoked, Row
    <3>2. 0 # NULL
      OBVIOUS
    <3> QED
      BY <3>1, <3>2 DEF AlreadyRevoked
  <2> HIDE DEF row
  <2>3. /\ instance' = [instance EXCEPT !.row = row] /\ table' = table
        /\ call' = NewCall("revoke", "update", instance.key, NULL, NULL, row)
    BY <1>6 DEF BeginRevoke, row
  <2>4. call'.op = "revoke" /\ call'.key = instance.key /\ call'.row = row
    BY <2>3 DEF NewCall
  <2>5. instance'.row = row /\ instance' # NULL
    <3>1. instance'.row = row
      BY <2>1, <2>3
    <3>2. row \in Row
      BY <2>1, RevokedType DEF row, Reasons
    <3>3. instance' \in [key : Keys, row : Row]
      BY <2>1, <2>3, <3>2
    <3> QED
      BY <3>1, <3>3, SignalsNull
  <2>6. instance.key \notin Inactive(table)
    BY <1>1, <2>1 DEF InstanceRow, Rotating
  <2> QED
    BY <2>2, <2>3, <2>4, <2>5, <2>6 DEF CallRows
<1>7. CASE \E n \in Keys, g \in Graces \cup {NULL} : BeginRotate(n, g)
  <2>1. PICK n \in Keys, g \in Graces \cup {NULL} : BeginRotate(n, g)
    BY <1>7
  <2>2. /\ call'.op = "rotate" /\ call'.new = n /\ call'.at = "lock"
        /\ call'.key = instance.key /\ instance' = instance
        /\ minted' = minted \cup {n} /\ n \notin minted /\ table' = table
    BY <2>1 DEF BeginRotate, NewCall
  <2> QED
    BY <1>1, <2>2 DEF CallRows, TableRows
<1>8. CASE RotateLock
  <2>1. /\ call # NULL /\ call.at = "lock" /\ call.op = "rotate"
        /\ UNCHANGED <<table, minted, instance>>
    BY <1>1, <1>8, StageOf DEF RotateLock
  <2>2. call.new \in minted /\ call.new \notin Stored(table) /\ instance.key = call.key
    BY <1>1, <2>1 DEF CallRows
  <2>3. CASE Proceed("raise")
    <3>1. call'.at = "raise" /\ call'.op = "rotate" /\ call'.new = call.new /\ call'.key = call.key
      BY <1>1, <2>1, <2>3, ProceedCall DEF Stages
    <3> QED
      BY <2>1, <2>2, <3>1 DEF CallRows
  <2>4. CASE /\ IsValid(table[call.key], 0)
             /\ call' = [call EXCEPT !.at = "insert", !.row = table[call.key]]
    <3>1. call \in Calls
      BY <1>1, <2>1 DEF TypeOK
    <3>2. /\ call'.at = "insert" /\ call'.op = "rotate" /\ call'.new = call.new
          /\ call'.key = call.key /\ call'.row = table[call.key]
      BY <2>1, <2>4, <3>1 DEF Calls
    <3>3. table[call.key].is_active
      BY <2>4 DEF IsValid
    <3> QED
      BY <2>1, <2>2, <3>2, <3>3 DEF CallRows
  <2> QED
    BY <1>8, <2>3, <2>4 DEF RotateLock
<1>9. CASE Insert
  <2>1. call # NULL /\ call.at = "insert" /\ UNCHANGED <<minted, instance>> /\ Proceed("created")
    BY <1>9 DEF Insert
  <2>2. /\ call'.at = "created" /\ call'.op = call.op /\ call'.new = call.new
        /\ call'.key = call.key /\ call'.row = call.row
    BY <1>1, <2>1, ProceedCall DEF Stages
  <2>3. call.op # "revoke"
    BY <1>1, <2>1, StageOf
  <2>4. call.op = "rotate" => table'[call.key] = table[call.key]
    <3>1. /\ table[call.new] = NULL /\ call.new \in Keys
          /\ table' = [table EXCEPT ![call.new] = table'[call.new]]
      BY <1>1, <1>9, InsertRows
    <3>2. call.op = "rotate" => table[call.key] # NULL /\ call.key \in Keys
      BY <1>1, <2>1 DEF CallOK
    <3> QED
      BY <1>1, <3>1, <3>2 DEF TypeOK, Tables
  <2> QED
    BY <1>1, <2>1, <2>2, <2>3, <2>4 DEF CallRows
<1>10. CASE Update \/ Cutoff
  <2>1. /\ call # NULL /\ call.at \in {"update", "cutoff"}
        /\ UNCHANGED <<minted, instance>>
    BY <1>10 DEF Update, Cutoff
  <2>2. /\ call'.at \in {"revoked", "leave"} /\ call'.op = call.op /\ call'.new = call.new
        /\ call'.key = call.key /\ call'.row = call.row
    BY <1>1, <1>10, <2>1, ProceedCall DEF Update, Cutoff, Stages
  <2> QED
    BY <1>1, <2>1, <2>2 DEF CallRows
<1>11. CASE SendCreated
  <2>1. call # NULL /\ call.at = "created" /\ UNCHANGED <<minted, table>>
    BY <1>11 DEF SendCreated
  <2>2. CASE call.op = "generate"
    BY <1>2, <1>11, <2>2 DEF SendCreated, Ended
  <2>3. CASE call.op = "rotate"
    <3>1. PICK stage \in {"update", "leave", "cutoff"} :
             Proceed(stage) /\ (stage = "cutoff" => call.grace # NULL)
      BY <1>11, <2>3 DEF SendCreated
    <3>2. /\ call'.at = stage /\ call'.op = call.op /\ call'.new = call.new
          /\ call'.key = call.key /\ call'.row = call.row /\ call'.grace = call.grace
      BY <1>1, <2>1, <3>1, ProceedCall DEF Stages, Statements
    <3>3. instance' = instance
      BY <1>11, <2>3 DEF SendCreated
    <3> QED
      BY <1>1, <2>1, <2>3, <3>1, <3>2, <3>3 DEF CallRows
  <2> QED
    BY <1>1, <2>1, <2>2, <2>3, StageOf DEF Calls
<1>12. CASE SendRevoked
  <2>1. call # NULL /\ call.at = "revoked" /\ UNCHANGED <<minted, table, instance>>
    BY <1>12 DEF SendRevoked
  <2>2. CASE call.op = "revoke"
    BY <1>2, <1>12, <2>2 DEF SendRevoked, Ended
  <2>3. CASE call.op # "revoke"
    <3>1. Proceed("leave")
      BY <1>12, <2>3 DEF SendRevoked
    <3>2. /\ call'.at = "leave" /\ call'.op = call.op /\ call'.new = call.new
          /\ call'.key = call.key /\ call'.row = call.row
      BY <1>1, <2>1, <3>1, ProceedCall DEF Stages
    <3> QED
      BY <1>1, <2>1, <2>3, <3>2 DEF CallRows
  <2> QED
    BY <2>2, <2>3
<1>13. CASE SendRotated \/ RotateUnwinds
  <2>1. call' = NULL
    BY <1>13 DEF SendRotated, RotateUnwinds, Ended
  <2> QED
    BY <1>2, <2>1
<1>14. CASE RotateLeave
  <2>1. /\ call # NULL /\ call.at = "leave" /\ call.op = "rotate" /\ minted' = minted
        /\ Proceed("rotated")
        /\ instance' = [instance EXCEPT !.row = Synced(@, table[call.key])]
    BY <1>1, <1>14, StageOf DEF RotateLeave
  <2>2. /\ call'.at = "rotated" /\ call'.op = call.op /\ call'.new = call.new
        /\ call'.key = call.key
    BY <1>1, <2>1, ProceedCall DEF Stages
  <2>3. instance'.key = instance.key
    <3>1. instance \in [key : Keys, row : Row]
      BY <1>1, <2>1 DEF CallOK, TypeOK
    <3> QED
      BY <2>1, <3>1
  <2> QED
    BY <1>1, <2>1, <2>2, <2>3 DEF CallRows
<1>15. CASE Refused \/ StatementFails
  <2>1. /\ call # NULL /\ Raise /\ UNCHANGED <<minted, table, instance>>
    BY <1>15 DEF Refused, StatementFails
  <2>2. CASE call.op # "rotate"
    BY <1>2, <2>1, <2>2 DEF Raise
  <2>3. CASE call.op = "rotate"
    <3>1. /\ call'.at = "raise" /\ call'.op = call.op /\ call'.new = call.new
          /\ call'.key = call.key
      BY <1>1, <2>1, <2>3, ProceedCall DEF Raise, Stages
    <3> QED
      BY <1>1, <2>1, <2>3, <3>1 DEF CallRows
  <2> QED
    BY <2>2, <2>3
<1> QED
  BY <1>3, <1>4, <1>5, <1>6, <1>7, <1>8, <1>9, <1>10, <1>11, <1>12, <1>13, <1>14,
     <1>15, NextIsSteps DEF Steps

\* Where the instance's key is looked up: a rotation rolls back what it did.
Ground == IF Rotating THEN Top.table ELSE table

LEMMA InstanceRowStep ==
    ASSUME ShapeInv, CalmInv, RowsInv, ~broken', [Next]_vars
    PROVE  InstanceRow'
<1> USE RowAssumption
<1>1. /\ TypeOK /\ CallOK /\ FrameRows /\ TableRows /\ CallRows /\ InstanceRow
      /\ BlockStep /\ CallRows'
  BY BlocksStayCalm, CallRowsStep DEF ShapeInv, RowsInv
<1>2. ASSUME instance' = instance, Inactive(Ground') \subseteq Inactive(Ground)
      PROVE  InstanceRow'
  BY <1>1, <1>2 DEF InstanceRow, Ground
<1>3. ASSUME instance' # NULL => AlreadyRevoked(instance'.row)
      PROVE  InstanceRow'
  BY <1>3 DEF InstanceRow
<1>4. ASSUME NEW k \in Keys, table[k] # NULL, table' = table, ~Rotating',
             instance'.key = k,
             AlreadyRevoked(instance'.row) <=> AlreadyRevoked(table[k])
      PROVE  InstanceRow'
  <2>1. k \in Inactive(table) => AlreadyRevoked(table[k])
    BY <1>1, <1>4 DEF TableRows, Dated, Inactive, AlreadyRevoked
  <2> QED
    BY <1>4, <2>1 DEF InstanceRow
<1>5. ASSUME Rotating, Rotating', UNCHANGED <<instance, stack>>
      PROVE  InstanceRow'
  BY <1>2, <1>5 DEF Ground, Top
<1>6. ASSUME ~Rotating, ~Rotating', UNCHANGED <<instance, table>>
      PROVE  InstanceRow'
  BY <1>2, <1>6 DEF Ground
<1>7. CASE UNCHANGED vars
  BY <1>2, <1>7 DEF vars, Ground, Rotating, Top
<1>8. CASE CallerEnters \/ CallerLeaves \/ \E k \in Keys : Load(k)
  <2>1. call = NULL /\ call' = NULL
    BY <1>8 DEF CallerEnters, CallerLeaves, Load, Idle
  <2>2. table' = table
    <3>1. CASE CallerLeaves
      BY <2>1, <3>1 DEF CallerLeaves, LeaveBlock, CalmInv, Idle, Release
    <3>2. CASE ~CallerLeaves
      BY <1>8, <3>2 DEF CallerEnters, Load
    <3> QED
      BY <3>1, <3>2
  <2>3. CASE CallerEnters \/ CallerLeaves
    BY <1>6, <2>1, <2>2, <2>3 DEF Rotating, CallerEnters, CallerLeaves
  <2>4. CASE \E k \in Keys : Load(k)
    <3>1. PICK k \in Keys : Load(k)
      BY <2>4
    <3>2. instance'.key = k /\ instance'.row = table[k] /\ table[k] # NULL
      BY <3>1 DEF Load
    <3> QED
      BY <1>4, <2>1, <2>2, <3>2 DEF Rotating
  <2> QED
    BY <1>8, <2>3, <2>4
<1>9. CASE CallerEscapes
  <2>1. InBlock /\ call = NULL /\ call' = NULL /\ instance' = instance
    BY <1>9 DEF CallerEscapes
  <2>2. Top.savepoint /\ Inactive(Top.table) \subseteq Inactive(table)
    BY <1>1, <2>1, TopIsAFrame DEF CalmInv, FrameRows
  <2>3. table' = Top.table
    BY <1>9, <2>2 DEF CallerEscapes, RollBack
  <2> QED
    BY <1>2, <2>1, <2>2, <2>3 DEF Ground, Rotating
<1>10. CASE \E n \in Keys, e \in Lifespans : BeginGenerate(n, e)
  <2>1. /\ call = NULL /\ call'.op = "generate" /\ UNCHANGED <<instance, table>>
    BY <1>10 DEF BeginGenerate, NewCall, Idle
  <2> QED
    BY <1>6, <2>1 DEF Rotating
<1>11. CASE BeginRevoke
  <2>1. call'.op = "revoke" /\ call' # NULL
    <3>1. call' = NewCall("revoke", "update", instance.key, NULL, NULL,
                          Revoked(instance.row, 0, ""))
      BY <1>11 DEF BeginRevoke
    <3>2. call'.op = "revoke"
      BY <3>1 DEF NewCall
    <3>3. ShapeInv'
      BY ShapeStep
    <3>4. instance \in [key : Keys, row : Row]
      BY <1>1, <1>11 DEF BeginRevoke, TypeOK
    <3>5. Revoked(instance.row, 0, "") \in Row
      BY <3>4, RevokedType DEF Reasons
    <3>6. call' # NULL
      BY <1>1, <3>1, <3>4, <3>5, NewCallType DEF Stages, Statements
    <3> QED
      BY <3>2, <3>6
  <2> QED
    BY <1>1, <1>3, <2>1 DEF CallRows
<1>12. CASE \E n \in Keys, g \in Graces \cup {NULL} : BeginRotate(n, g)
  <2>1. /\ call = NULL /\ Push /\ UNCHANGED <<instance, table>>
    BY <1>12 DEF BeginRotate, Idle
  <2>2. Top'.table = table
    BY <1>1, <2>1, PushFrames
  <2> QED
    BY <1>2, <2>1, <2>2 DEF Ground, Rotating
<1>13. CASE RotateLock \/ Cutoff
  <2>1. /\ call # NULL /\ call.op = "rotate" /\ call.at \in {"lock", "cutoff"}
        /\ UNCHANGED <<instance, stack>>
    BY <1>1, <1>13, StageOf DEF RotateLock, Cutoff
  <2>2. call' # NULL /\ call'.op = "rotate" /\ call'.at \in {"raise", "insert", "leave"}
    <3>1. CASE \E stage \in {"raise", "leave"} : Proceed(stage)
      BY <1>1, <2>1, <3>1, ProceedCall DEF Stages
    <3>2. CASE call' = [call EXCEPT !.at = "insert", !.row = table[call.key]]
      <4>1. call \in Calls
        BY <1>1, <2>1 DEF TypeOK
      <4>2. call'.op = "rotate" /\ call'.at = "insert"
        BY <2>1, <3>2, <4>1 DEF Calls
      <4>3. TypeOK'
        BY ShapeStep DEF ShapeInv
      <4>4. CASE call' = NULL
        <5>1. table[call.key] \in Row
          <6>1. call.at = "lock" /\ table[call.key] # NULL
            BY <1>13, <3>2, <4>1, <4>2 DEF Proceed, RotateLock, Cutoff, Calls
          <6>2. call.key \in Keys
            BY <1>1, <2>1, StageOf
          <6> QED
            BY <1>1, <6>1, <6>2 DEF TypeOK, Tables
        <5>2. [call EXCEPT !.at = "insert", !.row = table[call.key]] \in Calls
          BY <4>1, <5>1 DEF Calls, Stages, Statements
        <5> QED
          BY <3>2, <4>4, <5>2, SignalsNull
      <4> QED
        BY <4>2, <4>4
    <3> QED
      BY <1>13, <3>1, <3>2 DEF RotateLock, Cutoff
  <2> QED
    BY <1>5, <2>1, <2>2 DEF Rotating
<1>14. CASE Insert
  <2>1. /\ call # NULL /\ call.at = "insert" /\ Proceed("created")
        /\ UNCHANGED <<instance, stack>>
    BY <1>14 DEF Insert
  <2>2. call' # NULL /\ call'.op = call.op /\ call'.at = "created"
    BY <1>1, <2>1, ProceedCall DEF Stages
  <2>3. Inactive(table') = Inactive(table)
    BY <1>1, <1>14, InsertRows
  <2>4. CASE Rotating
    BY <1>5, <2>1, <2>2, <2>4 DEF Rotating
  <2>5. CASE ~Rotating
    BY <1>2, <2>1, <2>2, <2>3, <2>5 DEF Ground, Rotating
  <2> QED
    BY <2>4, <2>5
<1>15. CASE Update
  <2>1. /\ call # NULL /\ call.at = "update" /\ Proceed("revoked")
        /\ UNCHANGED <<instance, stack>>
    BY <1>15 DEF Update
  <2>2. call' # NULL /\ call'.op = call.op /\ call'.at = "revoked"
    BY <1>1, <2>1, ProceedCall DEF Stages
  <2>3. CASE call.op = "rotate"
    BY <1>5, <2>1, <2>2, <2>3 DEF Rotating
  <2>4. CASE call.op = "revoke"
    BY <1>1, <1>3, <2>1, <2>4 DEF CallRows
  <2> QED
    BY <1>1, <2>1, <2>3, <2>4, StageOf DEF Calls
<1>16. CASE SendCreated
  <2>1. call # NULL /\ call.at = "created" /\ UNCHANGED <<table, stack>>
    BY <1>16 DEF SendCreated
  <2>2. CASE call.op = "generate"
    <3>1. /\ call' = NULL
          /\ instance' = [key |-> call.new, row |-> table[call.new]]
      BY <1>16, <2>2 DEF SendCreated, Ended
    <3>2. call.new \in Keys /\ table[call.new] # NULL
      BY <1>1, <2>1, <2>2 DEF CallOK
    <3>3. instance'.key = call.new /\ instance'.row = table[call.new]
      BY <3>1
    <3> QED
      BY <1>4, <2>1, <3>1, <3>2, <3>3 DEF Rotating
  <2>3. CASE call.op = "rotate"
    <3>1. instance' = instance
      BY <1>16, <2>3 DEF SendCreated
    <3>2. PICK stage \in {"update", "leave", "cutoff"} : Proceed(stage)
      BY <1>16, <2>3 DEF SendCreated
    <3>3. call' # NULL /\ call'.op = "rotate" /\ call'.at = stage
      BY <1>1, <2>1, <2>3, <3>2, ProceedCall DEF Stages, Statements
    <3> QED
      BY <1>5, <2>1, <2>3, <3>1, <3>3 DEF Rotating
  <2> QED
    BY <1>1, <2>1, <2>2, <2>3, StageOf DEF Calls
<1>17. CASE SendRevoked
  <2>1. call # NULL /\ call.at = "revoked" /\ UNCHANGED <<table, stack, instance>>
    BY <1>17 DEF SendRevoked
  <2>2. CASE call.op = "revoke"
    BY <1>1, <1>3, <2>1, <2>2 DEF CallRows
  <2>3. CASE call.op # "revoke"
    <3>1. Proceed("leave")
      BY <1>17, <2>3 DEF SendRevoked
    <3>2. call' # NULL /\ call'.op = call.op /\ call'.at = "leave"
      BY <1>1, <2>1, <3>1, ProceedCall DEF Stages
    <3>3. call.op = "rotate"
      BY <1>1, <2>1, <2>3, StageOf DEF Calls
    <3> QED
      BY <1>5, <2>1, <3>2, <3>3 DEF Rotating
  <2> QED
    BY <2>2, <2>3
<1>18. CASE SendRotated
  BY <1>6, <1>18 DEF SendRotated, Ended, Rotating
<1>19. CASE RotateLeave
  <2>1. /\ call # NULL /\ call.at = "leave" /\ call.op = "rotate" /\ Proceed("rotated")
        /\ instance' = [instance EXCEPT !.row = Synced(@, table[call.key])]
    BY <1>1, <1>19, StageOf DEF RotateLeave
  <2>2. ~needs_rollback
    BY <1>1, <2>1 DEF CalmInv, TypeOK
  <2>3. table' = table
    BY <1>19, <2>2 DEF RotateLeave, LeaveBlock, Release
  <2>4. ~Rotating'
    <3>1. call'.at = "rotated"
      BY <1>1, <2>1, ProceedCall DEF Stages
    <3> QED
      BY <3>1 DEF Rotating
  <2>5. instance \in [key : Keys, row : Row] /\ call.key \in Keys /\ table[call.key] # NULL
    BY <1>1, <2>1 DEF CallOK, TypeOK
  <2>6. instance'.key = call.key /\ instance'.row = Synced(instance.row, table[call.key])
    BY <1>1, <2>1, <2>5 DEF CallRows
  <2>7. AlreadyRevoked(instance'.row) <=> AlreadyRevoked(table[call.key])
    <3>1. instance.row \in Row /\ table[call.key] \in Row
      BY <1>1, <2>5 DEF TypeOK, Tables
    <3> QED
      BY <2>6, <3>1 DEF AlreadyRevoked, Synced, SaveLifecycle, Row
  <2> QED
    BY <1>4, <2>3, <2>4, <2>5, <2>6, <2>7
<1>20. CASE Refused \/ StatementFails
  <2>1. call # NULL /\ Raise /\ UNCHANGED <<table, stack, instance>>
    BY <1>20 DEF Refused, StatementFails
  <2>2. CASE call.op = "rotate"
    <3>1. call' # NULL /\ call'.op = "rotate" /\ call'.at = "raise"
      BY <1>1, <2>1, <2>2, ProceedCall DEF Raise, Stages
    <3>2. Rotating
      BY <1>20, <2>1, <2>2 DEF Rotating, Refused, StatementFails, Statements
    <3> QED
      BY <1>5, <2>1, <3>1, <3>2 DEF Rotating
  <2>3. CASE call.op # "rotate"
    BY <1>6, <2>1, <2>3 DEF Raise, Rotating
  <2> QED
    BY <2>2, <2>3
<1>21. CASE RotateUnwinds
  <2>1. /\ call # NULL /\ call.at \in {"raise", "leave"} /\ RollBack /\ call' = NULL
        /\ instance' = instance
    BY <1>21 DEF RotateUnwinds
  <2>2. InBlock /\ Rotating
    BY <1>1, <2>1, StageOf DEF Rotating
  <2>3. table' = Top.table
    <3>1. Top.savepoint
      BY <1>1, <2>2, TopIsAFrame DEF CalmInv
    <3> QED
      BY <2>1, <3>1 DEF RollBack
  <2> QED
    BY <1>2, <2>1, <2>2, <2>3 DEF Ground, Rotating
<1> QED
  BY <1>7, <1>8, <1>9, <1>10, <1>11, <1>12, <1>13, <1>14, <1>15, <1>16, <1>17, <1>18,
     <1>19, <1>20, <1>21, NextIsSteps DEF Steps

LEMMA RowsInit == Init => RowsInv
<1> SUFFICES ASSUME Init PROVE RowsInv
  OBVIOUS
<1>1. Len(stack) = 0 /\ 1 .. 0 = {}
  BY EmptySeq DEF Init
<1>2. Stored(table) = {} /\ Inactive(table) = {}
  BY DEF Init, Stored, Inactive
<1> QED
  BY <1>1, <1>2 DEF Init, RowsInv, FrameRows, TableRows, Dated, CallRows, InstanceRow

LEMMA RowsStep ==
    ASSUME ShapeInv, CalmInv, RowsInv, ~broken', [Next]_vars
    PROVE  RowsInv'
BY TableRowsStep, FrameRowsStep, CallRowsStep, InstanceRowStep DEF RowsInv

-----------------------------------------------------------------------------
(* The events and the tables they happened in *)

LEMMA EventForms ==
    ASSUME NEW e \in Event
    PROVE  \/ \E n \in Keys : e = Created(n)
           \/ \E k \in Keys : e = RevokedEvent(k)
           \/ \E k, n \in Keys : e = RotatedTo(k, n)
BY DEF Event

\* Different events are different.
LEMMA EventsDiffer ==
    ASSUME NEW a, NEW b, NEW c, NEW d
    PROVE  /\ Created(a) = Created(b) => a = b
           /\ RevokedEvent(a) = RevokedEvent(b) => a = b
           /\ RotatedTo(a, c) = RotatedTo(b, d) => a = b /\ c = d
           /\ Created(a) # RevokedEvent(b)
           /\ Created(a) # RotatedTo(b, d)
           /\ RevokedEvent(a) # RotatedTo(b, d)
BY DEF Created, RevokedEvent, RotatedTo

\* The key that a row replaces, or NULL.
Origin(t, n) == IF t[n] = NULL THEN NULL ELSE t[n].rotated_from

LEMMA HappenedForms ==
    ASSUME NEW t \in Tables, NEW k \in Keys, NEW n \in Keys
    PROVE  /\ Happened(t, Created(n)) <=> n \in Stored(t)
           /\ Happened(t, RevokedEvent(k)) <=> k \in Inactive(t)
           /\ Happened(t, RotatedTo(k, n)) <=> Origin(t, n) = k
<1>1. Happened(t, Created(n)) <=> n \in Stored(t)
  BY DEF Happened, Created, Stored
<1>2. Happened(t, RevokedEvent(k)) <=> k \in Inactive(t)
  BY DEF Happened, RevokedEvent, Stored, Inactive
<1>3. Happened(t, RotatedTo(k, n)) <=> Origin(t, n) = k
  BY RowAssumption DEF Happened, RotatedTo, Origin
<1> QED
  BY <1>1, <1>2, <1>3

\* Tables that agree on what is stored, inactive and replaced have one history.
LEMMA SameHistory ==
    ASSUME NEW t \in Tables, NEW u \in Tables, Stored(t) = Stored(u),
           Inactive(t) = Inactive(u), \A n \in Keys : Origin(t, n) = Origin(u, n),
           NEW e \in Event
    PROVE  Happened(t, e) <=> Happened(u, e)
BY EventForms, HappenedForms

\* What has happened that the call in progress has not told yet.
Pending(e) ==
    /\ call # NULL
    /\ \/ call.at = "created" /\ e = Created(call.new)
       \/ call.at = "revoked" /\ e = RevokedEvent(call.key)
       \/ /\ call.op = "rotate" /\ call.at \notin {"lock", "insert", "raise"}
          /\ e = RotatedTo(call.key, call.new)

\* A step that tells nobody may add an event to the history, but then it is
\* pending.
Consistent(e) ==
    \/ (Happened(table', e) <=> Happened(table, e)) /\ (Pending(e)' <=> Pending(e))
    \/ /\ Happened(table', e) /\ ~Happened(table, e)
       /\ Pending(e)' /\ ~Pending(e)

\* An insertion adds the creation, and of a rotation the succession.
LEMMA InsertIsPending ==
    ASSUME TypeOK, TypeOK', CallOK, TableRows, CallRows, Insert, NEW e \in Event
    PROVE  Consistent(e)
<1> USE RowAssumption
<1>1. /\ table \in Tables /\ table' \in Tables
      /\ call # NULL /\ call.at = "insert" /\ Proceed("created")
  BY DEF TypeOK, Insert
<1>2. /\ call.new \in Keys /\ table[call.new] = NULL
      /\ table' = [table EXCEPT ![call.new] = table'[call.new]]
      /\ table'[call.new] \in Row
      /\ table'[call.new].rotated_from = call.key
      /\ Inactive(table') = Inactive(table)
      /\ Stored(table') = Stored(table) \cup {call.new}
  BY InsertRows
<1>3. /\ call' # NULL /\ call'.at = "created"
      /\ call'.op = call.op /\ call'.key = call.key /\ call'.new = call.new
  BY <1>1, ProceedCall DEF Stages
<1>4. ~Pending(e)
  BY <1>1 DEF Pending
<1>5. Pending(e)' <=> (\/ e = Created(call.new)
                      \/ (call.op = "rotate" /\ e = RotatedTo(call.key, call.new)))
  BY <1>3 DEF Pending
<1>6. CASE \E n \in Keys : e = Created(n)
  <2>1. PICK n \in Keys : e = Created(n)
    BY <1>6
  <2>2. Pending(e)' <=> n = call.new
    BY <1>5, <2>1, EventsDiffer
  <2>3. call.new \notin Stored(table)
    BY <1>2 DEF Stored
  <2>4. Happened(table, e) <=> n \in Stored(table)
    BY <1>1, <2>1, HappenedForms
  <2>5. Happened(table', e) <=> n \in Stored(table')
    BY <1>1, <2>1, HappenedForms
  <2> QED
    BY <1>2, <1>4, <2>2, <2>3, <2>4, <2>5 DEF Consistent
<1>7. CASE \E k \in Keys : e = RevokedEvent(k)
  <2>1. PICK k \in Keys : e = RevokedEvent(k)
    BY <1>7
  <2>2. ~Pending(e)'
    BY <1>5, <2>1, EventsDiffer
  <2>3. Happened(table, e) <=> k \in Inactive(table)
    BY <1>1, <2>1, HappenedForms
  <2>4. Happened(table', e) <=> k \in Inactive(table')
    BY <1>1, <2>1, HappenedForms
  <2> QED
    BY <1>2, <1>4, <2>2, <2>3, <2>4 DEF Consistent
<1>8. CASE \E k, n \in Keys : e = RotatedTo(k, n)
  <2>1. PICK k \in Keys, n \in Keys : e = RotatedTo(k, n)
    BY <1>8
  <2>2. call.key = k => call.op = "rotate"
    <3>1. call.op \in {"generate", "rotate"} /\ (call.op = "generate" => call.key = NULL)
      BY <1>1, StageOf DEF CallOK, Calls
    <3> QED
      BY <3>1
  <2>3. Pending(e)' <=> k = call.key /\ n = call.new
    BY <1>5, <2>1, <2>2, EventsDiffer
  <2>4. Happened(table, e) <=> Origin(table, n) = k
    BY <1>1, <2>1, HappenedForms
  <2>5. Happened(table', e) <=> Origin(table', n) = k
    BY <1>1, <2>1, HappenedForms
  <2>6. n = call.new => Origin(table, n) = NULL /\ Origin(table', n) = call.key
    BY <1>2 DEF Origin
  <2>7. n # call.new => Origin(table', n) = Origin(table, n)
    BY <1>1, <1>2 DEF Origin, Tables
  <2> QED
    BY <1>4, <2>3, <2>4, <2>5, <2>6, <2>7 DEF Consistent
<1> QED
  BY <1>6, <1>7, <1>8, EventForms

\* revoke()'s UPDATE adds the revocation.
LEMMA UpdateIsPending ==
    ASSUME TypeOK, TypeOK', CallOK, TableRows, CallRows, Update, NEW e \in Event
    PROVE  Consistent(e)
<1> USE RowAssumption
<1>1. /\ table \in Tables /\ table' \in Tables
      /\ call # NULL /\ call.at = "update" /\ Proceed("revoked")
  BY DEF TypeOK, Update
<1>2. /\ call.key \in Keys /\ table[call.key] \in Row
      /\ call.key \notin Inactive(table)
      /\ table' = [table EXCEPT ![call.key] = table'[call.key]]
      /\ table'[call.key] \in Row
      /\ table'[call.key].rotated_from = table[call.key].rotated_from
      /\ Inactive(table') = Inactive(table) \cup {call.key}
      /\ Stored(table') = Stored(table)
  BY UpdateRows
<1>3. /\ call' # NULL /\ call'.at = "revoked"
      /\ call'.op = call.op /\ call'.key = call.key /\ call'.new = call.new
  BY <1>1, ProceedCall DEF Stages
<1>4. Pending(e) <=> call.op = "rotate" /\ e = RotatedTo(call.key, call.new)
  BY <1>1 DEF Pending
<1>5. Pending(e)' <=> e = RevokedEvent(call.key) \/ Pending(e)
  BY <1>3, <1>4 DEF Pending
<1>6. CASE \E n \in Keys : e = Created(n)
  <2>1. PICK n \in Keys : e = Created(n)
    BY <1>6
  <2>2. ~Pending(e) /\ ~Pending(e)'
    BY <1>4, <1>5, <2>1, EventsDiffer
  <2>3. Happened(table, e) <=> n \in Stored(table)
    BY <1>1, <2>1, HappenedForms
  <2>4. Happened(table', e) <=> n \in Stored(table')
    BY <1>1, <2>1, HappenedForms
  <2> QED
    BY <1>2, <2>2, <2>3, <2>4 DEF Consistent
<1>7. CASE \E k \in Keys : e = RevokedEvent(k)
  <2>1. PICK k \in Keys : e = RevokedEvent(k)
    BY <1>7
  <2>2. ~Pending(e) /\ (Pending(e)' <=> k = call.key)
    BY <1>4, <1>5, <2>1, EventsDiffer
  <2>3. Happened(table, e) <=> k \in Inactive(table)
    BY <1>1, <2>1, HappenedForms
  <2>4. Happened(table', e) <=> k \in Inactive(table')
    BY <1>1, <2>1, HappenedForms
  <2> QED
    BY <1>2, <2>2, <2>3, <2>4 DEF Consistent
<1>8. CASE \E k, n \in Keys : e = RotatedTo(k, n)
  <2>1. PICK k \in Keys, n \in Keys : e = RotatedTo(k, n)
    BY <1>8
  <2>2. Pending(e)' <=> Pending(e)
    BY <1>5, <2>1, EventsDiffer
  <2>3. Happened(table, e) <=> Origin(table, n) = k
    BY <1>1, <2>1, HappenedForms
  <2>4. Happened(table', e) <=> Origin(table', n) = k
    BY <1>1, <2>1, HappenedForms
  <2>5. Origin(table', n) = Origin(table, n)
    BY <1>1, <1>2 DEF Origin, Tables
  <2> QED
    BY <2>2, <2>3, <2>4, <2>5 DEF Consistent
<1> QED
  BY <1>6, <1>7, <1>8, EventForms

\* A cutoff is no event.
LEMMA CutoffIsPending ==
    ASSUME TypeOK, TypeOK', CallOK, TableRows, CallRows, Cutoff, NEW e \in Event
    PROVE  Consistent(e)
<1> USE RowAssumption
<1>1. /\ table \in Tables /\ table' \in Tables
      /\ call # NULL /\ call.at = "cutoff" /\ Proceed("leave")
  BY DEF TypeOK, Cutoff
<1>2. /\ call.key \in Keys /\ table[call.key] \in Row
      /\ table' = [table EXCEPT ![call.key] = table'[call.key]]
      /\ table'[call.key] \in Row
      /\ table'[call.key].rotated_from = table[call.key].rotated_from
      /\ Inactive(table') = Inactive(table)
      /\ Stored(table') = Stored(table)
  BY CutoffRows
<1>3. /\ call' # NULL /\ call'.at = "leave"
      /\ call'.op = call.op /\ call'.key = call.key /\ call'.new = call.new
  BY <1>1, ProceedCall DEF Stages
<1>4. Pending(e)' <=> Pending(e)
  BY <1>1, <1>3 DEF Pending
<1>5. \A n \in Keys : Origin(table', n) = Origin(table, n)
  BY <1>1, <1>2 DEF Origin, Tables
<1>6. Happened(table', e) <=> Happened(table, e)
  BY <1>1, <1>2, <1>5, SameHistory
<1> QED
  BY <1>4, <1>6 DEF Consistent

-----------------------------------------------------------------------------
(* The auditor's records *)

\* What is recorded, is deferred or is pending adds up to what has happened.
Balance ==
    \A e \in Event :
        audit[e] + deferred[e] + Times(Pending(e)) = Times(Happened(table, e))

\* So it did when each open block began, and nothing is deferred to a commit
\* from before the outermost block.
FramedBalance ==
    /\ ~InBlock => \A e \in Event : deferred[e] = 0
    /\ InBlock => \A e \in Event : stack[1].deferred[e] = 0
    /\ \A i \in 1 .. Len(stack) : \A e \in Event :
         audit[e] + stack[i].deferred[e] = Times(Happened(stack[i].table, e))

AuditInv == FramedBalance /\ (~Unwinding => Balance)

\* A statement, or any step that tells nobody, leaves the records as they are.
LEMMA TellingNobody ==
    ASSUME TypeOK, TypeOK', Balance, UNCHANGED <<audit, deferred>>,
           \A e \in Event : Consistent(e)
    PROVE  Balance'
<1> SUFFICES ASSUME NEW e \in Event
             PROVE  audit'[e] + deferred'[e] + Times(Pending(e)') = Times(Happened(table', e))
  BY DEF Balance, Times
<1>1. audit[e] \in Nat /\ deferred[e] \in Nat
  BY DEF TypeOK, Counts
<1>2. audit[e] + deferred[e] + Times(Pending(e)) = Times(Happened(table, e)) /\ Consistent(e)
  BY DEF Balance
<1> HIDE DEF Balance
<1>3. CASE (Happened(table', e) <=> Happened(table, e)) /\ (Pending(e)' <=> Pending(e))
  <2>1. Times(Pending(e)') = Times(Pending(e))
    BY <1>3 DEF Times
  <2>2. Times(Happened(table', e)) = Times(Happened(table, e))
    BY <1>3 DEF Times
  <2> QED
    BY <1>2, <2>1, <2>2
<1>4. CASE Happened(table', e) /\ ~Happened(table, e) /\ Pending(e)' /\ ~Pending(e)
  <2>1. Times(Pending(e)') = 1 /\ Times(Pending(e)) = 0
    BY <1>4 DEF Times
  <2>2. Times(Happened(table', e)) = 1 /\ Times(Happened(table, e)) = 0
    BY <1>4 DEF Times
  <2> QED
    BY <1>1, <1>2, <2>1, <2>2
<1> QED
  BY <1>2, <1>3, <1>4 DEF Consistent

\* A signal moves its event from the pending to the recorded or deferred.
LEMMA Telling ==
    ASSUME TypeOK, TypeOK', Balance, table' = table, NEW e0 \in Event, Send(e0),
           Pending(e0), ~Pending(e0)',
           \A e \in Event : e # e0 => (Pending(e)' <=> Pending(e))
    PROVE  Balance'
<1> SUFFICES ASSUME NEW e \in Event
             PROVE  audit'[e] + deferred'[e] + Times(Pending(e)') = Times(Happened(table', e))
  BY DEF Balance, Times
<1>1. audit[e] \in Nat /\ deferred[e] \in Nat /\ audit \in Counts /\ deferred \in Counts
  BY DEF TypeOK, Counts
<1>2. audit[e] + deferred[e] + Times(Pending(e)) = Times(Happened(table', e))
  BY DEF Balance, Times
<1>3. CASE e = e0
  <2>1. Times(Pending(e)) = 1 /\ Times(Pending(e)') = 0
    BY <1>3 DEF Times
  <2>2. audit'[e] + deferred'[e] = audit[e] + deferred[e] + 1
    <3>1. CASE InBlock
      <4>1. audit' = audit /\ deferred'[e] = deferred[e] + 1
        BY <1>1, <1>3, <3>1 DEF Send, Hear, Counts
      <4> QED
        BY <1>1, <4>1
    <3>2. CASE ~InBlock
      <4>1. deferred' = deferred /\ audit'[e] = audit[e] + 1
        BY <1>1, <1>3, <3>2 DEF Send, Hear, Counts
      <4> QED
        BY <1>1, <4>1
    <3> QED
      BY <3>1, <3>2
  <2>3. audit'[e] \in Nat /\ deferred'[e] \in Nat
    BY DEF TypeOK, Counts
  <2> QED
    BY <1>1, <1>2, <2>1, <2>2, <2>3
<1>4. CASE e # e0
  <2>1. Times(Pending(e)') = Times(Pending(e))
    BY <1>4 DEF Times
  <2>2. audit'[e] = audit[e] /\ deferred'[e] = deferred[e]
    BY <1>1, <1>4 DEF Send, Hear, Counts
  <2> QED
    BY <1>2, <2>1, <2>2
<1> QED
  BY <1>3, <1>4

\* A block that ends well keeps or carries out what was deferred.
LEMMA Committing ==
    ASSUME TypeOK, Balance, Release, \A e \in Event : Pending(e)' <=> Pending(e)
    PROVE  Balance'
<1> SUFFICES ASSUME NEW e \in Event
             PROVE  audit'[e] + deferred'[e] + Times(Pending(e)') = Times(Happened(table', e))
  BY DEF Balance, Times
<1>1. audit[e] \in Nat /\ deferred[e] \in Nat
  BY DEF TypeOK, Counts
<1>2. audit[e] + deferred[e] + Times(Pending(e)) = Times(Happened(table', e))
  BY DEF Balance, Times, Release
<1>3. Times(Pending(e)') = Times(Pending(e))
  BY DEF Times
<1>4. audit'[e] + deferred'[e] = audit[e] + deferred[e]
  <2>1. CASE Len(stack) = 1
    <3>1. audit'[e] = audit[e] + deferred[e] /\ deferred'[e] = 0
      BY <2>1 DEF Release, Nothing
    <3> QED
      BY <1>1, <3>1
  <2>2. CASE Len(stack) # 1
    BY <2>2 DEF Release
  <2> QED
    BY <2>1, <2>2
<1> QED
  BY <1>2, <1>3, <1>4

\* A rolled-back block leaves what there was when it began.
LEMMA GoingBack ==
    ASSUME TypeOK, AuditInv, InBlock, table' = Top.table, deferred' = Top.deferred,
           audit' = audit, call' = NULL
    PROVE  Balance'
<1> SUFFICES ASSUME NEW e \in Event
             PROVE  audit'[e] + deferred'[e] + Times(Pending(e)') = Times(Happened(table', e))
  BY DEF Balance, Times
<1>1. audit[e] + Top.deferred[e] = Times(Happened(Top.table, e))
  BY TopIsAFrame DEF AuditInv, FramedBalance
<1>2. Times(Pending(e)') = 0
  BY DEF Times, Pending
<1>3. audit[e] \in Nat /\ Top.deferred[e] \in Nat
  BY TopIsAFrame DEF TypeOK, Counts, Frame
<1> QED
  BY <1>1, <1>2, <1>3

LEMMA BalanceStep ==
    ASSUME ShapeInv, CalmInv, RowsInv, AuditInv, ~broken', [Next]_vars, ~Unwinding'
    PROVE  Balance'
<1> USE RowAssumption
<1>1. /\ TypeOK /\ TypeOK' /\ CallOK /\ TableRows /\ CallRows
  BY ShapeStep DEF ShapeInv, RowsInv
<1>2. ~Unwinding => Balance
  BY DEF AuditInv, FramedBalance
<1>3. InBlock => Top.savepoint
  BY <1>1, TopIsAFrame DEF CalmInv
<1>4. ASSUME ~Unwinding, UNCHANGED <<audit, deferred, table>>,
             \A e \in Event : ~Pending(e) /\ ~Pending(e)'
      PROVE  Balance'
  BY <1>1, <1>2, <1>4, TellingNobody DEF Consistent
<1>5. ASSUME InBlock, RollBack, call' = NULL
      PROVE  Balance'
  BY <1>1, <1>3, <1>5, GoingBack DEF RollBack
<1>6. CASE UNCHANGED vars
  BY <1>2, <1>6 DEF vars, Balance, Pending, Unwinding
<1>7. CASE CallerEnters \/ \E k \in Keys : Load(k)
  <2>1. call = NULL /\ call' = NULL /\ UNCHANGED <<audit, deferred, table>>
    BY <1>7 DEF CallerEnters, Load, Idle
  <2> QED
    BY <1>4, <2>1 DEF Pending, Unwinding
<1>8. CASE CallerLeaves
  <2>1. call = NULL /\ call' = NULL /\ Release
    BY <1>8 DEF CallerLeaves, LeaveBlock, CalmInv, Idle
  <2> QED
    BY <1>1, <1>2, <2>1, Committing DEF Pending, Unwinding
<1>9. CASE CallerEscapes
  BY <1>5, <1>9 DEF CallerEscapes
<1>10. CASE \/ \E n \in Keys, e \in Lifespans : BeginGenerate(n, e)
            \/ BeginRevoke
            \/ \E n \in Keys, g \in Graces \cup {NULL} : BeginRotate(n, g)
  <2>1. /\ call = NULL /\ UNCHANGED <<audit, deferred, table>>
        /\ call'.at \in {"insert", "lock"} \/ (call'.at = "update" /\ call'.op = "revoke")
    <3>1. ASSUME NEW n \in Keys, NEW e \in Lifespans, BeginGenerate(n, e)
          PROVE  call = NULL /\ UNCHANGED <<audit, deferred, table>> /\ call'.at = "insert"
      BY <3>1 DEF BeginGenerate, Idle, NewCall
    <3>2. ASSUME BeginRevoke
          PROVE  /\ call = NULL /\ UNCHANGED <<audit, deferred, table>>
                 /\ call'.at = "update" /\ call'.op = "revoke"
      BY <3>2 DEF BeginRevoke, Idle, NewCall
    <3>3. ASSUME NEW n \in Keys, NEW g \in Graces \cup {NULL}, BeginRotate(n, g)
          PROVE  call = NULL /\ UNCHANGED <<audit, deferred, table>> /\ call'.at = "lock"
      BY <3>3 DEF BeginRotate, Idle, NewCall
    <3> QED
      BY <1>10, <3>1, <3>2, <3>3
  <2> QED
    BY <1>4, <2>1 DEF Pending, Unwinding
<1>11. CASE RotateLock
  <2>1. call # NULL /\ call.at = "lock" /\ UNCHANGED <<audit, deferred, table>>
    BY <1>11 DEF RotateLock
  <2>2. call' # NULL => call'.at = "insert"
    <3>1. CASE Proceed("raise")
      BY <1>1, <2>1, <3>1, ProceedCall DEF Unwinding, Stages
    <3>2. CASE call' = [call EXCEPT !.at = "insert", !.row = table[call.key]]
      BY <1>1, <2>1, <3>2 DEF TypeOK, Calls
    <3> QED
      BY <1>11, <3>1, <3>2 DEF RotateLock
  <2> QED
    BY <1>4, <2>1, <2>2 DEF Pending, Unwinding
<1>12. CASE Insert \/ Update \/ Cutoff
  <2>1. ~Unwinding /\ UNCHANGED <<audit, deferred>>
    BY <1>12 DEF Insert, Update, Cutoff, Unwinding
  <2>2. \A e \in Event : Consistent(e)
    BY <1>1, <1>12, InsertIsPending, UpdateIsPending, CutoffIsPending
  <2> QED
    BY <1>1, <1>2, <2>1, <2>2, TellingNobody
<1>13. CASE SendCreated
  <2>1. /\ call # NULL /\ call.at = "created" /\ call.op \in {"generate", "rotate"}
        /\ table' = table /\ Send(Created(call.new)) /\ Created(call.new) \in Event
    BY <1>1, <1>13, StageOf, EventTypes DEF SendCreated, Calls
  <2>2. \A e \in Event : Pending(e) <=>
           (e = Created(call.new) \/ (call.op = "rotate" /\ e = RotatedTo(call.key, call.new)))
    BY <2>1 DEF Pending
  <2>3. \A e \in Event :
           Pending(e)' <=> (call.op = "rotate" /\ e = RotatedTo(call.key, call.new))
    <3>1. CASE call.op = "generate"
      BY <1>13, <3>1 DEF SendCreated, Ended, Pending
    <3>2. CASE call.op = "rotate"
      <4>1. PICK stage \in {"update", "leave", "cutoff"} : Proceed(stage)
        BY <1>13, <3>2 DEF SendCreated
      <4>2. /\ call' # NULL /\ call'.at = stage
            /\ call'.op = call.op /\ call'.key = call.key /\ call'.new = call.new
        BY <1>1, <2>1, <4>1, ProceedCall DEF Stages, Statements
      <4> QED
        BY <3>2, <4>2 DEF Pending
    <3> QED
      BY <2>1, <3>1, <3>2
  <2>4. \A e \in Event : e = Created(call.new) => ~Pending(e)'
    BY <2>3, EventsDiffer
  <2> QED
    BY <1>1, <1>2, <2>1, <2>2, <2>3, <2>4, Telling DEF Unwinding
<1>14. CASE SendRevoked
  <2>1. /\ call # NULL /\ call.at = "revoked" /\ call.op \in {"revoke", "rotate"}
        /\ table' = table /\ Send(RevokedEvent(call.key)) /\ RevokedEvent(call.key) \in Event
    BY <1>1, <1>14, StageOf, EventTypes DEF SendRevoked, Calls
  <2>2. \A e \in Event : Pending(e) <=>
           (e = RevokedEvent(call.key) \/ (call.op = "rotate" /\ e = RotatedTo(call.key, call.new)))
    BY <2>1 DEF Pending
  <2>3. \A e \in Event :
           Pending(e)' <=> (call.op = "rotate" /\ e = RotatedTo(call.key, call.new))
    <3>1. CASE call.op = "revoke"
      BY <1>14, <3>1 DEF SendRevoked, Ended, Pending
    <3>2. CASE call.op = "rotate"
      <4>1. Proceed("leave")
        BY <1>14, <3>2 DEF SendRevoked
      <4>2. /\ call' # NULL /\ call'.at = "leave"
            /\ call'.op = call.op /\ call'.key = call.key /\ call'.new = call.new
        BY <1>1, <2>1, <4>1, ProceedCall DEF Stages
      <4> QED
        BY <3>2, <4>2 DEF Pending
    <3> QED
      BY <2>1, <3>1, <3>2
  <2>4. \A e \in Event : e = RevokedEvent(call.key) => ~Pending(e)'
    BY <2>3, EventsDiffer
  <2> QED
    BY <1>1, <1>2, <2>1, <2>2, <2>3, <2>4, Telling DEF Unwinding
<1>15. CASE SendRotated
  <2>1. /\ call # NULL /\ call.at = "rotated" /\ call.op = "rotate" /\ call' = NULL
        /\ table' = table /\ Send(RotatedTo(call.key, call.new))
        /\ RotatedTo(call.key, call.new) \in Event
    BY <1>1, <1>15, StageOf, EventTypes DEF SendRotated, Ended
  <2>2. \A e \in Event : (Pending(e) <=> e = RotatedTo(call.key, call.new)) /\ ~Pending(e)'
    BY <2>1 DEF Pending
  <2> QED
    BY <1>1, <1>2, <2>1, <2>2, Telling DEF Unwinding
<1>16. CASE RotateLeave
  <2>1. call # NULL /\ call.at = "leave" /\ Proceed("rotated") /\ LeaveBlock /\ ~raising
    BY <1>1, <1>16 DEF RotateLeave, TypeOK
  <2>2. Release
    BY <2>1 DEF LeaveBlock, CalmInv
  <2>3. /\ call' # NULL /\ call'.at = "rotated"
        /\ call'.op = call.op /\ call'.key = call.key /\ call'.new = call.new
    BY <1>1, <2>1, ProceedCall DEF Stages
  <2>4. \A e \in Event : Pending(e)' <=> Pending(e)
    BY <2>1, <2>3 DEF Pending
  <2> QED
    BY <1>1, <1>2, <2>1, <2>2, <2>4, Committing DEF Unwinding
<1>17. CASE Refused
  BY <1>1, <1>17 DEF Refused, CalmInv, TypeOK, Statements
<1>18. CASE StatementFails
  <2>1. /\ call # NULL /\ call.at \in Statements /\ Raise
        /\ UNCHANGED <<audit, deferred, table>>
    BY <1>18 DEF StatementFails
  <2>2. call.op # "rotate"
    <3> SUFFICES ASSUME call.op = "rotate" PROVE FALSE
      OBVIOUS
    <3>1. call' # NULL /\ call'.at = "raise"
      BY <1>1, <2>1, ProceedCall DEF Raise, Stages
    <3> QED
      BY <3>1 DEF Unwinding
  <2>3. call' = NULL
    BY <2>1, <2>2 DEF Raise
  <2> QED
    BY <1>4, <2>1, <2>2, <2>3 DEF Pending, Unwinding, Statements
<1>19. CASE RotateUnwinds
  <2>1. call # NULL /\ call.at \in {"raise", "leave"} /\ RollBack /\ call' = NULL
    BY <1>19 DEF RotateUnwinds
  <2>2. InBlock
    BY <1>1, <2>1, StageOf DEF Rotating
  <2> QED
    BY <1>5, <2>1, <2>2
<1> QED
  BY <1>6, <1>7, <1>8, <1>9, <1>10, <1>11, <1>12, <1>13, <1>14, <1>15, <1>16, <1>17,
     <1>18, <1>19, NextIsSteps DEF Steps

\* While the blocks stay the same, an open one defers and the lack of one does not.
LEMMA SameBlocksDefer ==
    ASSUME ShapeInv, [Next]_vars, UNCHANGED stack
    PROVE  (InBlock => audit' = audit) /\ (~InBlock => deferred' = deferred)
<1>1. TypeOK /\ CallOK
  BY DEF ShapeInv
<1>2. ASSUME InBlock, stack' = SubSeq(stack, 1, Len(stack) - 1)
      PROVE  FALSE
  <2>1. Len(stack) \in Nat \ {0} /\ Len(stack') = Len(stack) - 1
    BY <1>1, <1>2, PopFrames
  <2> QED
    BY <2>1
<1>3. CASE UNCHANGED vars
  BY <1>3 DEF vars
<1>4. CASE SendCreated \/ SendRevoked \/ SendRotated
  BY <1>4 DEF SendCreated, SendRevoked, SendRotated, Send, Hear
<1>5. CASE CallerLeaves \/ CallerEscapes
  BY <1>2, <1>5 DEF CallerLeaves, CallerEscapes, LeaveBlock, Release, RollBack
<1>6. CASE RotateLeave \/ RotateUnwinds
  <2>1. call # NULL /\ call.at \in {"leave", "raise"} /\ (Release \/ RollBack)
    BY <1>6 DEF RotateLeave, RotateUnwinds, LeaveBlock
  <2>2. InBlock
    BY <1>1, <2>1, StageOf DEF Rotating
  <2> QED
    BY <1>2, <2>1, <2>2 DEF Release, RollBack
<1>7. CASE \/ CallerEnters \/ \E k \in Keys : Load(k)
           \/ \E n \in Keys, e \in Lifespans : BeginGenerate(n, e)
           \/ BeginRevoke
           \/ \E n \in Keys, g \in Graces \cup {NULL} : BeginRotate(n, g)
           \/ RotateLock \/ Insert \/ Update \/ Cutoff
           \/ Refused \/ StatementFails
  BY <1>7 DEF CallerEnters, Load, BeginGenerate, BeginRevoke, BeginRotate, RotateLock,
              Insert, Update, Cutoff, Refused, StatementFails
<1> QED
  BY <1>3, <1>4, <1>5, <1>6, <1>7, NextIsSteps DEF Steps

\* Entering and leaving blocks keeps the frames in order.
LEMMA FramedBalanceStep ==
    ASSUME ShapeInv, CalmInv, AuditInv, ~broken', [Next]_vars
    PROVE  FramedBalance'
<1>1. TypeOK /\ TypeOK' /\ BlockStep
  BY ShapeStep, BlocksStayCalm DEF ShapeInv
<1>2. /\ ~InBlock => \A e \in Event : deferred[e] = 0
      /\ InBlock => \A e \in Event : stack[1].deferred[e] = 0
      /\ \A i \in 1 .. Len(stack) : \A e \in Event :
           audit[e] + stack[i].deferred[e] = Times(Happened(stack[i].table, e))
  BY DEF AuditInv, FramedBalance
<1>3. CASE UNCHANGED stack
  <2>1. (InBlock => audit' = audit) /\ (~InBlock => deferred' = deferred)
    BY <1>3, SameBlocksDefer
  <2>2. CASE InBlock
    BY <1>2, <1>3, <2>1, <2>2 DEF InBlock, Times, FramedBalance
  <2>3. CASE ~InBlock
    <3>1. 1 .. Len(stack') = {}
      BY <1>3, <2>3, EmptySeq DEF InBlock
    <3> QED
      BY <1>2, <1>3, <2>1, <2>3, <3>1 DEF InBlock, FramedBalance
  <2> QED
    BY <2>2, <2>3
<1>4. CASE Idle /\ Push /\ UNCHANGED <<table, handed, audit, deferred>>
  <2> DEFINE frame == [table |-> table, deferred |-> deferred, handed |-> handed,
                       savepoint |-> ~needs_rollback]
  <2>1. frame.table = table /\ frame.deferred = deferred
    OBVIOUS
  <2> HIDE DEF frame
  <2>2. \A i \in 1 .. Len(stack') : \/ i \in 1 .. Len(stack) /\ stack'[i] = stack[i]
                                    \/ i = Len(stack') /\ stack'[i] = frame
    BY <1>1, <1>4, FramesAfterPush DEF frame
  <2>3. \A e \in Event : audit[e] + deferred[e] = Times(Happened(table, e))
    <3> TAKE e \in Event
    <3>1. Balance /\ Times(Pending(e)) = 0
      BY <1>4 DEF AuditInv, FramedBalance, Idle, Unwinding, Pending, Times
    <3>2. audit[e] \in Nat /\ deferred[e] \in Nat
      BY <1>1 DEF TypeOK, Counts
    <3> QED
      BY <3>1, <3>2 DEF Balance
  <2>4. \A i \in 1 .. Len(stack') : \A e \in Event :
           audit'[e] + stack'[i].deferred[e] = Times(Happened(stack'[i].table, e))
    <3> TAKE i \in 1 .. Len(stack')
    <3>1. CASE i \in 1 .. Len(stack) /\ stack'[i] = stack[i]
      BY <1>2, <1>4, <3>1
    <3>2. CASE stack'[i] = frame
      BY <1>4, <2>1, <2>3, <3>2
    <3> QED
      BY <2>2, <3>1, <3>2
  <2>5. InBlock' /\ 1 \in 1 .. Len(stack')
    <3>1. stack' # <<>> /\ Len(stack') = Len(stack) + 1 /\ Len(stack) \in Nat
      BY <1>1, <1>4, PushFrames, LenProperties DEF TypeOK
    <3> QED
      BY <3>1 DEF InBlock
  <2>6. \A e \in Event : stack'[1].deferred[e] = 0
    <3>1. CASE 1 \in 1 .. Len(stack) /\ stack'[1] = stack[1]
      <4>1. InBlock
        BY <3>1, EmptySeq DEF InBlock
      <4> QED
        BY <1>2, <3>1, <4>1
    <3>2. CASE 1 = Len(stack') /\ stack'[1] = frame
      <4>1. ~InBlock
        <5>1. Len(stack) = 0
          <6>1. Len(stack') = Len(stack) + 1 /\ stack \in Seq(Frame)
            BY <1>1, <1>4, PushFrames DEF TypeOK
          <6>2. Len(stack) \in Nat
            BY <6>1, LenProperties
          <6> QED
            BY <3>2, <6>1, <6>2
        <5> QED
          BY <1>1, <5>1, EmptySeq DEF InBlock, TypeOK
      <4> QED
        BY <1>2, <2>1, <3>2, <4>1
    <3> QED
      BY <2>2, <2>5, <3>1, <3>2
  <2> QED
    BY <2>4, <2>5, <2>6 DEF Times, FramedBalance
<1>5. ASSUME InBlock, stack' = SubSeq(stack, 1, Len(stack) - 1),
             Len(stack) # 1 => audit' = audit,
             Len(stack) = 1 => \A e \in Event : deferred'[e] = 0
      PROVE  FramedBalance'
  <2>1. \A i \in 1 .. Len(stack') :
          i \in 1 .. Len(stack) /\ i < Len(stack) /\ stack'[i] = stack[i]
    BY <1>1, <1>5, FramesAfterPop
  <2>2. Len(stack) \in Nat \ {0} /\ Len(stack') = Len(stack) - 1 /\ (InBlock' <=> Len(stack) > 1)
    BY <1>1, <1>5, PopFrames
  <2>3. CASE Len(stack) = 1
    <3>1. ~InBlock' /\ 1 .. Len(stack') = {}
      BY <2>2, <2>3
    <3> QED
      BY <1>5, <2>3, <3>1 DEF FramedBalance
  <2>4. CASE Len(stack) # 1
    <3>1. InBlock' /\ 1 \in 1 .. Len(stack') /\ audit' = audit
      BY <1>5, <2>2, <2>4
    <3> QED
      BY <1>2, <1>5, <2>1, <3>1 DEF Times, FramedBalance
  <2> QED
    BY <2>3, <2>4
<1>6. CASE InBlock /\ Release
  <2>1. /\ stack' = SubSeq(stack, 1, Len(stack) - 1)
        /\ Len(stack) # 1 => audit' = audit
        /\ Len(stack) = 1 => \A e \in Event : deferred'[e] = 0
    BY <1>6 DEF Release, Nothing
  <2> QED
    BY <1>5, <1>6, <2>1
<1>7. CASE InBlock /\ RollBack /\ deferred' = Top.deferred /\ UNCHANGED audit
  <2>1. Len(stack) = 1 => \A e \in Event : deferred'[e] = 0
    BY <1>2, <1>7 DEF Top
  <2> QED
    BY <1>5, <1>7, <2>1 DEF RollBack
<1> QED
  BY <1>1, <1>3, <1>4, <1>6, <1>7 DEF BlockStep

LEMMA AuditStep ==
    ASSUME ShapeInv, CalmInv, RowsInv, AuditInv, ~broken', [Next]_vars
    PROVE  AuditInv'
BY FramedBalanceStep, BalanceStep DEF AuditInv

LEMMA AuditInit == Init => AuditInv
<1> SUFFICES ASSUME Init PROVE AuditInv
  OBVIOUS
<1>1. ~InBlock /\ 1 .. Len(stack) = {}
  BY EmptySeq DEF Init, InBlock
<1>2. \A e \in Event : deferred[e] = 0 /\ audit[e] = 0
  BY DEF Init, Nothing
<1>3. \A e \in Event : ~Happened(table, e) /\ ~Pending(e)
  <2> TAKE e \in Event
  <2>1. table \in Tables /\ call = NULL
    BY DEF Init, Tables
  <2>2. Stored(table) = {} /\ Inactive(table) = {} /\ \A n \in Keys : Origin(table, n) = NULL
    BY DEF Init, Stored, Inactive, Origin
  <2>3. ~Happened(table, e)
    BY <2>1, <2>2, EventForms, HappenedForms, RowAssumption
  <2> QED
    BY <2>1, <2>3 DEF Pending
<1>4. Balance
  BY <1>2, <1>3 DEF Balance, Times
<1> QED
  BY <1>1, <1>2, <1>4 DEF AuditInv, FramedBalance

\* "once per actual revocation", and a record that on_commit() defers is undone
\* with the block: until a receiver breaks a block, the auditor has recorded each
\* event of the committed table exactly once and no other, whatever fails and
\* however the blocks are nested.
THEOREM AuditAlwaysTrue == Spec => []AuditIsTrue
<1> DEFINE Inv == ShapeInv /\ (broken \/ (CalmInv /\ RowsInv /\ AuditInv))
<1>1. Init => Inv
  BY ShapeInit, KeysInit, RowsInit, AuditInit
<1>2. Inv /\ [Next]_vars => Inv'
  <2> SUFFICES ASSUME Inv, [Next]_vars, ~broken'
               PROVE  ShapeInv' /\ CalmInv' /\ RowsInv' /\ AuditInv'
    BY ShapeStep
  <2>1. ~broken
    BY OnceBroken DEF ShapeInv
  <2> QED
    BY <2>1, ShapeStep, BlocksStayCalm, RowsStep, AuditStep
<1>3. Inv => AuditIsTrue
  <2> SUFFICES ASSUME Inv, ~broken, call = NULL \/ InBlock, NEW e \in Event
               PROVE  audit[e] = Times(Happened(Committed, e))
    BY DEF AuditIsTrue
  <2>1. AuditInv /\ TypeOK
    BY DEF ShapeInv
  <2>2. audit[e] \in Nat
    BY <2>1 DEF TypeOK, Counts
  <2>3. CASE InBlock
    <3>1. 1 \in 1 .. Len(stack)
      BY <2>1, <2>3, TopIsAFrame
    <3>2. audit[e] + stack[1].deferred[e] = Times(Happened(stack[1].table, e))
      BY <2>1, <3>1 DEF AuditInv, FramedBalance
    <3>3. stack[1].deferred[e] = 0 /\ Committed = stack[1].table
      BY <2>1, <2>3 DEF AuditInv, FramedBalance, Committed
    <3> QED
      BY <2>2, <3>2, <3>3
  <2>4. CASE ~InBlock
    <3>1. Balance /\ Times(Pending(e)) = 0
      BY <2>1, <2>4 DEF AuditInv, FramedBalance, Unwinding, Pending, Times
    <3>2. deferred[e] = 0 /\ Committed = table
      BY <2>1, <2>4 DEF AuditInv, FramedBalance, Committed
    <3> QED
      BY <2>2, <3>1, <3>2 DEF Balance
  <2> QED
    BY <2>3, <2>4
<1> HIDE DEF Inv
<1> QED
  BY <1>1, <1>2, <1>3, PTL DEF Spec
=============================================================================
