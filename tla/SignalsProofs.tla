--------------------------- MODULE SignalsProofs ----------------------------
(***************************************************************************)
(* The theorems about Signals: what rotate()'s block guarantees, and that  *)
(* no stored key is nobody's, whatever the receivers do; and which keys    *)
(* the callers hold while no receiver breaks the block it is called in.    *)
(* The auditor's records are in AuditProofs.                               *)
(***************************************************************************)
EXTENDS Signals, KeyRowProofs, SequenceTheorems

\* Entering a block adds a frame on top of the others.
LEMMA PushFrames ==
    ASSUME TypeOK, Push
    PROVE  /\ stack' \in Seq(Frame)
           /\ stack' # <<>>
           /\ Len(stack') = Len(stack) + 1
           /\ Top' = [table     |-> table,
                      deferred  |-> deferred,
                      handed    |-> handed,
                      savepoint |-> ~needs_rollback]
           /\ \A i \in 1 .. Len(stack) : stack'[i] = stack[i]
<1> DEFINE frame == [table     |-> table,
                     deferred  |-> deferred,
                     handed    |-> handed,
                     savepoint |-> ~needs_rollback]
<1>1. frame \in Frame
  BY DEF TypeOK, Frame
<1>2. stack \in Seq(Frame) /\ stack' = Append(stack, frame)
  BY DEF TypeOK, Push
<1> HIDE DEF frame
<1>3. /\ stack' \in Seq(Frame)
      /\ Len(stack') = Len(stack) + 1
      /\ \A i \in 1 .. Len(stack) : stack'[i] = stack[i]
      /\ stack'[Len(stack) + 1] = frame
  BY <1>1, <1>2
<1>4. stack' # <<>>
  BY <1>2, <1>3
<1> QED
  BY <1>3, <1>4 DEF Top, frame

\* What is left of a sequence without its last element.
LEMMA FrontProperties ==
    ASSUME NEW S, NEW s \in Seq(S), s # <<>>
    PROVE  /\ SubSeq(s, 1, Len(s) - 1) \in Seq(S)
           /\ Len(s) \in Nat \ {0}
           /\ Len(SubSeq(s, 1, Len(s) - 1)) = Len(s) - 1
           /\ \A i \in 1 .. Len(s) - 1 : SubSeq(s, 1, Len(s) - 1)[i] = s[i]
           /\ SubSeq(s, 1, Len(s) - 1) # <<>> <=> Len(s) > 1
<1>1. Len(s) \in Nat \ {0}
  BY EmptySeq
<1> DEFINE n == Len(s) - 1
<1> DEFINE t == SubSeq(s, 1, n)
<1>2. n \in Nat
  BY <1>1
<1>3. \A i \in 1 .. n : s[i] \in S
  BY <1>1, ElementOfSeq
<1> HIDE DEF n
<1>4. /\ t \in Seq(S)
      /\ Len(t) = IF 1 <= n THEN n - 1 + 1 ELSE 0
      /\ \A i \in 1 .. n - 1 + 1 : t[i] = s[1 + i - 1]
  BY <1>2, <1>3, SubSeqProperties
<1> HIDE DEF t
<1>5. (1 <= n => n - 1 + 1 = n) /\ (~(1 <= n) => n = 0)
  BY <1>2
<1>6. Len(t) = n
  BY <1>4, <1>5
<1>7. \A i \in 1 .. n : t[i] = s[i]
  <2> TAKE i \in 1 .. n
  <2>1. i \in 1 .. n - 1 + 1 /\ 1 + i - 1 = i
    BY <1>2
  <2> QED
    BY <1>4, <2>1
<1>8. t # <<>> <=> n # 0
  BY <1>4, <1>6, EmptySeq
<1>9. n # 0 <=> Len(s) > 1
  <2>1. \A m \in Nat \ {0} : m - 1 # 0 <=> m > 1
    OBVIOUS
  <2> QED
    BY <1>1, <2>1 DEF n
<1>10. SubSeq(s, 1, Len(s) - 1) = t /\ Len(s) - 1 = n
  BY DEF n, t
<1>11. \A i \in 1 .. Len(s) - 1 : t[i] = s[i]
  BY <1>7, <1>10
<1>12. Len(t) = Len(s) - 1 /\ (t # <<>> <=> Len(s) > 1)
  BY <1>6, <1>8, <1>9, <1>10
<1> QED
  BY <1>1, <1>4, <1>10, <1>11, <1>12

\* Leaving one takes the top frame off.
LEMMA PopFrames ==
    ASSUME TypeOK, InBlock, stack' = SubSeq(stack, 1, Len(stack) - 1)
    PROVE  /\ stack' \in Seq(Frame)
           /\ Top \in Frame
           /\ Len(stack) \in Nat \ {0}
           /\ Len(stack') = Len(stack) - 1
           /\ InBlock' <=> Len(stack) > 1
           /\ \A i \in 1 .. Len(stack) - 1 : stack'[i] = stack[i]
<1>1. stack \in Seq(Frame) /\ stack # <<>>
  BY DEF TypeOK, InBlock
<1>2. /\ stack' \in Seq(Frame)
      /\ Len(stack) \in Nat \ {0}
      /\ Len(stack') = Len(stack) - 1
      /\ \A i \in 1 .. Len(stack) - 1 : stack'[i] = stack[i]
      /\ stack' # <<>> <=> Len(stack) > 1
  BY <1>1, FrontProperties
<1>3. Len(stack) \in 1 .. Len(stack)
  BY <1>2
<1>4. Top \in Frame
  BY <1>1, <1>3, ElementOfSeq DEF Top
<1>5. InBlock' <=> stack' # <<>>
  BY DEF InBlock
<1> QED
  BY <1>2, <1>4, <1>5

-----------------------------------------------------------------------------
(* Types, and the shape of a call *)

\* Which stages a call can be in, and which rows are there when it is.
CallOK ==
    call # NULL =>
        /\ call.op = "generate" =>
            call.at \in {"insert", "created"} /\ call.new \in Keys /\ call.key = NULL
        /\ call.op = "revoke" => call.at \in {"update", "revoked"} /\ call.key \in Keys
        /\ call.op = "rotate" => call.key \in Keys /\ call.new \in Keys /\ instance # NULL
        /\ call.at = "created" => table[call.new] # NULL
        /\ (call.op = "rotate" /\ call.at \notin {"lock", "rotated", "raise"}) =>
            table[call.key] # NULL

Rotating == call # NULL /\ call.op = "rotate" /\ call.at # "rotated"

\* A rotation's own block: on top, and with the state that the call found.
\* Without a savepoint the rotation gets nowhere.
BlockOK ==
    Rotating =>
        /\ Top.table = call.before.table
        /\ call.before.needs_rollback = ~Top.savepoint
        /\ ~Top.savepoint =>
            needs_rollback /\ table = Top.table /\ call.at \in {"lock", "raise"}

\* The outermost block is never entered in a broken one.
OutermostOK == InBlock => stack[1].savepoint

ShapeInv == TypeOK /\ CallOK /\ BlockOK /\ OutermostOK

\* A call that goes on to its next stage is otherwise the same call.
LEMMA ProceedCall ==
    ASSUME TypeOK, call # NULL, NEW stage \in Stages, Proceed(stage)
    PROVE  /\ call' \in Calls /\ call' # NULL
           /\ call'.at = stage
           /\ call'.op = call.op /\ call'.key = call.key /\ call'.new = call.new
           /\ call'.grace = call.grace /\ call'.row = call.row
           /\ call'.before = call.before
BY SignalsNull DEF TypeOK, Proceed, Calls

\* What a signal does to the types of the state.
LEMMA SendType ==
    ASSUME TypeOK, NEW e \in Event, Send(e)
    PROVE  /\ deferred' \in Counts /\ audit' \in Counts
           /\ needs_rollback' \in BOOLEAN
           /\ needs_rollback' => InBlock
           /\ needs_rollback => needs_rollback'
<1> SignalsAssumption /\ deferred \in Counts /\ audit \in Counts
  BY SignalsAssumption DEF TypeOK
<1>1. /\ [deferred EXCEPT ![e] = @ + 1] \in Counts
      /\ [audit EXCEPT ![e] = @ + 1] \in Counts
  BY DEF Counts
<1>2. deferred' \in Counts /\ audit' \in Counts
  BY <1>1 DEF Send, Hear
<1>3. needs_rollback' = needs_rollback \/ (InBlock /\ needs_rollback' = TRUE)
  BY DEF Send, OtherReceiver
<1>4. needs_rollback \in BOOLEAN /\ (needs_rollback => InBlock)
  BY DEF TypeOK
<1>6. /\ needs_rollback' \in BOOLEAN
      /\ needs_rollback' => InBlock
      /\ needs_rollback => needs_rollback'
  <2>1. CASE needs_rollback' = needs_rollback
    BY <1>4, <2>1
  <2>2. CASE InBlock /\ needs_rollback' = TRUE
    BY <2>2
  <2> QED
    BY <1>3, <2>1, <2>2
<1> QED
  BY <1>2, <1>6

\* What leaving a block does to the types of the state.
LEMMA RollBackType ==
    ASSUME TypeOK, InBlock, RollBack
    PROVE  /\ stack' \in Seq(Frame) /\ Len(stack) \in Nat \ {0}
           /\ InBlock' <=> Len(stack) > 1
           /\ table' \in Tables /\ deferred' \in Counts /\ audit' = audit
           /\ Top \in Frame
           /\ Top.savepoint => table' = Top.table /\ ~needs_rollback' /\ deferred' = Top.deferred
           /\ ~Top.savepoint => table' = table /\ needs_rollback' /\ deferred' = deferred
           /\ needs_rollback' \in BOOLEAN
<1>1. /\ stack' \in Seq(Frame) /\ Len(stack) \in Nat \ {0}
      /\ InBlock' <=> Len(stack) > 1
      /\ Top \in Frame
  BY PopFrames DEF RollBack
<1>2. /\ Top.table \in Tables /\ Top.deferred \in Counts /\ Top.savepoint \in BOOLEAN
  BY <1>1 DEF Frame
<1>3. table \in Tables /\ deferred \in Counts
  BY DEF TypeOK
<1> QED
  BY <1>1, <1>2, <1>3 DEF RollBack

LEMMA ReleaseType ==
    ASSUME TypeOK, InBlock, Release
    PROVE  /\ stack' \in Seq(Frame) /\ Len(stack) \in Nat \ {0}
           /\ InBlock' <=> Len(stack) > 1
           /\ table' = table /\ needs_rollback' = needs_rollback
           /\ deferred' \in Counts /\ audit' \in Counts
<1>1. /\ stack' \in Seq(Frame) /\ Len(stack) \in Nat \ {0}
      /\ InBlock' <=> Len(stack) > 1
  BY PopFrames DEF Release
<1>2. table' = table /\ needs_rollback' = needs_rollback
  BY DEF Release
<1>3. [e \in Event |-> audit[e] + deferred[e]] \in Counts /\ Nothing \in Counts
  BY DEF TypeOK, Counts, Nothing
<1>4. deferred' \in Counts /\ audit' \in Counts
  BY <1>3 DEF Release, TypeOK
<1> QED
  BY <1>1, <1>2, <1>4

\* Which operation is in which stage.
LEMMA StageOf ==
    ASSUME TypeOK, CallOK, call # NULL
    PROVE  /\ call \in Calls
           /\ call.at \in {"lock", "cutoff", "leave", "rotated", "raise"} => call.op = "rotate"
           /\ call.at \in {"insert", "created"} => call.op # "revoke"
           /\ call.at \in {"update", "revoked"} => call.op # "generate"
           /\ call.op # "generate" => call.key \in Keys
           /\ call.op # "revoke" => call.new \in Keys
           /\ call.row \in Row
           /\ call.grace \in (Nat \ {0}) \cup {NULL}
           /\ Rotating => InBlock
<1>1. call \in Calls
  BY DEF TypeOK
<1>2. call.op \in {"generate", "revoke", "rotate"}
  BY <1>1 DEF Calls
<1>3. call.row \in Row /\ call.grace \in (Nat \ {0}) \cup {NULL}
  BY <1>1 DEF Calls
<1>4. Rotating => InBlock
  BY DEF Rotating, TypeOK
<1>5. CASE call.op = "generate"
  BY <1>1, <1>3, <1>4, <1>5 DEF CallOK
<1>6. CASE call.op = "revoke"
  BY <1>1, <1>3, <1>4, <1>6 DEF CallOK
<1>7. CASE call.op = "rotate"
  BY <1>1, <1>3, <1>4, <1>7 DEF CallOK
<1> QED
  BY <1>2, <1>5, <1>6, <1>7

\* A rotation's block has a savepoint once a statement has run in it.
LEMMA SavepointOf ==
    ASSUME TypeOK, CallOK, BlockOK, Rotating,
           ~needs_rollback \/ call.at \notin {"lock", "raise"}
    PROVE  Top.savepoint /\ Top \in Frame
<1>1. Top.savepoint
  BY DEF BlockOK
<1>2. stack \in Seq(Frame) /\ stack # <<>>
  BY DEF TypeOK, Rotating, InBlock
<1>3. Len(stack) \in 1 .. Len(stack)
  BY <1>2, EmptySeq
<1> QED
  BY <1>1, <1>2, <1>3, ElementOfSeq DEF Top

\* Entering and leaving blocks keeps the outermost one a real transaction, and
\* the flag a block's.
LEMMA PushOutermost ==
    ASSUME ShapeInv, Push
    PROVE  OutermostOK'
<1>1. TypeOK /\ OutermostOK
  BY DEF ShapeInv
<1>2. stack \in Seq(Frame)
  BY <1>1 DEF TypeOK
<1>3. CASE InBlock
  <2>1. 1 \in 1 .. Len(stack)
    BY <1>2, <1>3, EmptySeq DEF InBlock
  <2>2. stack'[1] = stack[1]
    BY <1>1, <2>1, PushFrames
  <2> QED
    BY <1>1, <1>3, <2>2 DEF OutermostOK
<1>4. CASE ~InBlock
  <2>1. ~needs_rollback /\ Len(stack) = 0
    BY <1>1, <1>4, EmptySeq DEF TypeOK, InBlock
  <2>2. /\ Len(stack') = 1
        /\ Top' = [table |-> table, deferred |-> deferred, handed |-> handed,
                   savepoint |-> ~needs_rollback]
    BY <1>1, <2>1, PushFrames
  <2>3. Top' = stack'[1]
    BY <2>2 DEF Top
  <2>4. stack'[1].savepoint = ~needs_rollback
    BY <2>2, <2>3
  <2> QED
    BY <2>1, <2>4 DEF OutermostOK
<1> QED
  BY <1>3, <1>4

LEMMA PopOutermost ==
    ASSUME ShapeInv, InBlock, stack' = SubSeq(stack, 1, Len(stack) - 1)
    PROVE  OutermostOK' /\ (~Top.savepoint => InBlock')
<1>1. TypeOK /\ OutermostOK
  BY DEF ShapeInv
<1>2. /\ Len(stack) \in Nat \ {0}
      /\ InBlock' <=> Len(stack) > 1
      /\ \A i \in 1 .. Len(stack) - 1 : stack'[i] = stack[i]
  BY <1>1, PopFrames
<1>3. Len(stack) > 1 => stack'[1] = stack[1]
  BY <1>2
<1>4. OutermostOK'
  BY <1>1, <1>2, <1>3 DEF OutermostOK
<1>5. Len(stack) = 1 => Top.savepoint
  BY <1>1 DEF OutermostOK, Top
<1>6. Len(stack) = 1 \/ Len(stack) > 1
  <2>1. \A n \in Nat \ {0} : n = 1 \/ n > 1
    OBVIOUS
  <2> QED
    BY <1>2, <2>1
<1>7. ~Top.savepoint => InBlock'
  BY <1>2, <1>5, <1>6
<1> QED
  BY <1>4, <1>7

\* The steps, by kind.
Steps ==
    \/ CallerEnters \/ CallerLeaves \/ CallerEscapes \/ \E k \in Keys : Load(k)
    \/ \E n \in Keys, e \in Lifespans : BeginGenerate(n, e)
    \/ BeginRevoke
    \/ \E n \in Keys, g \in Graces \cup {NULL} : BeginRotate(n, g)
    \/ RotateLock \/ Insert \/ Update \/ Cutoff
    \/ SendCreated \/ SendRevoked \/ SendRotated
    \/ RotateLeave \/ RotateUnwinds
    \/ Refused \/ StatementFails

LEMMA NextIsSteps == Next => Steps
BY DEF Next, Steps

\* Once a receiver has broken a block, it has.
LEMMA BrokenType ==
    ASSUME TypeOK, Steps
    PROVE  broken' \in BOOLEAN /\ (broken => broken')
<1>1. broken \in BOOLEAN
  BY DEF TypeOK
<1>2. broken' = broken \/ broken' = TRUE
  <2>1. ASSUME NEW e, Send(e)
        PROVE  broken' = broken \/ broken' = TRUE
    BY <2>1 DEF Send, OtherReceiver
  <2>2. CASE SendCreated \/ SendRevoked \/ SendRotated
    BY <2>1, <2>2 DEF SendCreated, SendRevoked, SendRotated
  <2>3. CASE ~(SendCreated \/ SendRevoked \/ SendRotated)
    BY <2>3 DEF Steps, CallerEnters, CallerLeaves, CallerEscapes, Load, BeginGenerate,
         BeginRevoke, BeginRotate, RotateLock, Insert, Update, Cutoff, RotateLeave,
         Refused, StatementFails, RotateUnwinds
  <2> QED
    BY <2>2, <2>3
<1> QED
  BY <1>1, <1>2

\* Each step of a caller, between its calls.
LEMMA CallerKeepsShape ==
    ASSUME ShapeInv, CallerEnters \/ CallerLeaves \/ CallerEscapes \/ \E k \in Keys : Load(k)
    PROVE  ShapeInv'
<1>0. broken' \in BOOLEAN
  BY BrokenType DEF ShapeInv, Steps
<1>1. TypeOK /\ OutermostOK /\ call = NULL /\ call' = NULL
  BY DEF ShapeInv, CallerEnters, CallerLeaves, CallerEscapes, Load, Idle
<1>2. CallOK' /\ BlockOK'
  BY <1>1 DEF CallOK, BlockOK, Rotating
<1>3. CASE CallerEnters
  <2>1. stack' \in Seq(Frame) /\ InBlock' /\ OutermostOK'
    BY <1>1, <1>3, PushFrames, PushOutermost DEF CallerEnters, InBlock
  <2>2. TypeOK'
    BY <1>1, <1>3, <2>1 DEF CallerEnters, TypeOK, Idle
  <2> QED
    BY <1>2, <2>1, <2>2 DEF ShapeInv
<1>4. CASE CallerLeaves
  <2>1. InBlock /\ ~raising /\ UNCHANGED <<minted, handed, instance, raising>>
    BY <1>4 DEF CallerLeaves, Idle
  <2>2. CASE needs_rollback
    <3>1. RollBack
      BY <1>4, <2>2 DEF CallerLeaves, LeaveBlock
    <3>2. /\ stack' \in Seq(Frame)
          /\ table' \in Tables /\ deferred' \in Counts /\ audit' = audit
          /\ Top.savepoint => ~needs_rollback'
          /\ needs_rollback' \in BOOLEAN
      BY <1>1, <2>1, <3>1, RollBackType
    <3>3. OutermostOK' /\ (~Top.savepoint => InBlock')
      BY <2>1, <3>1, PopOutermost DEF RollBack
    <3>4. TypeOK'
      BY <1>0, <1>1, <2>1, <3>2, <3>3 DEF TypeOK
    <3> QED
      BY <1>2, <3>3, <3>4 DEF ShapeInv
  <2>3. CASE ~needs_rollback
    <3>1. Release
      BY <1>4, <2>3 DEF CallerLeaves, LeaveBlock
    <3>2. /\ stack' \in Seq(Frame)
          /\ table' = table /\ needs_rollback' = needs_rollback
          /\ deferred' \in Counts /\ audit' \in Counts
      BY <1>1, <2>1, <3>1, ReleaseType
    <3>3. OutermostOK'
      BY <2>1, <3>1, PopOutermost DEF Release
    <3>4. TypeOK'
      BY <1>0, <1>1, <2>1, <2>3, <3>2 DEF TypeOK
    <3> QED
      BY <1>2, <3>3, <3>4 DEF ShapeInv
  <2> QED
    BY <2>2, <2>3
<1>5. CASE CallerEscapes
  <2>1. /\ InBlock /\ RollBack /\ UNCHANGED <<minted, instance>>
        /\ handed' = Top.handed
        /\ raising' \in BOOLEAN /\ (raising' => Len(stack) > 1)
    BY <1>5 DEF CallerEscapes
  <2>2. /\ stack' \in Seq(Frame) /\ Top \in Frame
        /\ InBlock' <=> Len(stack) > 1
        /\ table' \in Tables /\ deferred' \in Counts /\ audit' = audit
        /\ Top.savepoint => ~needs_rollback'
        /\ needs_rollback' \in BOOLEAN
    BY <1>1, <2>1, RollBackType
  <2>3. OutermostOK' /\ (~Top.savepoint => InBlock')
    BY <2>1, PopOutermost DEF RollBack
  <2>4. handed' \subseteq Keys
    BY <2>1, <2>2 DEF Frame
  <2>5. TypeOK'
    BY <1>0, <1>1, <2>1, <2>2, <2>3, <2>4 DEF TypeOK
  <2> QED
    BY <1>2, <2>3, <2>5 DEF ShapeInv
<1>6. CASE \E k \in Keys : Load(k)
  <2>1. PICK k \in Keys : Load(k)
    BY <1>6
  <2>2. [key |-> k, row |-> table[k]] \in [key : Keys, row : Row]
    BY <1>1, <2>1 DEF Load, TypeOK, Tables
  <2>3. TypeOK'
    BY <1>1, <2>1, <2>2 DEF Load, TypeOK, InBlock
  <2>4. OutermostOK'
    BY <1>1, <2>1 DEF Load, OutermostOK, InBlock
  <2> QED
    BY <1>2, <2>3, <2>4 DEF ShapeInv
<1> QED
  BY <1>3, <1>4, <1>5, <1>6

\* A new call has the type of one.
LEMMA NewCallType ==
    ASSUME TypeOK, NEW op \in {"generate", "revoke", "rotate"}, NEW stage \in Stages,
           NEW k \in Keys \cup {NULL}, NEW n \in Keys \cup {NULL},
           NEW g \in (Nat \ {0}) \cup {NULL}, NEW row \in Row,
           call' = NewCall(op, stage, k, n, g, row)
    PROVE  /\ call' \in Calls /\ call' # NULL
           /\ call'.op = op /\ call'.at = stage /\ call'.key = k /\ call'.new = n
           /\ call'.grace = g /\ call'.row = row
           /\ call'.before.table = table
           /\ call'.before.needs_rollback = needs_rollback
<1>1. table \in Tables /\ needs_rollback \in BOOLEAN
  BY DEF TypeOK
<1>2. NewCall(op, stage, k, n, g, row) \in Calls
  BY <1>1 DEF NewCall, Calls
<1> QED
  BY <1>2, SignalsNull DEF NewCall

\* Each of the three operations' first step.
LEMMA BeginKeepsShape ==
    ASSUME ShapeInv,
           \/ \E n \in Keys, e \in Lifespans : BeginGenerate(n, e)
           \/ BeginRevoke
           \/ \E n \in Keys, g \in Graces \cup {NULL} : BeginRotate(n, g)
    PROVE  ShapeInv'
<1> USE RowAssumption, SignalsNull
<1>0. broken' \in BOOLEAN
  BY BrokenType DEF ShapeInv, Steps
<1>1. TypeOK /\ OutermostOK
  BY DEF ShapeInv
<1>2. NULL \in (Nat \ {0}) \cup {NULL} /\ NULL \in Keys \cup {NULL}
  OBVIOUS
<1>3. CASE \E n \in Keys, e \in Lifespans : BeginGenerate(n, e)
  <2>1. PICK n \in Keys, e \in Lifespans : BeginGenerate(n, e)
    BY <1>3
  <2>2. NewRow(TRUE, e, NULL) \in Row
    BY NewRowType DEF Lifespans, Instant
  <2>3. call' = NewCall("generate", "insert", NULL, n, NULL, NewRow(TRUE, e, NULL))
    BY <2>1 DEF BeginGenerate
  <2>4. /\ call' \in Calls /\ call' # NULL
        /\ call'.op = "generate" /\ call'.at = "insert" /\ call'.key = NULL /\ call'.new = n
    BY <1>1, <1>2, <2>2, <2>3, NewCallType DEF Stages, Statements
  <2>5. TypeOK'
    BY <1>1, <2>1, <2>4 DEF BeginGenerate, TypeOK, Idle, InBlock
  <2>6. CallOK' /\ BlockOK'
    BY <2>4 DEF CallOK, BlockOK, Rotating
  <2>7. OutermostOK'
    BY <1>1, <2>1 DEF BeginGenerate, OutermostOK, InBlock
  <2> QED
    BY <2>5, <2>6, <2>7 DEF ShapeInv
<1>4. CASE BeginRevoke
  <2>1. instance \in [key : Keys, row : Row] /\ Idle
    BY <1>1, <1>4 DEF BeginRevoke, TypeOK
  <2> DEFINE row == Revoked(instance.row, 0, "")
  <2>2. row \in Row
    BY <2>1, RevokedType DEF Reasons
  <2> HIDE DEF row
  <2>3. /\ instance' = [instance EXCEPT !.row = row]
        /\ call' = NewCall("revoke", "update", instance.key, NULL, NULL, row)
        /\ UNCHANGED <<table, needs_rollback, stack, deferred, audit, minted, handed, raising>>
    BY <1>4 DEF BeginRevoke, row
  <2>4. instance' \in [key : Keys, row : Row]
    BY <2>1, <2>2, <2>3
  <2>5. /\ call' \in Calls /\ call' # NULL
        /\ call'.op = "revoke" /\ call'.at = "update" /\ call'.key = instance.key
    BY <1>1, <1>2, <2>1, <2>2, <2>3, NewCallType DEF Stages, Statements
  <2>6. TypeOK'
    BY <1>0, <1>1, <2>1, <2>3, <2>4, <2>5 DEF TypeOK, Idle, InBlock
  <2>7. CallOK' /\ BlockOK'
    BY <2>1, <2>5 DEF CallOK, BlockOK, Rotating
  <2>8. OutermostOK'
    BY <1>1, <2>3 DEF OutermostOK, InBlock
  <2> QED
    BY <2>6, <2>7, <2>8 DEF ShapeInv
<1>5. CASE \E n \in Keys, g \in Graces \cup {NULL} : BeginRotate(n, g)
  <2>1. PICK n \in Keys, g \in Graces \cup {NULL} : BeginRotate(n, g)
    BY <1>5
  <2>2. instance \in [key : Keys, row : Row] /\ instance # NULL /\ Idle
    BY <1>1, <2>1 DEF BeginRotate, TypeOK
  <2>3. g \in (Nat \ {0}) \cup {NULL}
    BY <2>1 DEF BeginRotate
  <2>4. /\ call' = NewCall("rotate", "lock", instance.key, n, g, instance.row)
        /\ Push /\ minted' = minted \cup {n}
        /\ UNCHANGED <<table, needs_rollback, deferred, audit, handed, instance, raising>>
    BY <2>1 DEF BeginRotate
  <2>5. /\ call' \in Calls /\ call' # NULL
        /\ call'.op = "rotate" /\ call'.at = "lock" /\ call'.key = instance.key
        /\ call'.new = n
        /\ call'.before.table = table
        /\ call'.before.needs_rollback = needs_rollback
    BY <2>2, <1>1, <1>2, <2>3, <2>4, NewCallType DEF Stages, Statements
  <2>6. /\ stack' \in Seq(Frame) /\ InBlock' /\ OutermostOK'
        /\ Top' = [table     |-> table,
                   deferred  |-> deferred,
                   handed    |-> handed,
                   savepoint |-> ~needs_rollback]
    BY <1>1, <2>4, PushFrames, PushOutermost DEF InBlock
  <2>7. TypeOK'
    BY <1>0, <1>1, <2>2, <2>4, <2>5, <2>6 DEF TypeOK, Idle
  <2>8. CallOK'
    BY <2>2, <2>4, <2>5 DEF CallOK
  <2>9. Top'.table = table /\ Top'.savepoint = ~needs_rollback
    BY <2>6
  <2>10. BlockOK'
    <3>1. needs_rollback \in BOOLEAN
      BY <1>1 DEF TypeOK
    <3>2. needs_rollback = ~(~needs_rollback)
      BY <3>1
    <3> QED
      BY <2>4, <2>5, <2>9, <3>2 DEF BlockOK
  <2> QED
    BY <2>6, <2>7, <2>8, <2>10 DEF ShapeInv
<1> QED
  BY <1>3, <1>4, <1>5

\* A step inside the open blocks, once a rotation's statements have run.
LEMMA SameBlocks ==
    ASSUME ShapeInv, stack' = stack, Rotating => Top.savepoint,
           \/ call' = NULL
           \/ /\ call # NULL /\ call.at # "rotated"
              /\ call'.op = call.op /\ call'.before = call.before
    PROVE  BlockOK' /\ OutermostOK' /\ (InBlock' <=> InBlock)
<1>1. OutermostOK' /\ (InBlock' <=> InBlock) /\ Top' = Top
  BY DEF ShapeInv, OutermostOK, InBlock, Top
<1>2. BlockOK'
  BY <1>1 DEF ShapeInv, BlockOK, Rotating
<1> QED
  BY <1>1, <1>2

\* The statements of the calls that succeed.
LEMMA StatementKeepsShape ==
    ASSUME ShapeInv, RotateLock \/ Insert \/ Update \/ Cutoff
    PROVE  ShapeInv'
<1> USE RowAssumption
<1>0. broken' \in BOOLEAN
  BY BrokenType DEF ShapeInv, Steps
<1>1. TypeOK /\ CallOK /\ BlockOK /\ call # NULL /\ call.at \in Statements /\ ~needs_rollback
  BY DEF ShapeInv, RotateLock, Insert, Update, Cutoff, Statements
<1>2. Rotating => Top.savepoint
  BY <1>1, SavepointOf
<1>3. /\ stack' = stack
      /\ UNCHANGED <<needs_rollback, deferred, audit, minted, handed, instance, raising>>
  BY DEF RotateLock, Insert, Update, Cutoff
<1>4. call.at # "rotated"
  BY <1>1 DEF Statements
<1>5. ASSUME table' \in Tables, call' \in Calls, call' # NULL,
             call'.op = call.op, call'.before = call.before, CallOK'
      PROVE  ShapeInv'
  <2>1. BlockOK' /\ OutermostOK' /\ (InBlock' <=> InBlock)
    BY <1>1, <1>2, <1>3, <1>4, <1>5, SameBlocks
  <2>2. TypeOK'
    BY <1>0, <1>1, <1>3, <1>4, <1>5, <2>1 DEF TypeOK
  <2> QED
    BY <1>5, <2>1, <2>2 DEF ShapeInv
<1>6. CASE RotateLock
  <2>1. table' = table /\ call.at = "lock" /\ call.op = "rotate"
    BY <1>1, <1>6, StageOf DEF RotateLock
  <2>2. call.key \in Keys /\ call.new \in Keys /\ instance # NULL /\ table \in Tables
    BY <1>1, <2>1 DEF CallOK, TypeOK
  <2>3. CASE table[call.key] # NULL /\ call' = [call EXCEPT !.at = "insert", !.row = table[call.key]]
    <3>1. table[call.key] \in Row
      BY <2>2, <2>3 DEF Tables
    <3>2. /\ call' \in Calls /\ call' # NULL /\ call'.at = "insert"
          /\ call'.op = call.op /\ call'.key = call.key /\ call'.new = call.new
          /\ call'.before = call.before
      BY <1>1, <2>3, <3>1, SignalsNull DEF TypeOK, Calls, Stages, Statements
    <3>3. CallOK'
      BY <1>3, <2>1, <2>2, <2>3, <3>2 DEF CallOK
    <3> QED
      BY <1>5, <2>1, <2>2, <3>2, <3>3
  <2>4. CASE Proceed("raise")
    <3>1. /\ call' \in Calls /\ call' # NULL /\ call'.at = "raise"
          /\ call'.op = call.op /\ call'.key = call.key /\ call'.new = call.new
          /\ call'.before = call.before
      BY <1>1, <2>4, ProceedCall DEF Stages
    <3>2. CallOK'
      BY <1>3, <2>1, <2>2, <3>1 DEF CallOK
    <3> QED
      BY <1>5, <2>1, <2>2, <3>1, <3>2
  <2> QED
    BY <1>6, <2>3, <2>4 DEF RotateLock
<1>7. CASE Insert
  <2> DEFINE row == NewRow(TRUE, call.row.expires_at, call.key)
  <2>1. /\ call.at = "insert" /\ Proceed("created")
        /\ table' = [table EXCEPT ![call.new] = row]
    BY <1>7 DEF Insert
  <2>2. /\ call.op \in {"generate", "rotate"} /\ call.new \in Keys
        /\ call.row \in Row /\ call.key \in Keys \cup {NULL}
    BY <1>1, <2>1, StageOf DEF Calls
  <2>3. row \in Row
    BY <2>2, NewRowType DEF Row
  <2> HIDE DEF row
  <2>4. table \in Tables /\ table' \in Tables /\ table'[call.new] # NULL
    BY <1>1, <2>1, <2>2, <2>3 DEF TypeOK, Tables
  <2>5. /\ call' \in Calls /\ call' # NULL /\ call'.at = "created"
        /\ call'.op = call.op /\ call'.key = call.key /\ call'.new = call.new
        /\ call'.before = call.before
    BY <1>1, <2>1, ProceedCall DEF Stages
  <2>6. call.op = "rotate" => table'[call.key] # NULL
    <3>1. call.op = "rotate" => table[call.key] # NULL /\ call.key \in Keys
      BY <1>1, <2>1 DEF CallOK
    <3> QED
      BY <2>1, <2>3, <2>4, <3>1 DEF Tables
  <2>7. CallOK'
    BY <1>1, <1>3, <2>1, <2>2, <2>4, <2>5, <2>6 DEF CallOK
  <2> QED
    BY <1>5, <2>4, <2>5, <2>7
<1>8. CASE Update
  <2> DEFINE row == IF call.op = "rotate" THEN Retired(call.row, 0, NULL) ELSE call.row
  <2>1. /\ call.at = "update" /\ Proceed("revoked") /\ table[call.key] # NULL
        /\ table' = [table EXCEPT ![call.key] = SaveLifecycle(@, row)]
    BY <1>8 DEF Update
  <2>2. /\ call.op \in {"revoke", "rotate"} /\ call.key \in Keys /\ call.row \in Row
    BY <1>1, <2>1, StageOf DEF Calls
  <2>3. row \in Row
    BY <2>2, RetiredType
  <2> HIDE DEF row
  <2>4. SaveLifecycle(table[call.key], row) \in Row
    BY <1>1, <2>1, <2>2, <2>3, SaveLifecycleType DEF TypeOK, Tables
  <2>5. table' \in Tables /\ table'[call.key] # NULL
    BY <1>1, <2>1, <2>2, <2>4 DEF TypeOK, Tables
  <2>6. /\ call' \in Calls /\ call' # NULL /\ call'.at = "revoked"
        /\ call'.op = call.op /\ call'.key = call.key /\ call'.new = call.new
        /\ call'.before = call.before
    BY <1>1, <2>1, ProceedCall DEF Stages
  <2>7. CallOK'
    BY <1>1, <1>3, <2>1, <2>2, <2>5, <2>6 DEF CallOK
  <2> QED
    BY <1>5, <2>5, <2>6, <2>7
<1>9. CASE Cutoff
  <2>1. /\ call.at = "cutoff" /\ Proceed("leave")
        /\ table' = [table EXCEPT ![call.key] = Retired(call.row, 0, call.grace)]
    BY <1>9 DEF Cutoff
  <2>2. /\ call.op = "rotate" /\ call.key \in Keys /\ call.row \in Row
        /\ call.grace \in (Nat \ {0}) \cup {NULL}
    BY <1>1, <2>1, StageOf DEF Calls
  <2>3. Retired(call.row, 0, call.grace) \in Row
    BY <2>2, RetiredType
  <2>4. table' \in Tables /\ table'[call.key] # NULL
    BY <1>1, <2>1, <2>2, <2>3 DEF TypeOK, Tables
  <2>5. /\ call' \in Calls /\ call' # NULL /\ call'.at = "leave"
        /\ call'.op = call.op /\ call'.key = call.key /\ call'.new = call.new
        /\ call'.before = call.before
    BY <1>1, <2>1, ProceedCall DEF Stages
  <2>6. CallOK'
    BY <1>1, <1>3, <2>1, <2>2, <2>4, <2>5 DEF CallOK
  <2> QED
    BY <1>5, <2>4, <2>5, <2>6
<1> QED
  BY <1>6, <1>7, <1>8, <1>9

\* The events of a call are events of its keys.
LEMMA EventTypes ==
    /\ \A n \in Keys : Created(n) \in Event
    /\ \A k \in Keys : RevokedEvent(k) \in Event
    /\ \A k, n \in Keys : RotatedTo(k, n) \in Event
BY DEF Event

\* The signals that the calls send.
LEMMA SignalKeepsShape ==
    ASSUME ShapeInv, SendCreated \/ SendRevoked \/ SendRotated
    PROVE  ShapeInv'
<1> USE RowAssumption
<1>0. broken' \in BOOLEAN
  BY BrokenType DEF ShapeInv, Steps
<1>1. /\ TypeOK /\ CallOK /\ BlockOK /\ call # NULL
      /\ call.at \in {"created", "revoked", "rotated"}
      /\ stack' = stack /\ table' = table /\ minted' = minted
  BY DEF ShapeInv, SendCreated, SendRevoked, SendRotated
<1>2. ~raising
  BY <1>1 DEF TypeOK
<1>3. Rotating => Top.savepoint
  BY <1>1, SavepointOf
<1>4. CASE SendCreated
  <2>1. call.at = "created" /\ Send(Created(call.new))
    BY <1>4 DEF SendCreated
  <2>2. /\ call.op \in {"generate", "rotate"} /\ call.new \in Keys
        /\ table[call.new] # NULL
    BY <1>1, <2>1, StageOf DEF Calls, CallOK
  <2>3. /\ deferred' \in Counts /\ audit' \in Counts
        /\ needs_rollback' \in BOOLEAN
        /\ needs_rollback' => InBlock
    BY <1>1, <2>1, <2>2, EventTypes, SendType
  <2>4. CASE call.op = "generate"
    <3>1. /\ call' = NULL /\ raising' = raising
          /\ handed' = handed \cup {call.new}
          /\ instance' = [key |-> call.new, row |-> table[call.new]]
      BY <1>4, <2>4 DEF SendCreated, Ended
    <3>2. instance' \in [key : Keys, row : Row]
      BY <1>1, <2>2, <3>1 DEF TypeOK, Tables
    <3>3. BlockOK' /\ OutermostOK' /\ (InBlock' <=> InBlock)
      BY <1>1, <1>3, <3>1, SameBlocks
    <3>4. TypeOK'
      BY <1>0, <1>1, <1>2, <2>2, <2>3, <3>1, <3>2, <3>3 DEF TypeOK
    <3>5. CallOK'
      BY <3>1 DEF CallOK
    <3> QED
      BY <3>3, <3>4, <3>5 DEF ShapeInv
  <2>5. CASE call.op = "rotate"
    <3>1. PICK stage \in {"update", "leave", "cutoff"} : Proceed(stage)
      BY <1>4, <2>5 DEF SendCreated
    <3>2. UNCHANGED <<handed, instance, raising>>
      BY <1>4, <2>5 DEF SendCreated
    <3>3. /\ call' \in Calls /\ call' # NULL /\ call'.at = stage
          /\ call'.op = call.op /\ call'.key = call.key /\ call'.new = call.new
          /\ call'.before = call.before
      BY <1>1, <3>1, ProceedCall DEF Stages, Statements
    <3>4. BlockOK' /\ OutermostOK' /\ (InBlock' <=> InBlock)
      BY <1>1, <1>3, <2>1, <3>3, SameBlocks
    <3>5. InBlock
      BY <1>1, <2>1, <2>5 DEF TypeOK
    <3>6. TypeOK'
      BY <1>0, <1>1, <1>2, <2>3, <3>2, <3>3, <3>4, <3>5 DEF TypeOK
    <3>7. CallOK'
      BY <1>1, <2>1, <2>5, <3>1, <3>2, <3>3 DEF CallOK
    <3> QED
      BY <3>4, <3>6, <3>7 DEF ShapeInv
  <2> QED
    BY <2>2, <2>4, <2>5
<1>5. CASE SendRevoked
  <2>1. /\ call.at = "revoked" /\ Send(RevokedEvent(call.key))
        /\ UNCHANGED <<handed, instance>>
    BY <1>5 DEF SendRevoked
  <2>2. call.op \in {"revoke", "rotate"} /\ call.key \in Keys
    BY <1>1, <2>1, StageOf DEF Calls
  <2>3. /\ deferred' \in Counts /\ audit' \in Counts
        /\ needs_rollback' \in BOOLEAN
        /\ needs_rollback' => InBlock
    BY <1>1, <2>1, <2>2, EventTypes, SendType
  <2>4. CASE call.op = "revoke"
    <3>1. call' = NULL /\ raising' = raising
      BY <1>5, <2>4 DEF SendRevoked, Ended
    <3>2. BlockOK' /\ OutermostOK' /\ (InBlock' <=> InBlock)
      BY <1>1, <1>3, <3>1, SameBlocks
    <3>3. TypeOK'
      BY <1>0, <1>1, <1>2, <2>1, <2>3, <3>1, <3>2 DEF TypeOK
    <3>4. CallOK'
      BY <3>1 DEF CallOK
    <3> QED
      BY <3>2, <3>3, <3>4 DEF ShapeInv
  <2>5. CASE call.op = "rotate"
    <3>1. Proceed("leave") /\ raising' = raising
      BY <1>5, <2>5 DEF SendRevoked
    <3>2. /\ call' \in Calls /\ call' # NULL /\ call'.at = "leave"
          /\ call'.op = call.op /\ call'.key = call.key /\ call'.new = call.new
          /\ call'.before = call.before
      BY <1>1, <3>1, ProceedCall DEF Stages
    <3>3. BlockOK' /\ OutermostOK' /\ (InBlock' <=> InBlock)
      BY <1>1, <1>3, <2>1, <3>2, SameBlocks
    <3>4. InBlock
      BY <1>1, <2>1, <2>5 DEF TypeOK
    <3>5. TypeOK'
      BY <1>0, <1>1, <1>2, <2>1, <2>3, <3>1, <3>2, <3>3, <3>4 DEF TypeOK
    <3>6. CallOK'
      BY <1>1, <2>1, <2>5, <3>2 DEF CallOK
    <3> QED
      BY <3>3, <3>5, <3>6 DEF ShapeInv
  <2> QED
    BY <2>2, <2>4, <2>5
<1>6. CASE SendRotated
  <2>1. /\ call.at = "rotated" /\ Send(RotatedTo(call.key, call.new))
        /\ call' = NULL /\ raising' = raising
        /\ handed' = handed \cup {call.new} /\ instance' = instance
    BY <1>6 DEF SendRotated, Ended
  <2>2. call.key \in Keys /\ call.new \in Keys
    BY <1>1, <2>1, StageOf
  <2>3. /\ deferred' \in Counts /\ audit' \in Counts
        /\ needs_rollback' \in BOOLEAN
        /\ needs_rollback' => InBlock
    BY <1>1, <2>1, <2>2, EventTypes, SendType
  <2>4. BlockOK' /\ OutermostOK' /\ (InBlock' <=> InBlock)
    BY <1>1, <1>3, <2>1, SameBlocks
  <2>5. TypeOK'
    BY <1>0, <1>1, <1>2, <2>1, <2>2, <2>3, <2>4 DEF TypeOK
  <2>6. CallOK'
    BY <2>1 DEF CallOK
  <2> QED
    BY <2>4, <2>5, <2>6 DEF ShapeInv
<1> QED
  BY <1>4, <1>5, <1>6

\* rotate() leaving its block, with or without an exception.
LEMMA LeavingKeepsShape ==
    ASSUME ShapeInv, RotateLeave \/ RotateUnwinds
    PROVE  ShapeInv'
<1> USE RowAssumption
<1>0. broken' \in BOOLEAN
  BY BrokenType DEF ShapeInv, Steps
<1>1. /\ TypeOK /\ CallOK /\ BlockOK /\ call # NULL /\ call.at \in {"leave", "raise"}
      /\ UNCHANGED <<minted, handed>>
  BY DEF ShapeInv, RotateLeave, RotateUnwinds
<1>2. call.op = "rotate" /\ call.key \in Keys /\ call.new \in Keys /\ InBlock /\ ~raising
  BY <1>1, StageOf DEF TypeOK
<1>3. ASSUME RollBack
      PROVE  /\ stack' \in Seq(Frame)
             /\ InBlock' <=> Len(stack) > 1
             /\ table' \in Tables /\ deferred' \in Counts /\ audit' \in Counts
             /\ needs_rollback' \in BOOLEAN
             /\ needs_rollback' => InBlock'
             /\ OutermostOK'
  <2>1. /\ stack' \in Seq(Frame)
        /\ InBlock' <=> Len(stack) > 1
        /\ table' \in Tables /\ deferred' \in Counts /\ audit' = audit
        /\ Top.savepoint => ~needs_rollback'
        /\ needs_rollback' \in BOOLEAN
    BY <1>1, <1>2, <1>3, RollBackType
  <2>2. OutermostOK' /\ (~Top.savepoint => InBlock')
    BY <1>2, <1>3, PopOutermost DEF RollBack
  <2> QED
    BY <1>1, <2>1, <2>2 DEF TypeOK
<1>4. CASE RotateLeave
  <2>1. /\ call.at = "leave" /\ LeaveBlock /\ Proceed("rotated") /\ raising' = raising
        /\ instance' = [instance EXCEPT !.row = Synced(@, table[call.key])]
    BY <1>4 DEF RotateLeave
  <2>2. /\ instance \in [key : Keys, row : Row] /\ table[call.key] \in Row
    BY <1>1, <1>2, <2>1 DEF CallOK, TypeOK, Tables
  <2>3. Synced(instance.row, table[call.key]) \in Row
    BY <2>2, SyncedType
  <2>4. instance' \in [key : Keys, row : Row]
    BY <2>1, <2>2, <2>3
  <2>5. /\ call' \in Calls /\ call' # NULL /\ call'.at = "rotated"
        /\ call'.op = call.op /\ call'.key = call.key /\ call'.new = call.new
    BY <1>1, <2>1, ProceedCall DEF Stages
  <2>6. /\ stack' \in Seq(Frame)
        /\ table' \in Tables /\ deferred' \in Counts /\ audit' \in Counts
        /\ needs_rollback' \in BOOLEAN
        /\ needs_rollback' => InBlock'
        /\ OutermostOK'
    <3>1. CASE needs_rollback
      BY <1>3, <2>1, <3>1 DEF LeaveBlock
    <3>2. CASE ~needs_rollback
      <4>1. Release
        BY <2>1, <3>2 DEF LeaveBlock
      <4>2. /\ stack' \in Seq(Frame)
            /\ table' = table /\ needs_rollback' = needs_rollback
            /\ deferred' \in Counts /\ audit' \in Counts
        BY <1>1, <1>2, <4>1, ReleaseType
      <4>3. OutermostOK'
        BY <1>2, <4>1, PopOutermost DEF Release
      <4> QED
        BY <1>1, <3>2, <4>2, <4>3 DEF TypeOK
    <3> QED
      BY <3>1, <3>2
  <2>7. TypeOK'
    BY <1>0, <1>1, <1>2, <2>1, <2>4, <2>5, <2>6 DEF TypeOK
  <2>8. CallOK'
    BY <1>2, <2>4, <2>5, SignalsNull DEF CallOK
  <2>9. BlockOK'
    BY <2>5 DEF BlockOK, Rotating
  <2> QED
    BY <2>6, <2>7, <2>8, <2>9 DEF ShapeInv
<1>5. CASE RotateUnwinds
  <2>1. /\ RollBack /\ call' = NULL /\ instance' = instance
        /\ raising' \in BOOLEAN /\ (raising' => Len(stack) > 1)
    BY <1>5 DEF RotateUnwinds
  <2>2. TypeOK'
    BY <1>0, <1>1, <1>3, <2>1 DEF TypeOK
  <2>3. CallOK' /\ BlockOK'
    BY <2>1 DEF CallOK, BlockOK, Rotating
  <2> QED
    BY <1>3, <2>1, <2>2, <2>3 DEF ShapeInv
<1> QED
  BY <1>4, <1>5

\* The statements that fail, or that Django refuses.
LEMMA FailureKeepsShape ==
    ASSUME ShapeInv, Refused \/ StatementFails
    PROVE  ShapeInv'
<1>0. broken' \in BOOLEAN
  BY BrokenType DEF ShapeInv, Steps
<1>1. /\ TypeOK /\ CallOK /\ BlockOK /\ call # NULL /\ call.at \in Statements /\ Raise
      /\ UNCHANGED <<table, stack, deferred, audit, minted, handed, instance>>
  BY DEF ShapeInv, Refused, StatementFails
<1>2. InBlock' <=> InBlock
  BY <1>1 DEF InBlock
<1>3. needs_rollback' \in BOOLEAN /\ (needs_rollback' => InBlock)
  BY <1>1 DEF Refused, StatementFails, TypeOK
<1>4. OutermostOK'
  BY <1>1 DEF ShapeInv, OutermostOK, InBlock
<1>5. CASE call.op = "rotate"
  <2>1. Proceed("raise") /\ raising' = raising
    BY <1>1, <1>5 DEF Raise
  <2>2. /\ call' \in Calls /\ call' # NULL /\ call'.at = "raise"
        /\ call'.op = call.op /\ call'.key = call.key /\ call'.new = call.new
        /\ call'.before = call.before
    BY <1>1, <2>1, ProceedCall DEF Stages
  <2>3. ~raising /\ Rotating /\ InBlock
    BY <1>1, <1>5 DEF TypeOK, Rotating, Statements
  <2>4. TypeOK'
    BY <1>0, <1>1, <1>2, <1>3, <2>1, <2>2, <2>3 DEF TypeOK
  <2>5. CallOK'
    BY <1>1, <1>5, <2>2 DEF CallOK
  <2>6. Top' = Top
    BY <1>1 DEF Top
  <2>7. ~needs_rollback => Top.savepoint
    BY <1>1, <2>3, SavepointOf
  <2>8. BlockOK'
    <3>1. CASE Refused
      <4>1. needs_rollback' = needs_rollback
        BY <3>1 DEF Refused
      <4> QED
        BY <1>1, <1>5, <2>2, <2>3, <2>6, <4>1 DEF BlockOK, Rotating
    <3>2. CASE StatementFails
      <4>1. Top.savepoint
        BY <2>7, <3>2 DEF StatementFails
      <4> QED
        BY <1>1, <1>5, <2>2, <2>3, <2>6, <4>1 DEF BlockOK, Rotating
    <3> QED
      BY <3>1, <3>2
  <2> QED
    BY <1>4, <2>4, <2>5, <2>8 DEF ShapeInv
<1>6. CASE call.op # "rotate"
  <2>1. call' = NULL /\ raising' = InBlock
    BY <1>1, <1>6 DEF Raise
  <2>2. TypeOK'
    BY <1>0, <1>1, <1>2, <1>3, <2>1 DEF TypeOK, InBlock
  <2>3. CallOK' /\ BlockOK'
    BY <2>1 DEF CallOK, BlockOK, Rotating
  <2> QED
    BY <1>4, <2>2, <2>3 DEF ShapeInv
<1> QED
  BY <1>5, <1>6

LEMMA ShapeStep ==
    ASSUME ShapeInv, [Next]_vars
    PROVE  ShapeInv'
<1>1. CASE UNCHANGED vars
  BY <1>1 DEF vars, ShapeInv, TypeOK, CallOK, BlockOK, Rotating, OutermostOK, InBlock, Top
<1>2. CASE Next
  BY <1>2, NextIsSteps, CallerKeepsShape, BeginKeepsShape, StatementKeepsShape,
     SignalKeepsShape, LeavingKeepsShape, FailureKeepsShape DEF Steps
<1> QED
  BY <1>1, <1>2

LEMMA ShapeInit == Init => ShapeInv
<1> SUFFICES ASSUME Init PROVE ShapeInv
  OBVIOUS
<1>1. Nothing \in Counts /\ <<>> \in Seq(Frame)
  BY EmptySeq DEF Nothing, Counts
<1>2. TypeOK
  BY <1>1 DEF Init, TypeOK, Tables, InBlock
<1>3. CallOK /\ BlockOK /\ OutermostOK
  BY DEF Init, CallOK, BlockOK, Rotating, OutermostOK, InBlock
<1> QED
  BY <1>2, <1>3 DEF ShapeInv

LEMMA ShapeHolds == Spec => []ShapeInv
<1>1. ShapeInv /\ [Next]_vars => ShapeInv'
  BY ShapeStep
<1> QED
  BY ShapeInit, <1>1, PTL DEF Spec

\* Every variable keeps its type, for any keys, lifespans, nesting, failures
\* and receivers: only an open block is ever broken, and an exception is only
\* on its way out of a block that is open.
THEOREM SignalTypes == Spec => []TypeOK
<1>1. ShapeInv => TypeOK
  BY DEF ShapeInv
<1> QED
  BY ShapeHolds, <1>1, PTL

\* A rotation that raises leaves the table and the caller's block as it found
\* them, whichever statement failed and whatever its receivers had broken.
LEMMA UnwindingRestores ==
    ASSUME ShapeInv, [Next]_vars
    PROVE  [call # NULL /\ call.at = "raise" =>
              /\ table' = call.before.table
              /\ needs_rollback' = call.before.needs_rollback]_vars
<1> SUFFICES ASSUME Next, call # NULL, call.at = "raise"
             PROVE  /\ table' = call.before.table
                    /\ needs_rollback' = call.before.needs_rollback
  OBVIOUS
<1>1. TypeOK /\ CallOK /\ BlockOK
  BY DEF ShapeInv
<1>2. call.op = "rotate" /\ Rotating /\ InBlock
  BY <1>1, StageOf DEF Rotating
<1>3. RotateUnwinds
  BY DEF Next, CallerEnters, CallerLeaves, CallerEscapes, Load, BeginGenerate,
         BeginRevoke, BeginRotate, RotateLock, Insert, SendCreated, Update, SendRevoked,
         Cutoff, RotateLeave, SendRotated, Refused, StatementFails, Idle, Statements
<1>4. /\ Top.savepoint => table' = Top.table /\ ~needs_rollback'
      /\ ~Top.savepoint => table' = table /\ needs_rollback'
      /\ needs_rollback' \in BOOLEAN /\ Top \in Frame
  BY <1>1, <1>2, <1>3, RollBackType DEF RotateUnwinds
<1>5. /\ Top.table = call.before.table
      /\ call.before.needs_rollback = ~Top.savepoint
      /\ ~Top.savepoint => table = Top.table
  BY <1>1, <1>2 DEF BlockOK
<1>6. table' = call.before.table
  BY <1>4, <1>5
<1>7. needs_rollback' = ~Top.savepoint
  <2>1. CASE Top.savepoint
    BY <1>4, <2>1
  <2>2. CASE ~Top.savepoint
    BY <1>4, <2>2
  <2> QED
    BY <2>1, <2>2
<1> QED
  BY <1>5, <1>6, <1>7

\* rotate() is all or nothing, with any receivers.
THEOREM RotationsAreAllOrNothing == Spec => RotateIsAllOrNothing
<1>1. ShapeInv /\ [Next]_vars =>
        [call # NULL /\ call.at = "raise" =>
           /\ table' = call.before.table
           /\ needs_rollback' = call.before.needs_rollback]_vars
  BY UnwindingRestores
<1> QED
  BY ShapeHolds, <1>1, PTL DEF Spec, RotateIsAllOrNothing

-----------------------------------------------------------------------------
(* Receivers that break nothing *)

LEMMA OnceBroken ==
    ASSUME TypeOK, [Next]_vars
    PROVE  broken => broken'
<1>1. CASE UNCHANGED vars
  BY <1>1 DEF vars
<1>2. CASE Next
  BY <1>2, NextIsSteps, BrokenType
<1> QED
  BY <1>1, <1>2

\* Unless a receiver breaks it, a block is broken only while an exception is on
\* its way out of it, and every block is entered with a savepoint.
CalmInv ==
    /\ needs_rollback => raising \/ (call # NULL /\ call.at = "raise")
    /\ \A i \in 1 .. Len(stack) : stack[i].savepoint

\* The frames after entering and after leaving a block.
LEMMA FramesAfterPush ==
    ASSUME TypeOK, Push, NEW i \in 1 .. Len(stack')
    PROVE  \/ i \in 1 .. Len(stack) /\ stack'[i] = stack[i]
           \/ i = Len(stack') /\ stack'[i] = [table     |-> table,
                                              deferred  |-> deferred,
                                              handed    |-> handed,
                                              savepoint |-> ~needs_rollback]
<1>1. Len(stack) \in Nat
  BY LenProperties DEF TypeOK
<1>2. Len(stack') = Len(stack) + 1
  BY PushFrames
<1>3. i \in 1 .. Len(stack) \/ i = Len(stack) + 1
  BY <1>1, <1>2
<1>4. CASE i \in 1 .. Len(stack)
  BY <1>4, PushFrames
<1>5. CASE i = Len(stack) + 1
  <2>1. stack'[i] = Top'
    BY <1>2, <1>5 DEF Top
  <2> QED
    BY <1>2, <1>5, <2>1, PushFrames
<1> QED
  BY <1>3, <1>4, <1>5

LEMMA FramesAfterPop ==
    ASSUME TypeOK, InBlock, stack' = SubSeq(stack, 1, Len(stack) - 1),
           NEW i \in 1 .. Len(stack')
    PROVE  i \in 1 .. Len(stack) /\ i < Len(stack) /\ stack'[i] = stack[i]
<1>1. /\ Len(stack) \in Nat \ {0}
      /\ Len(stack') = Len(stack) - 1
      /\ \A j \in 1 .. Len(stack) - 1 : stack'[j] = stack[j]
  BY PopFrames
<1>2. i \in 1 .. Len(stack) - 1
  BY <1>1
<1>3. i \in 1 .. Len(stack) /\ i < Len(stack)
  BY <1>1, <1>2
<1> QED
  BY <1>1, <1>2, <1>3

\* The top frame is one of the frames.
LEMMA TopIsAFrame ==
    ASSUME TypeOK, InBlock
    PROVE  Len(stack) \in 1 .. Len(stack) /\ Top = stack[Len(stack)] /\ Top \in Frame
<1>1. stack \in Seq(Frame) /\ stack # <<>>
  BY DEF TypeOK, InBlock
<1>2. Len(stack) \in Nat \ {0}
  BY <1>1, EmptySeq
<1>3. Len(stack) \in 1 .. Len(stack)
  BY <1>2
<1> QED
  BY <1>1, <1>3, ElementOfSeq DEF Top

\* What a step does to the blocks when none is broken from inside.
BlockStep ==
    \/ UNCHANGED stack
    \/ Idle /\ Push /\ UNCHANGED <<table, handed, audit, deferred>>
    \/ InBlock /\ Release /\ UNCHANGED handed
    \/ /\ InBlock /\ RollBack /\ Top.savepoint
       /\ table' = Top.table /\ deferred' = Top.deferred /\ UNCHANGED audit
       /\ call' = NULL
       /\ handed' = Top.handed \/ (Rotating /\ UNCHANGED handed)

LEMMA BlocksStayCalm ==
    ASSUME ShapeInv, CalmInv, ~broken', [Next]_vars
    PROVE  BlockStep /\ CalmInv'
<1>1. TypeOK /\ CallOK /\ BlockOK
  BY DEF ShapeInv
<1>2. call # NULL /\ call.at # "raise" => ~needs_rollback
  BY <1>1 DEF CalmInv, TypeOK
<1>3. Idle => ~needs_rollback
  BY DEF CalmInv, Idle
<1>4. InBlock => Top.savepoint
  BY <1>1, TopIsAFrame DEF CalmInv
<1>5. ASSUME UNCHANGED stack
      PROVE  \A i \in 1 .. Len(stack') : stack'[i].savepoint
  BY <1>5 DEF CalmInv
<1>6. ASSUME Idle, Push
      PROVE  \A i \in 1 .. Len(stack') : stack'[i].savepoint
  <2> TAKE i \in 1 .. Len(stack')
  <2>1. CASE i \in 1 .. Len(stack) /\ stack'[i] = stack[i]
    BY <2>1 DEF CalmInv
  <2>2. CASE stack'[i] = [table |-> table, deferred |-> deferred, handed |-> handed,
                          savepoint |-> ~needs_rollback]
    <3>1. stack'[i].savepoint = ~needs_rollback
      BY <2>2
    <3> QED
      BY <1>3, <1>6, <3>1
  <2> QED
    BY <1>1, <1>6, <2>1, <2>2, FramesAfterPush
<1>7. ASSUME InBlock, stack' = SubSeq(stack, 1, Len(stack) - 1)
      PROVE  \A i \in 1 .. Len(stack') : stack'[i].savepoint
  BY <1>1, <1>7, FramesAfterPop DEF CalmInv
<1>8. ASSUME InBlock, RollBack
      PROVE  /\ table' = Top.table /\ ~needs_rollback' /\ deferred' = Top.deferred
             /\ audit' = audit /\ Top.savepoint
  BY <1>1, <1>4, <1>8, RollBackType
<1>9. ASSUME NEW e, Send(e)
      PROVE  needs_rollback' = needs_rollback
  BY <1>9 DEF Send, OtherReceiver
<1>10. CASE UNCHANGED vars
  BY <1>5, <1>10 DEF vars, BlockStep, CalmInv
<1>11. CASE CallerEnters
  BY <1>3, <1>6, <1>11 DEF CallerEnters, BlockStep, CalmInv
<1>12. CASE CallerLeaves
  <2>1. InBlock /\ Release /\ handed' = handed /\ needs_rollback' = needs_rollback
    BY <1>3, <1>12 DEF CallerLeaves, LeaveBlock, Release
  <2> QED
    BY <1>3, <1>7, <1>12, <2>1 DEF BlockStep, CalmInv, CallerLeaves, Release
<1>13. CASE CallerEscapes
  <2>1. InBlock /\ RollBack /\ handed' = Top.handed /\ call' = NULL
    BY <1>13 DEF CallerEscapes
  <2> QED
    BY <1>7, <1>8, <2>1 DEF BlockStep, CalmInv, RollBack
<1>14. CASE \E k \in Keys : Load(k)
  BY <1>5, <1>14 DEF Load, BlockStep, CalmInv
<1>15. CASE \E n \in Keys, e \in Lifespans : BeginGenerate(n, e)
  <2>1. /\ ~needs_rollback /\ needs_rollback' = needs_rollback
        /\ UNCHANGED stack
    BY <1>3, <1>15 DEF BeginGenerate
  <2> QED
    BY <1>5, <2>1 DEF BlockStep, CalmInv
<1>16. CASE BeginRevoke
  BY <1>3, <1>5, <1>16 DEF BeginRevoke, BlockStep, CalmInv
<1>17. CASE \E n \in Keys, g \in Graces \cup {NULL} : BeginRotate(n, g)
  BY <1>3, <1>6, <1>17 DEF BeginRotate, BlockStep, CalmInv
<1>18. CASE RotateLock \/ Insert \/ Update \/ Cutoff
  <2>1. /\ ~needs_rollback /\ needs_rollback' = needs_rollback
        /\ UNCHANGED stack
    BY <1>18 DEF RotateLock, Insert, Update, Cutoff
  <2> QED
    BY <1>5, <2>1 DEF BlockStep, CalmInv
<1>19. CASE SendCreated \/ SendRevoked \/ SendRotated
  <2>1. ~needs_rollback /\ UNCHANGED stack
    BY <1>2, <1>19 DEF SendCreated, SendRevoked, SendRotated
  <2>2. needs_rollback' = needs_rollback
    BY <1>9, <1>19 DEF SendCreated, SendRevoked, SendRotated
  <2> QED
    BY <1>5, <2>1, <2>2 DEF BlockStep, CalmInv
<1>20. CASE RotateLeave
  <2>1. call # NULL /\ call.at = "leave"
    BY <1>20 DEF RotateLeave
  <2>2. ~needs_rollback /\ InBlock
    BY <1>1, <1>2, <2>1, StageOf DEF Rotating
  <2>3. Release /\ handed' = handed /\ needs_rollback' = needs_rollback
    BY <1>20, <2>2 DEF RotateLeave, LeaveBlock, Release
  <2> QED
    BY <1>7, <2>2, <2>3 DEF BlockStep, CalmInv, Release
<1>21. CASE RotateUnwinds
  <2>1. /\ call # NULL /\ call.at \in {"raise", "leave"} /\ RollBack /\ call' = NULL
        /\ handed' = handed
    BY <1>21 DEF RotateUnwinds
  <2>2. InBlock /\ Rotating
    BY <1>1, <2>1, StageOf DEF Rotating
  <2> QED
    BY <1>7, <1>8, <2>1, <2>2 DEF BlockStep, CalmInv, RollBack
<1>22. CASE Refused
  <2>1. call # NULL /\ call.at \in Statements /\ needs_rollback
    BY <1>22 DEF Refused
  <2> QED
    BY <1>2, <2>1 DEF Statements
<1>23. CASE StatementFails
  <2>1. /\ Raise /\ UNCHANGED stack /\ call # NULL
        /\ needs_rollback' => InBlock
    BY <1>23 DEF StatementFails
  <2>2. CASE call.op = "rotate"
    <3>1. call' # NULL /\ call'.at = "raise"
      BY <1>1, <2>1, <2>2, ProceedCall DEF Raise, Stages
    <3> QED
      BY <1>5, <2>1, <3>1 DEF BlockStep, CalmInv
  <2>3. CASE call.op # "rotate"
    <3>1. raising' = InBlock
      BY <2>1, <2>3 DEF Raise
    <3>2. needs_rollback' => raising'
      BY <2>1, <3>1
    <3> QED
      BY <1>5, <2>1, <3>2 DEF BlockStep, CalmInv
  <2> QED
    BY <2>2, <2>3
<1> QED
  BY <1>10, <1>11, <1>12, <1>13, <1>14, <1>15, <1>16, <1>17, <1>18, <1>19, <1>20,
     <1>21, <1>22, <1>23, NextIsSteps DEF Steps

-----------------------------------------------------------------------------
(* The keys that callers hold *)

Unwinding == call # NULL /\ call.at = "raise"

\* What the callers will hold once the call in progress returns.
Owed ==
    IF call # NULL /\ call.op # "revoke" /\ call.at \notin {"lock", "insert", "raise"}
    THEN handed \cup {call.new}
    ELSE handed

\* Callers hold what is stored, or is about to be handed over; so they did when
\* each open block began.
KeysInv ==
    /\ \A i \in 1 .. Len(stack) : Stored(stack[i].table) = stack[i].handed
    /\ Rotating => Top.handed = handed
    /\ ~Unwinding => Stored(table) = Owed

\* Entering and leaving blocks keeps the frames in order.
LEMMA FramesKeepKeys ==
    ASSUME TypeOK, KeysInv, BlockStep
    PROVE  \A i \in 1 .. Len(stack') : Stored(stack'[i].table) = stack'[i].handed
<1>1. CASE UNCHANGED stack
  BY <1>1 DEF KeysInv
<1>2. CASE Idle /\ Push
  <2> TAKE i \in 1 .. Len(stack')
  <2>1. Stored(table) = handed
    BY <1>2 DEF KeysInv, Idle, Unwinding, Owed
  <2>2. CASE i \in 1 .. Len(stack) /\ stack'[i] = stack[i]
    BY <2>2 DEF KeysInv
  <2>3. CASE stack'[i] = [table |-> table, deferred |-> deferred, handed |-> handed,
                          savepoint |-> ~needs_rollback]
    <3>1. stack'[i].table = table /\ stack'[i].handed = handed
      BY <2>3
    <3> QED
      BY <2>1, <3>1
  <2> QED
    BY <1>2, <2>2, <2>3, FramesAfterPush
<1>3. CASE InBlock /\ stack' = SubSeq(stack, 1, Len(stack) - 1)
  BY <1>3, FramesAfterPop DEF KeysInv
<1> QED
  BY <1>1, <1>2, <1>3 DEF BlockStep, Release, RollBack

LEMMA KeysStep ==
    ASSUME ShapeInv, CalmInv, KeysInv, ~broken', [Next]_vars
    PROVE  KeysInv'
<1> USE RowAssumption
<1>1. TypeOK /\ CallOK /\ BlockOK /\ BlockStep /\ ShapeInv'
  BY BlocksStayCalm, ShapeStep DEF ShapeInv
<1>2. \A i \in 1 .. Len(stack') : Stored(stack'[i].table) = stack'[i].handed
  BY <1>1, FramesKeepKeys
<1>3. InBlock => Stored(Top.table) = Top.handed
  BY <1>1, TopIsAFrame DEF KeysInv
<1>4. call # NULL /\ call.at # "raise" => ~needs_rollback
  BY <1>1 DEF CalmInv, TypeOK
<1>5. ASSUME call' = NULL, Stored(table') = handed'
      PROVE  KeysInv'
  BY <1>2, <1>5 DEF KeysInv, Rotating, Unwinding, Owed
<1>6. ASSUME UNCHANGED <<stack, handed>>, call # NULL, call' # NULL, call.at # "rotated",
             call'.op = call.op, ~Unwinding' => (Stored(table) = Owed)'
      PROVE  KeysInv'
  <2>1. Rotating' => Top' = Top /\ Top.handed = handed
    BY <1>6 DEF KeysInv, Rotating, Top
  <2> QED
    BY <1>2, <1>6, <2>1 DEF KeysInv
<1>7. CASE UNCHANGED vars
  BY <1>7 DEF vars, KeysInv, Rotating, Unwinding, Owed, Top, Stored
<1>8. CASE CallerEnters \/ CallerLeaves \/ \E k \in Keys : Load(k)
  <2>1. call = NULL /\ call' = NULL /\ UNCHANGED handed
    BY <1>8 DEF CallerEnters, CallerLeaves, Load, Idle
  <2>2. table' = table
    <3>1. CASE CallerLeaves
      BY <1>1, <2>1, <3>1 DEF BlockStep, CallerLeaves, LeaveBlock, CalmInv, Idle, Release
    <3>2. CASE ~CallerLeaves
      BY <1>8, <3>2 DEF CallerEnters, Load
    <3> QED
      BY <3>1, <3>2
  <2>3. Stored(table) = handed
    BY <2>1 DEF KeysInv, Unwinding, Owed
  <2> QED
    BY <1>5, <2>1, <2>2, <2>3
<1>9. CASE CallerEscapes
  <2>1. /\ InBlock /\ call = NULL /\ call' = NULL /\ handed' = Top.handed
        /\ stack' = SubSeq(stack, 1, Len(stack) - 1)
    BY <1>9 DEF CallerEscapes, RollBack
  <2>2. table' = Top.table
    <3>1. Top.savepoint
      BY <1>1, <2>1, TopIsAFrame DEF CalmInv
    <3> QED
      BY <1>9, <3>1 DEF CallerEscapes, RollBack
  <2> QED
    BY <1>3, <1>5, <2>1, <2>2
<1>10. CASE (\E n \in Keys, e \in Lifespans : BeginGenerate(n, e)) \/ BeginRevoke
  <2>1. /\ call = NULL /\ UNCHANGED <<table, stack, handed>>
        /\ call'.at \in {"insert", "update"}
        /\ call'.op = "revoke" \/ call'.at = "insert"
        /\ call'.op # "rotate"
    <3>1. ASSUME NEW n \in Keys, NEW e \in Lifespans, BeginGenerate(n, e)
          PROVE  /\ call = NULL /\ UNCHANGED <<table, stack, handed>>
                 /\ call'.at = "insert" /\ call'.op = "generate"
      BY <3>1 DEF BeginGenerate, Idle, NewCall
    <3>2. ASSUME BeginRevoke
          PROVE  /\ call = NULL /\ UNCHANGED <<table, stack, handed>>
                 /\ call'.at = "update" /\ call'.op = "revoke"
      BY <3>2 DEF BeginRevoke, Idle, NewCall
    <3> QED
      BY <1>10, <3>1, <3>2
  <2>2. Stored(table) = handed
    BY <2>1 DEF KeysInv, Unwinding, Owed
  <2>3. (Stored(table) = Owed)' /\ ~Rotating'
    BY <2>1, <2>2 DEF Owed, Rotating
  <2> QED
    BY <1>2, <2>3 DEF KeysInv
<1>11. CASE \E n \in Keys, g \in Graces \cup {NULL} : BeginRotate(n, g)
  <2>1. PICK n \in Keys, g \in Graces \cup {NULL} : BeginRotate(n, g)
    BY <1>11
  <2>2. /\ call = NULL /\ UNCHANGED <<table, handed>> /\ Push
        /\ call'.at = "lock"
    BY <2>1 DEF BeginRotate, Idle, NewCall
  <2>3. Stored(table) = handed
    BY <2>2 DEF KeysInv, Unwinding, Owed
  <2>4. Top'.handed = handed
    <3>1. Top' = [table     |-> table,
                  deferred  |-> deferred,
                  handed    |-> handed,
                  savepoint |-> ~needs_rollback]
      BY <1>1, <2>2, PushFrames
    <3> QED
      BY <3>1
  <2>5. (Stored(table) = Owed)'
    BY <2>2, <2>3 DEF Owed
  <2> QED
    BY <1>2, <2>2, <2>4, <2>5 DEF KeysInv
<1>12. CASE RotateLock
  <2>1. /\ UNCHANGED <<table, stack, handed>> /\ call # NULL /\ call.at = "lock"
    BY <1>12 DEF RotateLock
  <2>2. Stored(table) = handed
    BY <2>1 DEF KeysInv, Unwinding, Owed
  <2>3. call' # NULL /\ call'.op = call.op /\ call'.at \in {"insert", "raise"}
    <3>1. CASE Proceed("raise")
      BY <1>1, <2>1, <3>1, ProceedCall DEF Stages
    <3>2. CASE call' = [call EXCEPT !.at = "insert", !.row = table[call.key]]
      <4>1. call \in Calls
        BY <1>1, <2>1 DEF TypeOK
      <4>2. call'.op = call.op /\ call'.at = "insert"
        BY <3>2, <4>1 DEF Calls
      <4>3. call' # NULL
        <5>1. call' \in Calls \/ call' = NULL
          BY <1>1 DEF ShapeInv, TypeOK
        <5>2. call.key \in Keys /\ table \in Tables
          BY <1>1, <2>1, StageOf DEF TypeOK
        <5>3. table[call.key] # NULL
          BY <1>12, <2>1, <3>2, <4>1 DEF RotateLock, Proceed, Calls
        <5>4. table[call.key] \in Row
          BY <5>2, <5>3 DEF Tables
        <5> QED
          BY <3>2, <4>1, <5>4, SignalsNull DEF Calls, Stages, Statements
      <4> QED
        BY <4>2, <4>3
    <3> QED
      BY <1>12, <3>1, <3>2 DEF RotateLock
  <2>4. (Stored(table) = Owed)'
    BY <2>1, <2>2, <2>3 DEF Owed
  <2> QED
    BY <1>6, <2>1, <2>3, <2>4
<1>13. CASE Insert
  <2>1. /\ UNCHANGED <<stack, handed>> /\ call # NULL /\ call.at = "insert"
        /\ table' = [table EXCEPT ![call.new] =
                        NewRow(TRUE, call.row.expires_at, call.key)]
    BY <1>13 DEF Insert
  <2>2. call.op # "revoke" /\ call.new \in Keys /\ call \in Calls
    BY <1>1, <2>1, StageOf
  <2>3. /\ call' # NULL /\ call'.op = call.op /\ call'.at = "created"
        /\ call'.new = call.new
    BY <1>1, <1>13, <2>1, ProceedCall DEF Insert, Stages
  <2>4. NewRow(TRUE, call.row.expires_at, call.key) # NULL
    <3>1. call.row \in Row /\ call.key \in Keys \cup {NULL}
      BY <2>2 DEF Calls
    <3>2. call.row.expires_at \in Instant
      BY <3>1 DEF Row
    <3>3. NewRow(TRUE, call.row.expires_at, call.key) \in Row
      BY <3>1, <3>2, NewRowType
    <3> QED
      BY <3>3
  <2>5. Stored(table) = handed
    BY <2>1 DEF KeysInv, Unwinding, Owed
  <2>6. Stored(table') = handed \cup {call.new}
    BY <1>1, <2>1, <2>2, <2>4, <2>5 DEF Stored, TypeOK, Tables
  <2>7. (Stored(table) = Owed)'
    BY <2>1, <2>2, <2>3, <2>6 DEF Owed
  <2> QED
    BY <1>6, <2>1, <2>3, <2>7
<1>14. CASE Update \/ Cutoff
  <2>1. /\ UNCHANGED <<stack, handed>> /\ call # NULL /\ call.at \in {"update", "cutoff"}
    BY <1>14 DEF Update, Cutoff
  <2>2. /\ call' # NULL /\ call'.op = call.op /\ call'.at \in {"revoked", "leave"}
        /\ call'.new = call.new
    BY <1>1, <1>14, <2>1, ProceedCall DEF Update, Cutoff, Stages
  <2>3. Stored(table') = Stored(table)
    <3>1. call.key \in Keys /\ table[call.key] # NULL /\ table \in Tables
      <4>1. call.op # "generate" /\ (Cutoff => call.op = "rotate" /\ call.at = "cutoff")
        BY <1>1, <2>1, StageOf DEF Cutoff
      <4>2. call.key \in Keys /\ table \in Tables
        BY <1>1, <2>1, <4>1, StageOf DEF TypeOK
      <4>3. table[call.key] # NULL
        BY <1>1, <1>14, <2>1, <4>1 DEF Update, CallOK
      <4> QED
        BY <4>2, <4>3
    <3>2. PICK row : table' = [table EXCEPT ![call.key] = row]
      BY <1>14 DEF Update, Cutoff
    <3>3. table' \in Tables /\ table'[call.key] # NULL
      <4>1. CASE call.op = "rotate"
        BY <1>1, <2>2, <4>1, ProceedCall, <1>14, <2>1 DEF ShapeInv, CallOK, TypeOK, Update, Cutoff, Stages
      <4>2. CASE call.op = "revoke"
        <5>1. Update /\ table' = [table EXCEPT ![call.key] = SaveLifecycle(@, call.row)]
          BY <1>1, <1>14, <4>2, StageOf DEF Update, Cutoff
        <5>2. SaveLifecycle(table[call.key], call.row) \in Row
          BY <1>1, <2>1, <3>1, StageOf, SaveLifecycleType DEF Tables
        <5> QED
          BY <3>1, <5>1, <5>2 DEF Tables
      <4> QED
        BY <1>1, <2>1, <4>1, <4>2, StageOf DEF Calls
    <3> QED
      BY <3>1, <3>2, <3>3 DEF Stored, Tables
  <2>4. (Stored(table) = Owed)'
    BY <2>1, <2>2, <2>3 DEF KeysInv, Unwinding, Owed
  <2> QED
    BY <1>6, <2>1, <2>2, <2>4
<1>15. CASE SendCreated \/ SendRevoked
  <2>1. /\ UNCHANGED <<stack, table>> /\ call # NULL /\ call.at \in {"created", "revoked"}
    BY <1>15 DEF SendCreated, SendRevoked
  <2>2. Stored(table) = Owed
    BY <2>1 DEF KeysInv, Unwinding
  <2>3. CASE call' = NULL
    <3>1. handed' = Owed
      BY <1>1, <1>15, <2>1, <2>3, ProceedCall, StageOf
        DEF SendCreated, SendRevoked, Owed, Stages, Statements
    <3> QED
      BY <1>5, <2>1, <2>2, <2>3, <3>1
  <2>4. CASE call' # NULL
    <3>1. PICK stage \in {"update", "leave", "cutoff"} : Proceed(stage)
      BY <1>15, <2>4 DEF SendCreated, SendRevoked, Ended
    <3>2. UNCHANGED handed
      BY <1>15, <2>4 DEF SendCreated, SendRevoked, Ended
    <3>3. /\ call'.op = call.op /\ call'.at \in {"update", "leave", "cutoff"}
          /\ call'.new = call.new
      BY <1>1, <2>1, <3>1, ProceedCall DEF Stages, Statements
    <3>4. (Stored(table) = Owed)'
      BY <2>1, <2>2, <2>4, <3>2, <3>3 DEF Owed
    <3> QED
      BY <1>6, <2>1, <2>4, <3>2, <3>3, <3>4
  <2> QED
    BY <2>3, <2>4
<1>16. CASE RotateLeave
  <2>1. call # NULL /\ call.at = "leave" /\ handed' = handed /\ LeaveBlock
    BY <1>16 DEF RotateLeave
  <2>2. table' = table
    BY <1>4, <2>1 DEF LeaveBlock, Release
  <2>3. /\ call' # NULL /\ call'.op = call.op /\ call'.at = "rotated"
        /\ call'.new = call.new
    BY <1>1, <1>16, <2>1, ProceedCall DEF RotateLeave, Stages
  <2>4. (Stored(table) = Owed)' /\ ~Rotating'
    BY <2>1, <2>2, <2>3 DEF KeysInv, Unwinding, Owed, Rotating
  <2> QED
    BY <1>2, <2>4 DEF KeysInv
<1>17. CASE SendRotated
  <2>1. /\ call # NULL /\ call.at = "rotated" /\ call' = NULL /\ table' = table
        /\ handed' = handed \cup {call.new}
    BY <1>17 DEF SendRotated, Ended
  <2>2. Stored(table) = handed \cup {call.new}
    BY <1>1, <2>1, StageOf DEF KeysInv, Unwinding, Owed
  <2> QED
    BY <1>5, <2>1, <2>2
<1>18. CASE Refused
  BY <1>4, <1>18 DEF Refused, Statements
<1>19. CASE StatementFails
  <2>1. /\ Raise /\ UNCHANGED <<stack, table, handed>> /\ call # NULL
        /\ call.at \in Statements
    BY <1>19 DEF StatementFails
  <2>2. CASE call.op = "rotate"
    <3>1. call' # NULL /\ call'.at = "raise" /\ call'.op = call.op
      BY <1>1, <2>1, <2>2, ProceedCall DEF Raise, Stages
    <3> QED
      BY <1>6, <2>1, <3>1 DEF Unwinding, Statements
  <2>3. CASE call.op # "rotate"
    <3>1. call' = NULL
      BY <2>1, <2>3 DEF Raise
    <3>2. call.op = "revoke" \/ call.at = "insert"
      BY <1>1, <2>1, <2>3, StageOf DEF Calls, Statements
    <3>3. Stored(table) = handed
      BY <2>1, <3>2 DEF KeysInv, Unwinding, Owed, Statements
    <3> QED
      BY <1>5, <2>1, <3>1, <3>3
  <2> QED
    BY <2>2, <2>3
<1>20. CASE RotateUnwinds
  <2>1. /\ call # NULL /\ call.at \in {"raise", "leave"} /\ RollBack /\ call' = NULL
        /\ handed' = handed
    BY <1>20 DEF RotateUnwinds
  <2>2. InBlock /\ Rotating
    BY <1>1, <2>1, StageOf DEF Rotating
  <2>3. table' = Top.table
    <3>1. Top.savepoint
      BY <1>1, <2>2, TopIsAFrame DEF CalmInv
    <3> QED
      BY <2>1, <3>1 DEF RollBack
  <2>4. Top.handed = handed
    BY <2>2 DEF KeysInv
  <2> QED
    BY <1>3, <1>5, <2>1, <2>2, <2>3, <2>4
<1> QED
  BY <1>7, <1>8, <1>9, <1>10, <1>11, <1>12, <1>13, <1>14, <1>15, <1>16, <1>17,
     <1>18, <1>19, <1>20, NextIsSteps DEF Steps

LEMMA KeysInit == Init => CalmInv /\ KeysInv
<1> SUFFICES ASSUME Init PROVE CalmInv /\ KeysInv
  OBVIOUS
<1>1. Len(stack) = 0 /\ 1 .. 0 = {}
  BY EmptySeq DEF Init
<1>2. Stored(table) = {} /\ handed = {}
  BY DEF Init, Stored
<1> QED
  BY <1>1, <1>2 DEF Init, CalmInv, KeysInv, Rotating, Unwinding, Owed

\* "raw_key is your only chance to see the secret": until a receiver breaks a
\* block, callers hold the raw form of exactly the keys that are stored, for any
\* nesting of blocks and any failures.
THEOREM EveryKeyIsHandedOver == Spec => []KeysAreHandedOver
<1> DEFINE Inv == ShapeInv /\ (broken \/ (CalmInv /\ KeysInv))
<1>1. Init => Inv
  BY ShapeInit, KeysInit
<1>2. Inv /\ [Next]_vars => Inv'
  <2> SUFFICES ASSUME Inv, [Next]_vars, ~broken'
               PROVE  ShapeInv' /\ CalmInv' /\ KeysInv'
    BY ShapeStep
  <2>1. ~broken
    BY OnceBroken DEF ShapeInv
  <2> QED
    BY <2>1, ShapeStep, BlocksStayCalm, KeysStep
<1>3. Inv => KeysAreHandedOver
  BY DEF KeysInv, KeysAreHandedOver, Unwinding, Owed
<1> HIDE DEF Inv
<1> QED
  BY <1>1, <1>2, <1>3, PTL DEF Spec

-----------------------------------------------------------------------------
(* The keys that nobody holds *)

\* Whatever receivers break, going back to where an open block began leaves no
\* key there that its callers did not hold then.  A block without a savepoint
\* is one entered in a broken one: nothing has been written in it, nothing will
\* be until it is left, and it goes back no further than it must.
FramesNest ==
    \A i \in 1 .. Len(stack) :
        /\ Stored(stack[i].table) \subseteq stack[i].handed
        /\ stack[i].handed \subseteq handed
        /\ ~stack[i].savepoint => needs_rollback /\ table = stack[i].table
        /\ \A j \in 1 .. Len(stack) : i <= j =>
             /\ stack[i].handed \subseteq stack[j].handed
             /\ stack[j].savepoint => stack[i].savepoint

NobodysInv ==
    /\ FramesNest
    /\ Rotating => Top.handed = handed
    /\ ~Unwinding => Stored(table) \subseteq Owed

\* A step inside a block: the callers may get more keys, and nothing is written
\* in a block that is broken.
LEMMA NestInside ==
    ASSUME FramesNest, UNCHANGED stack, handed \subseteq handed',
           needs_rollback => needs_rollback' /\ table' = table
    PROVE  FramesNest'
<1> SUFFICES ASSUME NEW i \in 1 .. Len(stack')
             PROVE  /\ Stored(stack'[i].table) \subseteq stack'[i].handed
                    /\ stack'[i].handed \subseteq handed'
                    /\ ~stack'[i].savepoint => needs_rollback' /\ table' = stack'[i].table
                    /\ \A j \in 1 .. Len(stack') : i <= j =>
                         /\ stack'[i].handed \subseteq stack'[j].handed
                         /\ stack'[j].savepoint => stack'[i].savepoint
  BY DEF FramesNest, Stored
<1>1. stack' = stack
  OBVIOUS
<1> QED
  BY <1>1 DEF FramesNest

\* Entering a block, when every stored key is somebody's.
LEMMA NestDeeper ==
    ASSUME TypeOK, FramesNest, Push, UNCHANGED <<table, needs_rollback, handed>>,
           Stored(table) \subseteq handed
    PROVE  FramesNest'
<1> DEFINE frame == [table     |-> table,
                     deferred  |-> deferred,
                     handed    |-> handed,
                     savepoint |-> ~needs_rollback]
<1>1. /\ frame.table = table /\ frame.handed = handed
      /\ frame.savepoint = ~needs_rollback
  OBVIOUS
<1>2. Len(stack) \in Nat /\ Len(stack') = Len(stack) + 1
  BY PushFrames, LenProperties DEF TypeOK
<1>3. ASSUME NEW i \in 1 .. Len(stack')
      PROVE  \/ i \in 1 .. Len(stack) /\ stack'[i] = stack[i]
             \/ i = Len(stack') /\ stack'[i] = frame
  BY <1>3, FramesAfterPush
<1> HIDE DEF frame
<1>4. ASSUME NEW i \in 1 .. Len(stack')
      PROVE  /\ Stored(stack'[i].table) \subseteq stack'[i].handed
             /\ stack'[i].handed \subseteq handed
             /\ ~stack'[i].savepoint => needs_rollback /\ table = stack'[i].table
  <2>1. CASE i \in 1 .. Len(stack) /\ stack'[i] = stack[i]
    BY <2>1 DEF FramesNest
  <2>2. CASE stack'[i] = frame
    BY <1>1, <2>2 DEF TypeOK
  <2> QED
    BY <1>3, <2>1, <2>2
<1>5. ASSUME NEW i \in 1 .. Len(stack'), NEW j \in 1 .. Len(stack'), i <= j
      PROVE  /\ stack'[i].handed \subseteq stack'[j].handed
             /\ stack'[j].savepoint => stack'[i].savepoint
  <2>1. CASE j \in 1 .. Len(stack) /\ stack'[j] = stack[j]
    <3>1. i \in 1 .. Len(stack) /\ stack'[i] = stack[i]
      <4>1. i # Len(stack')
        BY <1>2, <1>5, <2>1
      <4> QED
        BY <1>3, <4>1
    <3> QED
      BY <1>5, <2>1, <3>1 DEF FramesNest
  <2>2. CASE stack'[j] = frame
    BY <1>1, <1>4, <2>2
  <2> QED
    BY <1>3, <2>1, <2>2
<1> QED
  BY <1>4, <1>5 DEF FramesNest, Stored

\* Leaving one: below a frame with a savepoint are only such, and without one
\* the block around is as broken as before.
LEMMA NestLess ==
    ASSUME TypeOK, FramesNest, InBlock,
           stack' = SubSeq(stack, 1, Len(stack) - 1),
           Top.handed \subseteq handed',
           ~Top.savepoint => needs_rollback' /\ table' = table
    PROVE  FramesNest'
<1>1. /\ Len(stack) \in 1 .. Len(stack) /\ Top = stack[Len(stack)]
  BY TopIsAFrame
<1>2. ASSUME NEW i \in 1 .. Len(stack')
      PROVE  i \in 1 .. Len(stack) /\ i < Len(stack) /\ stack'[i] = stack[i]
  BY <1>2, FramesAfterPop
<1>3. ASSUME NEW i \in 1 .. Len(stack')
      PROVE  /\ Stored(stack'[i].table) \subseteq stack'[i].handed
             /\ stack'[i].handed \subseteq handed'
             /\ ~stack'[i].savepoint => needs_rollback' /\ table' = stack'[i].table
  <2>1. /\ i \in 1 .. Len(stack) /\ i <= Len(stack) /\ stack'[i] = stack[i]
    BY <1>2
  <2>2. /\ stack[i].handed \subseteq Top.handed
        /\ Top.savepoint => stack[i].savepoint
    BY <1>1, <2>1 DEF FramesNest
  <2>3. /\ Stored(stack[i].table) \subseteq stack[i].handed
        /\ ~stack[i].savepoint => table = stack[i].table
    BY <2>1 DEF FramesNest
  <2> QED
    BY <2>1, <2>2, <2>3
<1>4. ASSUME NEW i \in 1 .. Len(stack'), NEW j \in 1 .. Len(stack'), i <= j
      PROVE  /\ stack'[i].handed \subseteq stack'[j].handed
             /\ stack'[j].savepoint => stack'[i].savepoint
  BY <1>2, <1>4 DEF FramesNest
<1> QED
  BY <1>3, <1>4 DEF FramesNest, Stored

\* Where a block that rolls back leaves the table.
LEMMA BackToTheFrame ==
    ASSUME TypeOK, FramesNest, InBlock, RollBack, Top.handed \subseteq handed'
    PROVE  FramesNest' /\ table' = Top.table /\ Stored(table') \subseteq Top.handed
<1>1. /\ Top.savepoint => table' = Top.table
      /\ ~Top.savepoint => needs_rollback' /\ table' = table
  BY RollBackType
<1>2. /\ Stored(Top.table) \subseteq Top.handed
      /\ ~Top.savepoint => table = Top.table
  BY TopIsAFrame DEF FramesNest
<1>3. table' = Top.table
  BY <1>1, <1>2
<1>4. FramesNest'
  BY <1>1, NestLess DEF RollBack
<1> QED
  BY <1>2, <1>3, <1>4

LEMMA ReleasingKeepsNest ==
    ASSUME TypeOK, FramesNest, InBlock, Release, ~needs_rollback, UNCHANGED handed
    PROVE  FramesNest' /\ table' = table
<1>1. table' = table /\ stack' = SubSeq(stack, 1, Len(stack) - 1)
  BY DEF Release
<1>2. Top.savepoint /\ Top.handed \subseteq handed
  BY TopIsAFrame DEF FramesNest
<1> QED
  BY <1>1, <1>2, NestLess

\* The steps of a caller, and the begin of a call.
LEMMA CallerKeepsNobodys ==
    ASSUME ShapeInv, NobodysInv,
           \/ CallerEnters \/ CallerLeaves \/ CallerEscapes \/ \E k \in Keys : Load(k)
           \/ \E n \in Keys, e \in Lifespans : BeginGenerate(n, e)
           \/ BeginRevoke
           \/ \E n \in Keys, g \in Graces \cup {NULL} : BeginRotate(n, g)
    PROVE  NobodysInv'
<1>1. TypeOK /\ FramesNest
  BY DEF ShapeInv, NobodysInv
<1>2. call = NULL
  BY DEF CallerEnters, CallerLeaves, CallerEscapes, Load, BeginGenerate,
         BeginRevoke, BeginRotate, Idle
<1>3. Stored(table) \subseteq handed
  BY <1>2 DEF NobodysInv, Unwinding, Owed
<1>4. ASSUME FramesNest', call' = NULL, Stored(table') \subseteq handed'
      PROVE  NobodysInv'
  BY <1>4 DEF NobodysInv, Rotating, Unwinding, Owed, Stored
<1>5. CASE CallerEnters
  <2>1. /\ Push /\ UNCHANGED <<table, needs_rollback, handed>> /\ call' = NULL
    BY <1>2, <1>5 DEF CallerEnters
  <2> QED
    BY <1>1, <1>3, <1>4, <2>1, NestDeeper
<1>6. CASE CallerLeaves
  <2>1. /\ InBlock /\ LeaveBlock /\ UNCHANGED handed /\ call' = NULL
    BY <1>2, <1>6 DEF CallerLeaves
  <2>2. CASE needs_rollback
    <3>1. RollBack /\ Top.handed \subseteq handed'
      BY <1>1, <2>1, <2>2, TopIsAFrame DEF LeaveBlock, FramesNest
    <3> QED
      BY <1>1, <1>4, <2>1, <3>1, BackToTheFrame
  <2>3. CASE ~needs_rollback
    <3>1. FramesNest' /\ table' = table
      BY <1>1, <2>1, <2>3, ReleasingKeepsNest DEF LeaveBlock
    <3> QED
      BY <1>3, <1>4, <2>1, <3>1
  <2> QED
    BY <2>2, <2>3
<1>7. CASE CallerEscapes
  <2>1. /\ InBlock /\ RollBack /\ handed' = Top.handed /\ call' = NULL
    BY <1>2, <1>7 DEF CallerEscapes
  <2> QED
    BY <1>1, <1>4, <2>1, BackToTheFrame
<1>8. CASE \E k \in Keys : Load(k)
  <2>1. /\ UNCHANGED <<stack, table, needs_rollback, handed>> /\ call' = NULL
    BY <1>2, <1>8 DEF Load
  <2> QED
    BY <1>1, <1>3, <1>4, <2>1, NestInside
<1>9. CASE (\E n \in Keys, e \in Lifespans : BeginGenerate(n, e)) \/ BeginRevoke
  <2>1. /\ UNCHANGED <<stack, table, needs_rollback, handed>>
        /\ call'.op \in {"generate", "revoke"}
        /\ call'.op = "revoke" \/ call'.at = "insert"
    <3>1. ASSUME NEW n \in Keys, NEW e \in Lifespans, BeginGenerate(n, e)
          PROVE  /\ UNCHANGED <<stack, table, needs_rollback, handed>>
                 /\ call'.at = "insert" /\ call'.op = "generate"
      BY <3>1 DEF BeginGenerate, NewCall
    <3>2. ASSUME BeginRevoke
          PROVE  /\ UNCHANGED <<stack, table, needs_rollback, handed>>
                 /\ call'.op = "revoke"
      BY <3>2 DEF BeginRevoke, NewCall
    <3> QED
      BY <1>9, <3>1, <3>2
  <2>2. FramesNest'
    BY <1>1, <2>1, NestInside
  <2>3. (Stored(table) \subseteq Owed)' /\ ~Rotating'
    BY <1>3, <2>1 DEF Owed, Rotating, Stored
  <2> QED
    BY <2>2, <2>3 DEF NobodysInv
<1>10. CASE \E n \in Keys, g \in Graces \cup {NULL} : BeginRotate(n, g)
  <2>1. PICK n \in Keys, g \in Graces \cup {NULL} : BeginRotate(n, g)
    BY <1>10
  <2>2. /\ UNCHANGED <<table, needs_rollback, handed>> /\ Push /\ call'.at = "lock"
    BY <2>1 DEF BeginRotate, NewCall
  <2>3. Top'.handed = handed
    <3>1. Top' = [table     |-> table,
                  deferred  |-> deferred,
                  handed    |-> handed,
                  savepoint |-> ~needs_rollback]
      BY <1>1, <2>2, PushFrames
    <3> QED
      BY <3>1
  <2>4. FramesNest'
    BY <1>1, <1>3, <2>2, NestDeeper
  <2>5. (Stored(table) \subseteq Owed)'
    BY <1>3, <2>2 DEF Owed, Stored
  <2> QED
    BY <2>2, <2>3, <2>4, <2>5 DEF NobodysInv
<1> QED
  BY <1>5, <1>6, <1>7, <1>8, <1>9, <1>10

\* The statements of a call: none runs in a broken block, and the only one that
\* adds a row adds that of the key the call will return.
LEMMA StatementKeepsNobodys ==
    ASSUME ShapeInv, NobodysInv, [Next]_vars,
           RotateLock \/ Insert \/ Update \/ Cutoff
    PROVE  NobodysInv'
<1> USE RowAssumption
<1>1. TypeOK /\ CallOK /\ BlockOK /\ ShapeInv' /\ FramesNest
  BY ShapeStep DEF ShapeInv, NobodysInv
<1>2. /\ UNCHANGED <<stack, handed, needs_rollback>> /\ ~needs_rollback /\ call # NULL
      /\ call.at \in {"lock", "insert", "update", "cutoff"}
  BY DEF RotateLock, Insert, Update, Cutoff
<1>3. FramesNest'
  BY <1>1, <1>2, NestInside
<1>4. Stored(table) \subseteq Owed
  BY <1>2 DEF NobodysInv, Unwinding
<1>5. ASSUME call' # NULL, call'.op = call.op, ~Unwinding' => (Stored(table) \subseteq Owed)'
      PROVE  NobodysInv'
  <2>1. Rotating' => Top' = Top /\ Top.handed = handed
    BY <1>2, <1>5 DEF NobodysInv, Rotating, Top
  <2> QED
    BY <1>2, <1>3, <1>5, <2>1 DEF NobodysInv
<1>6. CASE RotateLock
  <2>1. /\ UNCHANGED <<table, stack, handed>> /\ call # NULL /\ call.at = "lock"
    BY <1>6 DEF RotateLock
  <2>2. Stored(table) \subseteq handed
    BY <1>4, <2>1 DEF Owed
  <2>3. call' # NULL /\ call'.op = call.op /\ call'.at \in {"insert", "raise"}
    <3>1. CASE Proceed("raise")
      BY <1>1, <2>1, <3>1, ProceedCall DEF Stages
    <3>2. CASE call' = [call EXCEPT !.at = "insert", !.row = table[call.key]]
      <4>1. call \in Calls
        BY <1>1, <2>1 DEF TypeOK
      <4>2. call'.op = call.op /\ call'.at = "insert"
        BY <3>2, <4>1 DEF Calls
      <4>3. call' # NULL
        <5>1. call.key \in Keys /\ table \in Tables
          BY <1>1, <2>1, StageOf DEF TypeOK
        <5>2. table[call.key] # NULL
          BY <1>6, <2>1, <3>2, <4>1 DEF RotateLock, Proceed, Calls
        <5>3. table[call.key] \in Row
          BY <5>1, <5>2 DEF Tables
        <5> QED
          BY <3>2, <4>1, <5>3, SignalsNull DEF Calls, Stages, Statements
      <4> QED
        BY <4>2, <4>3
    <3> QED
      BY <1>6, <3>1, <3>2 DEF RotateLock
  <2>4. (Stored(table) \subseteq Owed)'
    BY <2>1, <2>2, <2>3 DEF Owed, Stored
  <2> QED
    BY <1>5, <2>3, <2>4
<1>7. CASE Insert
  <2>1. /\ UNCHANGED <<stack, handed>> /\ call # NULL /\ call.at = "insert"
        /\ table' = [table EXCEPT ![call.new] =
                        NewRow(TRUE, call.row.expires_at, call.key)]
    BY <1>7 DEF Insert
  <2>2. call.op # "revoke" /\ call.new \in Keys /\ call \in Calls
    BY <1>1, <2>1, StageOf
  <2>3. /\ call' # NULL /\ call'.op = call.op /\ call'.at = "created"
        /\ call'.new = call.new
    BY <1>1, <1>7, <2>1, ProceedCall DEF Insert, Stages
  <2>4. Stored(table) \subseteq handed
    BY <1>4, <2>1 DEF Owed
  <2>5. Stored(table') \subseteq handed \cup {call.new}
    BY <1>1, <2>1, <2>2, <2>4 DEF Stored, TypeOK, Tables
  <2>6. (Stored(table) \subseteq Owed)'
    <3>1. Owed' = handed \cup {call.new}
      BY <2>1, <2>2, <2>3 DEF Owed
    <3> QED
      BY <2>5, <3>1 DEF Stored
  <2> QED
    BY <1>5, <2>3, <2>6
<1>8. CASE Update \/ Cutoff
  <2>1. /\ UNCHANGED <<stack, handed>> /\ call # NULL /\ call.at \in {"update", "cutoff"}
    BY <1>8 DEF Update, Cutoff
  <2>2. /\ call' # NULL /\ call'.op = call.op /\ call'.at \in {"revoked", "leave"}
        /\ call'.new = call.new
    BY <1>1, <1>8, <2>1, ProceedCall DEF Update, Cutoff, Stages
  <2>3. Stored(table') \subseteq Stored(table)
    <3>1. call.key \in Keys /\ table \in Tables /\ table[call.key] # NULL
      <4>1. call.op # "generate" /\ (Cutoff => call.op = "rotate" /\ call.at = "cutoff")
        BY <1>1, <2>1, StageOf DEF Cutoff
      <4>2. call.key \in Keys /\ table \in Tables
        BY <1>1, <2>1, <4>1, StageOf DEF TypeOK
      <4>3. table[call.key] # NULL
        BY <1>1, <1>8, <2>1, <4>1 DEF Update, CallOK
      <4> QED
        BY <4>2, <4>3
    <3>2. PICK row : table' = [table EXCEPT ![call.key] = row]
      BY <1>8 DEF Update, Cutoff
    <3> QED
      BY <3>1, <3>2 DEF Stored, Tables
  <2>4. (Stored(table) \subseteq Owed)'
    <3>1. Owed' = Owed
      BY <2>1, <2>2 DEF Owed
    <3> QED
      BY <1>4, <2>3, <3>1 DEF Stored
  <2> QED
    BY <1>5, <2>2, <2>4
<1> QED
  BY <1>6, <1>7, <1>8

\* The signals: a receiver can break the block, but it takes nobody's key away
\* and writes nothing.
LEMMA SignalKeepsNobodys ==
    ASSUME ShapeInv, NobodysInv, SendCreated \/ SendRevoked \/ SendRotated
    PROVE  NobodysInv'
<1>1. TypeOK /\ CallOK /\ FramesNest
  BY DEF ShapeInv, NobodysInv
<1>2. /\ UNCHANGED <<stack, table>> /\ call # NULL
      /\ call.at \in {"created", "revoked", "rotated"}
  BY DEF SendCreated, SendRevoked, SendRotated
<1>3. Stored(table) \subseteq Owed
  BY <1>2 DEF NobodysInv, Unwinding
<1>4. handed \subseteq handed'
  BY DEF SendCreated, SendRevoked, SendRotated
<1>5. needs_rollback => needs_rollback'
  BY DEF SendCreated, SendRevoked, SendRotated, Send, OtherReceiver
<1>6. FramesNest'
  BY <1>1, <1>2, <1>4, <1>5, NestInside
<1>7. CASE call' = NULL
  <2>1. handed' = Owed
    BY <1>1, <1>2, <1>7, ProceedCall, StageOf
      DEF SendCreated, SendRevoked, SendRotated, Owed, Stages, Statements
  <2> QED
    BY <1>2, <1>3, <1>6, <1>7, <2>1 DEF NobodysInv, Rotating, Unwinding, Owed, Stored
<1>8. CASE call' # NULL
  <2>1. /\ call.at # "rotated"
        /\ \E stage \in {"update", "leave", "cutoff"} : Proceed(stage)
        /\ UNCHANGED handed
    BY <1>8 DEF SendCreated, SendRevoked, SendRotated, Ended
  <2>2. PICK stage \in {"update", "leave", "cutoff"} : Proceed(stage)
    BY <2>1
  <2>3. /\ call'.op = call.op /\ call'.at \in {"update", "leave", "cutoff"}
        /\ call'.new = call.new
    BY <1>1, <1>2, <2>2, ProceedCall DEF Stages, Statements
  <2>4. Owed' = Owed
    BY <1>2, <1>8, <2>1, <2>3 DEF Owed
  <2>5. Rotating' => Top' = Top /\ Top.handed = handed
    BY <1>2, <1>8, <2>1, <2>3 DEF NobodysInv, Rotating, Top
  <2> QED
    BY <1>2, <1>3, <1>6, <2>1, <2>4, <2>5 DEF NobodysInv, Stored
<1> QED
  BY <1>7, <1>8

\* The end of a rotation's block, and errors.
LEMMA EndKeepsNobodys ==
    ASSUME ShapeInv, NobodysInv,
           RotateLeave \/ RotateUnwinds \/ Refused \/ StatementFails
    PROVE  NobodysInv'
<1>1. TypeOK /\ CallOK /\ FramesNest
  BY DEF ShapeInv, NobodysInv
<1>2. CASE RotateLeave
  <2>1. call # NULL /\ call.at = "leave" /\ handed' = handed /\ LeaveBlock
    BY <1>2 DEF RotateLeave
  <2>2. InBlock /\ Rotating
    BY <1>1, <2>1, StageOf DEF Rotating
  <2>3. /\ call' # NULL /\ call'.op = "rotate" /\ call'.at = "rotated"
        /\ call'.new = call.new
    BY <1>1, <1>2, <2>1, ProceedCall, StageOf DEF RotateLeave, Stages
  <2>4. Owed = handed \cup {call.new} /\ Owed' = Owed
    BY <1>1, <2>1, <2>3, StageOf DEF Owed
  <2>5. FramesNest' /\ Stored(table') \subseteq Owed
    <3>1. CASE needs_rollback
      <4>1. RollBack /\ Top.handed = handed
        BY <2>1, <2>2, <3>1 DEF LeaveBlock, NobodysInv
      <4> QED
        BY <1>1, <2>1, <2>2, <2>4, <4>1, BackToTheFrame
    <3>2. CASE ~needs_rollback
      <4>1. FramesNest' /\ table' = table
        BY <1>1, <2>1, <2>2, <3>2, ReleasingKeepsNest DEF LeaveBlock
      <4> QED
        BY <2>1, <4>1 DEF NobodysInv, Unwinding
    <3> QED
      BY <3>1, <3>2
  <2>6. ~Rotating'
    BY <2>3 DEF Rotating
  <2> QED
    BY <2>4, <2>5, <2>6 DEF NobodysInv, Stored
<1>3. CASE RotateUnwinds
  <2>1. /\ call # NULL /\ call.at \in {"raise", "leave"} /\ RollBack /\ call' = NULL
        /\ handed' = handed
    BY <1>3 DEF RotateUnwinds
  <2>2. InBlock /\ Rotating
    BY <1>1, <2>1, StageOf DEF Rotating
  <2>3. Top.handed = handed
    BY <2>2 DEF NobodysInv
  <2>4. FramesNest' /\ Stored(table') \subseteq handed'
    BY <1>1, <2>1, <2>2, <2>3, BackToTheFrame
  <2> QED
    BY <2>1, <2>4 DEF NobodysInv, Rotating, Unwinding, Owed, Stored
<1>4. CASE Refused \/ StatementFails
  <2>1. /\ Raise /\ UNCHANGED <<stack, table, handed>> /\ call # NULL
        /\ call.at \in Statements
        /\ needs_rollback => needs_rollback'
    BY <1>4 DEF Refused, StatementFails
  <2>2. FramesNest'
    BY <1>1, <2>1, NestInside
  <2>3. CASE call.op = "rotate"
    <3>1. call' # NULL /\ call'.at = "raise"
      BY <1>1, <2>1, <2>3, ProceedCall DEF Raise, Stages
    <3>2. Top'.handed = handed'
      BY <2>1, <2>3 DEF NobodysInv, Rotating, Statements, Top
    <3> QED
      BY <2>2, <3>1, <3>2 DEF NobodysInv, Unwinding
  <2>4. CASE call.op # "rotate"
    <3>1. call' = NULL
      BY <2>1, <2>4 DEF Raise
    <3>2. call.op = "revoke" \/ call.at = "insert"
      BY <1>1, <2>1, <2>4, StageOf DEF Calls, Statements
    <3>3. Stored(table) \subseteq handed
      BY <2>1, <3>2 DEF NobodysInv, Unwinding, Owed, Statements
    <3> QED
      BY <2>1, <2>2, <3>1, <3>3 DEF NobodysInv, Rotating, Unwinding, Owed, Stored
  <2> QED
    BY <2>3, <2>4
<1> QED
  BY <1>2, <1>3, <1>4

LEMMA NobodysStep ==
    ASSUME ShapeInv, NobodysInv, [Next]_vars
    PROVE  NobodysInv'
<1>1. CASE UNCHANGED vars
  BY <1>1 DEF vars, NobodysInv, FramesNest, Rotating, Unwinding, Owed, Top, Stored
<1>2. CASE Next
  BY <1>2, CallerKeepsNobodys, StatementKeepsNobodys, SignalKeepsNobodys,
     EndKeepsNobodys, NextIsSteps DEF Steps
<1> QED
  BY <1>1, <1>2

\* A receiver can at worst make a key vanish that was handed over: whichever
\* receivers break their blocks, and whatever fails, no stored key is one whose
\* raw form nobody was given.
THEOREM NoStoredKeyIsNobodys == Spec => []NoKeyIsNobodys
<1> DEFINE Inv == ShapeInv /\ NobodysInv
<1>1. Init => Inv
  <2> SUFFICES ASSUME Init PROVE NobodysInv
    BY ShapeInit
  <2>1. Len(stack) = 0 /\ 1 .. 0 = {}
    BY EmptySeq DEF Init
  <2>2. Stored(table) = {}
    BY DEF Init, Stored
  <2> QED
    BY <2>1, <2>2 DEF Init, NobodysInv, FramesNest, Rotating, Unwinding, Owed
<1>2. Inv /\ [Next]_vars => Inv'
  BY ShapeStep, NobodysStep
<1>3. Inv => NoKeyIsNobodys
  BY DEF NobodysInv, NoKeyIsNobodys, Unwinding, Owed
<1> HIDE DEF Inv
<1> QED
  BY <1>1, <1>2, <1>3, PTL DEF Spec
=============================================================================
