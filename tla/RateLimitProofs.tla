-------------------------- MODULE RateLimitProofs ---------------------------
(***************************************************************************)
(* What the fixed-window counter guarantees for any limit, window, tick,   *)
(* number of processes and threads, bound on requests and on the clock.    *)
(***************************************************************************)
EXTENDS RateLimit, TLAPS

\* A window lasts at least a tick.
LEMMA LengthIsPositive == Length \in Nat \ {0}
BY RateLimitAssumption DEF Length

\* An instant lies in its window: not before the start, before the reset.
LEMMA InItsWindow ==
    ASSUME NEW t \in Nat
    PROVE  /\ StartOf(t) \in Nat
           /\ StartOf(t) <= t
           /\ t < ResetAt(t)
           /\ ResetAt(t) = StartOf(t) + Length
           /\ ResetAt(t) \in Nat
           /\ RetryAfter(t) \in Nat
<1>1. ASSUME NEW L \in Nat \ {0}
      PROVE  /\ (t \div L) * L \in Nat
             /\ (t \div L) * L <= t
             /\ t < (t \div L) * L + L
  OBVIOUS
<1>2. /\ StartOf(t) \in Nat
      /\ StartOf(t) <= t
      /\ t < StartOf(t) + Length
  BY <1>1, LengthIsPositive DEF StartOf
<1>3. ResetAt(t) \in Nat /\ ResetAt(t) = StartOf(t) + Length
  BY <1>2, LengthIsPositive DEF ResetAt
<1>4. ASSUME NEW d \in Nat, NEW L \in Nat \ {0}
      PROVE  d \div L \in Nat
  OBVIOUS
<1>5. ResetAt(t) - t \in Nat
  BY <1>2, <1>3
<1>6. RetryAfter(t) \in Nat
  BY <1>4, <1>5, RateLimitAssumption DEF RetryAfter
<1> QED
  BY <1>2, <1>3, <1>6

\* A thread counts in one of the stores, under one of the windows.
LEMMA CounterType ==
    ASSUME TypeOK, NEW w \in Workers
    PROVE  /\ Cache(w) \in Stores
           /\ at[w] \in Nat /\ at[w] <= now /\ now \in Nat
           /\ StartOf(at[w]) \in Windows
           /\ Counter(w) \in Entry \cup {NULL}
<1>1. Cache(w) \in Stores
  BY DEF Stores
<1>2. at[w] \in 0 .. now /\ now \in 0 .. MaxTime /\ MaxTime \in Nat
  BY RateLimitAssumption DEF TypeOK
<1>3. at[w] \in 0 .. MaxTime
  BY <1>2
<1>4. StartOf(at[w]) \in Windows
  BY <1>3 DEF Windows
<1> QED
  BY <1>1, <1>2, <1>4 DEF TypeOK, Counter

\* An answer is well typed.
LEMMA ConcludeType ==
    ASSUME TypeOK, NEW w \in Workers, NEW count \in Nat, Conclude(w, count)
    PROVE  /\ local' \in [Workers -> Result \cup {NULL}]
           /\ granted' \in [Stores -> [Windows -> Nat]]
           /\ pc' \in [Workers -> Hitting \cup {"idle", "denied"}]
<1>1. RetryAfter(at[w]) \in Nat
  BY CounterType, InItsWindow
<1>2. local' \in [Workers -> Result \cup {NULL}]
  BY <1>1 DEF Conclude, Remember, Result, TypeOK
<1>3. granted' \in [Stores -> [Windows -> Nat]]
  BY CounterType DEF Conclude, Tally, TypeOK
<1> QED
  BY <1>2, <1>3 DEF Conclude, TypeOK

\* Writing an entry keeps the type of the stores.
LEMMA SetCounterType ==
    ASSUME TypeOK, NEW w \in Workers, NEW entry \in Entry, SetCounter(w, entry)
    PROVE  store' \in [Stores -> [Windows -> Entry \cup {NULL}]]
BY CounterType DEF SetCounter, TypeOK

\* add() keeps the type of the stores.
LEMMA AddEntryType ==
    ASSUME TypeOK, NEW w \in Workers, NEW n \in Nat, AddEntry(w, n)
    PROVE  store' \in [Stores -> [Windows -> Entry \cup {NULL}]]
<1>1. Seeded(n) \in Entry
  BY CounterType, LengthIsPositive DEF Seeded, Entry
<1> QED
  BY <1>1, SetCounterType DEF AddEntry, TypeOK

\* The entries that the two kinds of incr() write.
LEMMA BumpedType ==
    ASSUME TypeOK, NEW w \in Workers
    PROVE  /\ Live(Counter(w)) =>
                /\ Counter(w) \in Entry
                /\ [Counter(w) EXCEPT !.count = @ + 1] \in Entry
           /\ [count   |-> read[w] + 1,
               expires |-> now + DefaultTimeout * Second] \in Entry
<1>1. Live(Counter(w)) => Counter(w) \in Entry
  BY CounterType DEF Live
<1>2. DefaultTimeout * Second \in Nat
  BY RateLimitAssumption
<1>3. ASSUME NEW entry \in Entry
      PROVE  [entry EXCEPT !.count = @ + 1] \in Entry
  BY DEF Entry
<1>4. read[w] + 1 \in Nat /\ now + DefaultTimeout * Second \in Nat
  BY <1>2, CounterType DEF TypeOK
<1> QED
  BY <1>1, <1>3, <1>4 DEF Entry

\* Every step of a hit keeps the types.
LEMMA HitType ==
    ASSUME TypeOK, NEW w \in Workers, Hit(w)
    PROVE  TypeOK'
<1>1. CASE Begin(w)
  <2>1. begun' \in 0 .. Requests
    BY <1>1, RateLimitAssumption DEF Begin, TypeOK
  <2>2. at' \in [Workers -> 0 .. now]
    BY <1>1, RateLimitAssumption DEF Begin, TypeOK
  <2> QED
    BY <1>1, <2>1, <2>2 DEF Begin, TypeOK, Hitting
<1>2. CASE Unlimited(w)
  BY <1>2 DEF Unlimited, Remember, Unmetered, Result, TypeOK
<1>3. CASE Add(w)
  <2>1. store' \in [Stores -> [Windows -> Entry \cup {NULL}]]
    BY <1>3, AddEntryType DEF Add
  <2> QED
    BY <1>3, <2>1 DEF Add, TypeOK, Hitting
<1>4. CASE Incr(w)
  <2>1. /\ Counter(w).count + 1 \in Nat
        /\ store' \in [Stores -> [Windows -> Entry \cup {NULL}]]
    BY <1>4, BumpedType, SetCounterType DEF Incr, Entry
  <2> QED
    BY <1>4, <2>1, ConcludeType DEF Incr, TypeOK
<1>5. CASE IncrRead(w)
  BY <1>5, BumpedType DEF IncrRead, Entry, TypeOK, Hitting
<1>6. CASE IncrWrite(w)
  <2>1. read[w] + 1 \in Nat
    BY DEF TypeOK
  <2>2. PICK entry \in Entry : SetCounter(w, entry)
    BY <1>6, BumpedType DEF IncrWrite
  <2>3. store' \in [Stores -> [Windows -> Entry \cup {NULL}]]
    BY <2>2, SetCounterType
  <2> QED
    BY <1>6, <2>1, <2>3, ConcludeType DEF IncrWrite, TypeOK
<1>7. CASE IncrMissing(w)
  BY <1>7 DEF IncrMissing, TypeOK, Hitting
<1>8. CASE Seed(w)
  <2>1. store' \in [Stores -> [Windows -> Entry \cup {NULL}]]
    BY <1>8, AddEntryType DEF Seed
  <2> QED
    BY <1>8, <2>1, ConcludeType DEF Seed, TypeOK
<1>9. CASE Outage(w)
  <2>1. store' \in [Stores -> [Windows -> Entry \cup {NULL}]]
    BY <1>9, AddEntryType, BumpedType, SetCounterType DEF Outage, TypeOK
  <2>2. waved' \in [Stores -> [Windows -> Nat]]
    BY <1>9, CounterType DEF Outage, Tally, TypeOK
  <2> QED
    BY <1>9, <2>1, <2>2 DEF Outage, Remember, Unmetered, Result, TypeOK
<1>10. CASE Wait(w)
  BY <1>10 DEF Wait, TypeOK
<1> QED
  BY <1>1, <1>2, <1>3, <1>4, <1>5, <1>6, <1>7, <1>8, <1>9, <1>10 DEF Hit

\* Every step keeps the types.
LEMMA TypeStep == TypeOK /\ [Next]_vars => TypeOK'
<1> SUFFICES ASSUME TypeOK, [Next]_vars
             PROVE  TypeOK'
  OBVIOUS
<1>1. CASE Tick
  BY <1>1, RateLimitAssumption DEF Tick, TypeOK
<1>2. ASSUME NEW c \in Stores, NEW win \in Windows, Evict(c, win)
      PROVE  TypeOK'
  BY <1>2 DEF Evict, TypeOK
<1>3. CASE UNCHANGED vars
  BY <1>3 DEF vars, TypeOK
<1> QED
  BY <1>1, <1>2, <1>3, HitType DEF Next

\* The initial state is well typed.
LEMMA TypeInit == Init => TypeOK
BY RateLimitAssumption DEF Init, TypeOK

\* Every reachable state of the counter is well typed.
THEOREM CounterTypeCorrect == Spec => []TypeOK
<1> QED
  BY TypeInit, TypeStep, PTL DEF Spec

-----------------------------------------------------------------------------
(* No request is denied early *)

DeniedInv == CountsAreBacked /\ NeverDeniedEarly

\* An answer adds one to the requests that passed exactly if it allows one.
LEMMA AnswerPasses ==
    ASSUME TypeOK, NEW w \in Workers, NEW n \in Nat, Conclude(w, n),
           UNCHANGED waved, NEW c \in Stores, NEW win \in Windows
    PROVE  /\ Passed(c, win) \in Nat
           /\ Passed(c, win)' \in Nat
           /\ Passed(c, win)' >= Passed(c, win)
           /\ n <= Limit /\ c = Cache(w) /\ win = StartOf(at[w]) =>
                Passed(c, win)' = Passed(c, win) + 1
<1>1. CASE n <= Limit
  <2>1. granted' = Tally(granted, w)
    BY <1>1 DEF Conclude
  <2> QED
    BY <1>1, <2>1, CounterType DEF Tally, Passed, TypeOK
<1>2. CASE ~ (n <= Limit)
  <2>1. granted' = granted
    BY <1>2 DEF Conclude
  <2> QED
    BY <1>2, <2>1 DEF Passed, TypeOK
<1> QED
  BY <1>1, <1>2

\* So does a request that fails open.
LEMMA OutagePasses ==
    ASSUME TypeOK, NEW w \in Workers, Outage(w),
           NEW c \in Stores, NEW win \in Windows
    PROVE  /\ Passed(c, win) \in Nat
           /\ Passed(c, win)' \in Nat
           /\ Passed(c, win)' >= Passed(c, win)
           /\ c = Cache(w) /\ win = StartOf(at[w]) =>
                Passed(c, win)' = Passed(c, win) + 1
BY CounterType DEF Outage, Tally, Passed, TypeOK

\* The requests that passed only become more.
LEMMA PassedGrows ==
    ASSUME TypeOK, [Next]_vars, NEW c \in Stores, NEW win \in Windows
    PROVE  /\ Passed(c, win) \in Nat
           /\ Passed(c, win)' \in Nat
           /\ Passed(c, win)' >= Passed(c, win)
<1>1. CASE UNCHANGED <<granted, waved>>
  BY <1>1 DEF Passed, TypeOK
<1>2. ASSUME NEW w \in Workers, Outage(w)
      PROVE  /\ Passed(c, win) \in Nat
             /\ Passed(c, win)' \in Nat
             /\ Passed(c, win)' >= Passed(c, win)
  BY <1>2, OutagePasses
<1>3. ASSUME NEW w \in Workers, NEW n \in Nat, Conclude(w, n), UNCHANGED waved
      PROVE  /\ Passed(c, win) \in Nat
             /\ Passed(c, win)' \in Nat
             /\ Passed(c, win)' >= Passed(c, win)
  BY <1>3, AnswerPasses
<1>4. ASSUME NEW w \in Workers, Hit(w)
      PROVE  \/ UNCHANGED <<granted, waved>>
             \/ Outage(w)
             \/ \E n \in Nat : Conclude(w, n) /\ UNCHANGED waved
  <2>1. CASE Incr(w)
    <3>1. Counter(w).count + 1 \in Nat
      BY <2>1, BumpedType DEF Incr, Entry
    <3> QED
      BY <2>1, <3>1 DEF Incr
  <2>2. CASE IncrWrite(w)
    <3>1. read[w] + 1 \in Nat
      BY DEF TypeOK
    <3> QED
      BY <2>2, <3>1 DEF IncrWrite
  <2>3. CASE Seed(w)
    BY <2>3 DEF Seed
  <2> QED
    BY <1>4, <2>1, <2>2, <2>3
       DEF Hit, Begin, Unlimited, Add, IncrRead, IncrMissing, Wait
<1>5. CASE Tick \/ UNCHANGED vars \/ \E x \in Stores, y \in Windows : Evict(x, y)
  BY <1>1, <1>5 DEF Tick, Evict, vars
<1> QED
  BY <1>1, <1>2, <1>3, <1>4, <1>5 DEF Next

\* A count that is backed stays so.
LEMMA StaysBacked ==
    ASSUME TypeOK, [Next]_vars, NEW c \in Stores, NEW win \in Windows,
           NEW n \in Nat, Backed(n, c, win)
    PROVE  n <= Passed(c, win)' \/ Limit <= Passed(c, win)'
BY PassedGrows, RateLimitAssumption DEF Backed

\* One more than a backed count is backed once the answer to it is given, and
\* if that answer denies the request, the limit has been reached.
LEMMA AnswerIsBacked ==
    ASSUME TypeOK, NEW w \in Workers, NEW n \in Nat, Conclude(w, n + 1),
           UNCHANGED waved, NEW c \in Stores, NEW win \in Windows,
           c = Cache(w), win = StartOf(at[w]), Backed(n, c, win)
    PROVE  /\ Backed(n + 1, c, win)'
           /\ pc'[w] = "denied" => Limit <= Passed(c, win)'
<1>1. /\ Passed(c, win) \in Nat
      /\ Passed(c, win)' \in Nat
      /\ Passed(c, win)' >= Passed(c, win)
      /\ n + 1 <= Limit => Passed(c, win)' = Passed(c, win) + 1
  BY AnswerPasses
<1>2. pc'[w] = "denied" => ~ (n + 1 <= Limit)
  BY DEF Conclude, TypeOK
<1> QED
  BY <1>1, <1>2, RateLimitAssumption DEF Backed

\* A hit writes no counter but its own.
LEMMA WritesItsOwn ==
    ASSUME TypeOK, NEW w \in Workers, NEW entry, SetCounter(w, entry),
           NEW c \in Stores, NEW win \in Windows
    PROVE  store'[c][win] = IF c = Cache(w) /\ win = StartOf(at[w])
                            THEN entry ELSE store[c][win]
BY CounterType DEF SetCounter, TypeOK

\* After a hit every counter that there is, is backed.
LEMMA HitBacksCounters ==
    ASSUME TypeOK, DeniedInv, NEW w \in Workers, Hit(w),
           NEW c \in Stores, NEW win \in Windows, store'[c][win] # NULL
    PROVE  Backed(store[c][win].count, c, win)'
<1> DEFINE mine == c = Cache(w) /\ win = StartOf(at[w])
<1>1. [Next]_vars
  BY DEF Next
<1>2. CASE store'[c][win] = store[c][win]
  <2>1. store[c][win].count \in Nat /\ Backed(store[c][win].count, c, win)
    BY <1>2 DEF DeniedInv, CountsAreBacked, TypeOK, Entry
  <2> QED
    BY <1>1, <1>2, <2>1, StaysBacked DEF Backed
<1>3. ASSUME NEW n \in Nat, SetCounter(w, Seeded(n)) \/ UNCHANGED store,
             store'[c][win] # store[c][win]
      PROVE  mine /\ store'[c][win].count = n
  BY <1>3, WritesItsOwn DEF Seeded
<1>4. ASSUME NEW n \in Nat, NEW t, SetCounter(w, [count |-> n, expires |-> t]),
             store'[c][win] # store[c][win]
      PROVE  mine /\ store'[c][win].count = n
  BY <1>4, WritesItsOwn
<1>5. ASSUME Live(Counter(w)), SetCounter(w, [Counter(w) EXCEPT !.count = @ + 1]),
             store'[c][win] # store[c][win]
      PROVE  /\ mine
             /\ Counter(w).count \in Nat
             /\ Backed(Counter(w).count, c, win)
             /\ store'[c][win].count = Counter(w).count + 1
  <2>1. mine /\ store'[c][win] = [Counter(w) EXCEPT !.count = @ + 1]
    BY <1>5, WritesItsOwn
  <2>2. Counter(w) = store[c][win] /\ Counter(w) \in Entry
    BY <1>5, <2>1, BumpedType DEF Counter
  <2>3. store[c][win] # NULL
    BY <1>5, <2>2 DEF Live
  <2> QED
    BY <2>1, <2>2, <2>3 DEF Entry, DeniedInv, CountsAreBacked
<1>6. ASSUME pc[w] = "write", mine
      PROVE  read[w] \in Nat /\ Backed(read[w], c, win)
  BY <1>6 DEF TypeOK, DeniedInv, CountsAreBacked
<1>7. Backed(0, c, win)
  BY <1>1, PassedGrows DEF Backed
<1>8. CASE Add(w) /\ store'[c][win] # store[c][win]
  <2>1. store'[c][win].count = 0
    BY <1>3, <1>8 DEF Add, AddEntry
  <2> QED
    BY <1>1, <1>7, <2>1, StaysBacked DEF Backed
<1>9. CASE Incr(w) /\ store'[c][win] # store[c][win]
  BY <1>5, <1>9, AnswerIsBacked DEF Incr, Backed
<1>10. CASE IncrWrite(w) /\ store'[c][win] # store[c][win]
  <2>1. read[w] + 1 \in Nat
    BY DEF TypeOK
  <2>2. mine /\ store'[c][win].count = read[w] + 1
    BY <1>4, <1>10, <2>1 DEF IncrWrite
  <2> QED
    BY <1>6, <1>10, <2>2, AnswerIsBacked DEF IncrWrite, Backed
<1>11. CASE Seed(w) /\ store'[c][win] # store[c][win]
  <2>1. mine /\ store'[c][win].count = 1
    BY <1>3, <1>11 DEF Seed, AddEntry
  <2>2. Conclude(w, 0 + 1) /\ UNCHANGED waved
    BY <1>11 DEF Seed
  <2> QED
    BY <1>7, <2>1, <2>2, AnswerIsBacked DEF Backed
<1>12. CASE Outage(w) /\ store'[c][win] # store[c][win]
  <2>1. PICK n \in Nat : mine /\ store'[c][win].count \in {0, n + 1}
                               /\ Backed(n, c, win)
    <3>1. read[w] + 1 \in Nat
      BY DEF TypeOK
    <3>2. CASE AddEntry(w, 0)
      BY <1>3, <1>7, <1>12, <3>2 DEF AddEntry
    <3>3. CASE AddEntry(w, 1)
      BY <1>3, <1>7, <1>12, <3>3 DEF AddEntry
    <3>4. CASE pc[w] = "write" /\ SetCounter(w, [count   |-> read[w] + 1,
                                    expires |-> now + DefaultTimeout * Second])
      <4>1. mine /\ store'[c][win].count = read[w] + 1
        BY <1>4, <1>12, <3>1, <3>4
      <4> QED
        BY <1>6, <3>4, <4>1
    <3>5. CASE Live(Counter(w))
               /\ SetCounter(w, [Counter(w) EXCEPT !.count = @ + 1])
      BY <1>5, <1>12, <3>5
    <3> QED
      BY <1>12, <3>2, <3>3, <3>4, <3>5 DEF Outage
  <2> QED
    BY <1>12, <2>1, OutagePasses, RateLimitAssumption DEF Backed
<1> QED
  BY <1>2, <1>8, <1>9, <1>10, <1>11, <1>12
     DEF Hit, Begin, Unlimited, IncrRead, IncrMissing, Wait

Registers(w) == <<pc[w], at[w], read[w]>>

\* A hit touches the registers of no other thread.
LEMMA OthersRegisters ==
    ASSUME TypeOK, NEW w \in Workers, Hit(w), NEW x \in Workers \ {w}
    PROVE  Registers(x)' = Registers(x)
BY DEF Hit, Begin, Unlimited, Add, Incr, IncrRead, IncrWrite, IncrMissing, Seed,
       Outage, Wait, Conclude, Remember, TypeOK, Registers

\* What a thread has read and been told keeps being backed while the requests
\* that passed only become more.
LEMMA IdleThreads ==
    ASSUME TypeOK, DeniedInv, [Next]_vars, NEW x \in Workers,
           Registers(x)' = Registers(x)
    PROVE  /\ pc'[x] = "write" => Backed(read[x], Cache(x), StartOf(at[x]))'
           /\ pc'[x] = "denied" => (Passed(Cache(x), StartOf(at[x])) >= Limit)'
<1> DEFINE c == Cache(x)
           win == StartOf(at[x])
<1>1. /\ c \in Stores /\ win \in Windows
      /\ pc'[x] = pc[x] /\ at'[x] = at[x] /\ read'[x] = read[x]
      /\ read[x] \in Nat
  BY CounterType DEF Registers, TypeOK
<1>2. CASE pc[x] = "write"
  <2>1. Backed(read[x], c, win)
    BY <1>2 DEF DeniedInv, CountsAreBacked
  <2>2. read[x] <= Passed(c, win)' \/ Limit <= Passed(c, win)'
    BY <1>1, <2>1, StaysBacked DEF Backed
  <2> QED
    BY <1>1, <1>2, <2>2 DEF Backed, Passed, Cache
<1>3. CASE pc[x] = "denied"
  BY <1>1, <1>3, PassedGrows, RateLimitAssumption
     DEF DeniedInv, NeverDeniedEarly, Passed, Cache
<1> QED
  BY <1>1, <1>2, <1>3

\* So do those of the thread that steps.
LEMMA SteppingThread ==
    ASSUME TypeOK, DeniedInv, NEW w \in Workers, Hit(w)
    PROVE  /\ pc'[w] = "write" => Backed(read[w], Cache(w), StartOf(at[w]))'
           /\ pc'[w] = "denied" => (Passed(Cache(w), StartOf(at[w])) >= Limit)'
<1> DEFINE c == Cache(w)
           win == StartOf(at[w])
<1>1. c \in Stores /\ win \in Windows
  BY CounterType
<1>2. CASE IncrRead(w)
  <2>1. read'[w] = store[c][win].count /\ store[c][win] # NULL
    BY <1>2 DEF IncrRead, Counter, Live, TypeOK
  <2>2. Backed(read'[w], c, win)
    BY <1>1, <2>1 DEF DeniedInv, CountsAreBacked
  <2>3. Backed(read[w], c, win)'
    BY <1>2, <2>2 DEF IncrRead, Backed, Passed
  <2> QED
    BY <1>2, <2>2 DEF IncrRead, Backed, Passed, TypeOK
<1>3. CASE Incr(w) \/ IncrWrite(w) \/ Seed(w)
  <2>1. PICK n \in Nat : Conclude(w, n + 1) /\ Backed(n, c, win)
    <3>1. CASE Incr(w)
      BY <1>1, <3>1, BumpedType DEF Incr, Counter, Live, Entry, DeniedInv, CountsAreBacked
    <3>2. CASE IncrWrite(w)
      BY <3>2 DEF IncrWrite, TypeOK, DeniedInv, CountsAreBacked
    <3>3. CASE Seed(w)
      <4>1. Backed(0, c, win)
        BY <1>1, PassedGrows DEF Backed, Next
      <4>2. Conclude(w, 0 + 1)
        BY <3>3 DEF Seed
      <4> QED
        BY <4>1, <4>2
    <3> QED
      BY <1>3, <3>1, <3>2, <3>3
  <2>2. UNCHANGED <<at, waved>>
    BY <1>3 DEF Incr, IncrWrite, Seed
  <2>3. pc'[w] = "denied" => Limit <= Passed(c, win)'
    BY <1>1, <2>1, <2>2, AnswerIsBacked
  <2>4. pc'[w] # "write"
    BY <2>1 DEF Conclude, TypeOK
  <2>5. Passed(c, win)' \in Nat
    BY <1>1, <2>2, PassedGrows DEF Next, Passed
  <2> QED
    BY <2>3, <2>4, <2>5, RateLimitAssumption
<1>4. CASE Begin(w) \/ Unlimited(w) \/ Add(w) \/ IncrMissing(w) \/ Outage(w) \/ Wait(w)
  <2>1. pc'[w] \notin {"write", "denied"}
    BY <1>4 DEF Begin, Unlimited, Add, IncrMissing, Outage, Wait, TypeOK
  <2> QED
    BY <2>1
<1> QED
  BY <1>2, <1>3, <1>4 DEF Hit

\* Every step keeps counts backed and denials justified.
LEMMA DeniedStep == TypeOK /\ DeniedInv /\ [Next]_vars => DeniedInv'
<1> SUFFICES ASSUME TypeOK, DeniedInv, [Next]_vars
             PROVE  DeniedInv'
  OBVIOUS
<1>1. ASSUME NEW w \in Workers, Hit(w)
      PROVE  DeniedInv'
  <2>1. ASSUME NEW c \in Stores, NEW win \in Windows, store'[c][win] # NULL
        PROVE  Backed(store[c][win].count, c, win)'
    BY <1>1, <2>1, HitBacksCounters
  <2>2. ASSUME NEW x \in Workers
        PROVE  /\ pc'[x] = "write" => Backed(read[x], Cache(x), StartOf(at[x]))'
               /\ pc'[x] = "denied" => (Passed(Cache(x), StartOf(at[x])) >= Limit)'
    BY <1>1, OthersRegisters, IdleThreads, SteppingThread
  <2> QED
    BY <2>1, <2>2 DEF DeniedInv, CountsAreBacked, NeverDeniedEarly
<1>2. CASE Tick \/ UNCHANGED vars \/ \E c \in Stores, win \in Windows : Evict(c, win)
  <2>1. /\ UNCHANGED <<pc, at, read, granted, waved>>
        /\ \A c \in Stores, win \in Windows :
             store'[c][win] # NULL => store'[c][win] = store[c][win]
    BY <1>2 DEF Tick, Evict, vars, TypeOK
  <2>2. ASSUME NEW c \in Stores, NEW win \in Windows
        PROVE  Passed(c, win)' = Passed(c, win)
    BY <2>1 DEF Passed
  <2>3. CountsAreBacked'
    <3>1. ASSUME NEW c \in Stores, NEW win \in Windows, store'[c][win] # NULL
          PROVE  Backed(store[c][win].count, c, win)'
      BY <2>1, <2>2, <3>1 DEF DeniedInv, CountsAreBacked, Backed
    <3>2. ASSUME NEW x \in Workers, pc'[x] = "write"
          PROVE  Backed(read[x], Cache(x), StartOf(at[x]))'
      BY <2>1, <3>2 DEF DeniedInv, CountsAreBacked, Backed, Passed, Cache
    <3> QED
      BY <3>1, <3>2 DEF CountsAreBacked
  <2>4. NeverDeniedEarly'
    BY <2>1 DEF DeniedInv, NeverDeniedEarly, Passed, Cache
  <2> QED
    BY <2>3, <2>4 DEF DeniedInv
<1> QED
  BY <1>1, <1>2 DEF Next

\* Whatever the cache loses, undercounts or fails to answer, with whatever
\* delay inside hit(), the counters run ahead of the requests that have gone
\* through only once rate_limit of them have, and so a denial comes after them.
THEOREM DenialsAreBacked == Spec => []DeniedInv
<1>1. Init => DeniedInv
  BY DEF Init, DeniedInv, CountsAreBacked, NeverDeniedEarly
<1>2. TypeOK /\ DeniedInv /\ [Next]_vars => DeniedInv'
  BY DeniedStep
<1> QED
  BY <1>1, <1>2, CounterTypeCorrect, PTL DEF Spec

\* A request is denied only after rate_limit requests of its window have gone
\* through.
THEOREM DenialsAreEarned == Spec => []NeverDeniedEarly
<1>1. DeniedInv => NeverDeniedEarly
  BY DEF DeniedInv
<1> QED
  BY <1>1, DenialsAreBacked, PTL

\* No count, stored or read, exceeds what went through below the limit.
THEOREM CountsStayBacked == Spec => []CountsAreBacked
<1>1. DeniedInv => CountsAreBacked
  BY DEF DeniedInv
<1> QED
  BY <1>1, DenialsAreBacked, PTL

-----------------------------------------------------------------------------
(* The limit is exact on an atomic cache that loses no entry *)

Reliable == Kind # "database" /\ "evict" \notin Faults /\ Stall = 0

\* Inside hit(), the counter of the thread's window is alive if it exists.
LEMMA OwnCounter ==
    ASSUME TypeOK, CountingInv, NEW w \in Workers, pc[w] \in Hitting
    PROVE  /\ at[w] = now
           /\ Counter(w) # NULL => Live(Counter(w)) /\ Counter(w) \in Entry
           /\ now + Length >= StartOf(at[w]) + Length
<1>1. at[w] = now /\ now \in Nat
  BY CounterType DEF CountingInv, Prompt
<1>2. /\ now < StartOf(at[w]) + Length /\ StartOf(at[w]) <= now
      /\ StartOf(at[w]) \in Nat /\ Length \in Nat
  BY <1>1, InItsWindow, LengthIsPositive
<1>3. ASSUME Counter(w) # NULL
      PROVE  Live(Counter(w)) /\ Counter(w) \in Entry
  <2>1. Counter(w) \in Entry /\ Counter(w).expires >= StartOf(at[w]) + Length
    BY <1>3, CounterType DEF CountingInv, CountsEveryGrant, Counter
  <2>2. Counter(w).expires \in Nat
    BY <2>1 DEF Entry
  <2>3. now < Counter(w).expires
    BY <1>1, <1>2, <2>1, <2>2
  <2> QED
    BY <1>3, <2>1, <2>3 DEF Live
<1> QED
  BY <1>1, <1>2, <1>3

\* The steps of a hit that can happen at all, and what they write.
LEMMA ReliableHit ==
    ASSUME TypeOK, CountingInv, Reliable, NEW w \in Workers, Hit(w)
    PROVE  /\ \/ UNCHANGED <<store, granted>>
              \/ /\ pc[w] = "add" /\ Counter(w) = NULL
                 /\ SetCounter(w, Seeded(0)) /\ UNCHANGED granted
              \/ Incr(w)
              \/ /\ Outage(w) /\ Live(Counter(w))
                 /\ SetCounter(w, [Counter(w) EXCEPT !.count = @ + 1])
                 /\ UNCHANGED granted
           /\ pc'[w] \in Hitting =>
                /\ at'[w] = now
                /\ pc'[w] = "incr" => Add(w)
                /\ pc'[w] \notin {"write", "seed"}
<1>1. pc[w] \notin {"write", "seed"}
  BY DEF CountingInv, Prompt
<1>2. CASE Begin(w) \/ Unlimited(w) \/ Wait(w)
  BY <1>2 DEF Begin, Unlimited, Wait, TypeOK, Hitting
<1>3. CASE Add(w)
  <2>1. Counter(w) = NULL \/ Live(Counter(w))
    BY <1>3, OwnCounter DEF Add, Hitting
  <2>2. Counter(w) = NULL => ~Live(Counter(w))
    BY DEF Live
  <2> QED
    BY <1>3, <2>1, <2>2, OwnCounter DEF Add, AddEntry, TypeOK, Hitting
<1>4. CASE Incr(w)
  BY <1>4 DEF Incr, Conclude, TypeOK, Hitting
<1>5. CASE IncrMissing(w)
  BY <1>5, OwnCounter DEF IncrMissing, Hitting, CountingInv, Prompt
<1>6. CASE IncrRead(w)
  BY <1>6 DEF IncrRead, Reliable
<1>7. CASE IncrWrite(w) \/ Seed(w)
  BY <1>1, <1>7 DEF IncrWrite, Seed
<1>8. CASE Outage(w)
  <2>1. pc[w] \in Hitting /\ UNCHANGED granted /\ pc' = [pc EXCEPT ![w] = "idle"]
    BY <1>8 DEF Outage
  <2>2. pc'[w] \notin Hitting
    BY <2>1 DEF TypeOK, Hitting
  <2>3. CASE UNCHANGED store
    BY <2>1, <2>2, <2>3
  <2>4. CASE /\ pc[w] = "incr" /\ Live(Counter(w))
             /\ SetCounter(w, [Counter(w) EXCEPT !.count = @ + 1])
    BY <1>8, <2>1, <2>2, <2>4
  <2>5. CASE pc[w] = "add" /\ AddEntry(w, 0)
    <3>1. Counter(w) = NULL \/ Live(Counter(w))
      BY <2>1, OwnCounter
    <3>2. Counter(w) = NULL => ~Live(Counter(w))
      BY DEF Live
    <3> QED
      BY <2>1, <2>2, <2>5, <3>1, <3>2 DEF AddEntry
  <2> QED
    BY <1>1, <1>8, <2>3, <2>4, <2>5 DEF Outage
<1> QED
  BY <1>2, <1>3, <1>4, <1>5, <1>6, <1>7, <1>8 DEF Hit

\* incr() and the answer to it, counter by counter.
LEMMA IncrWrites ==
    ASSUME TypeOK, CountingInv, NEW w \in Workers, Incr(w),
           NEW c \in Stores, NEW win \in Windows
    PROVE  \/ UNCHANGED <<store[c][win], granted[c][win]>>
           \/ /\ store[c][win] \in Entry
              /\ store'[c][win] = [store[c][win] EXCEPT !.count = @ + 1]
              /\ granted'[c][win] = IF store[c][win].count + 1 <= Limit
                                    THEN granted[c][win] + 1 ELSE granted[c][win]
<1>1. Counter(w) \in Entry
  BY BumpedType DEF Incr
<1>2. CASE c = Cache(w) /\ win = StartOf(at[w])
  <2>1. Counter(w) = store[c][win]
    BY <1>2 DEF Counter
  <2>2. store'[c][win] = [store[c][win] EXCEPT !.count = @ + 1]
    BY <1>2, <2>1, WritesItsOwn DEF Incr
  <2>3. granted'[c][win] = IF store[c][win].count + 1 <= Limit
                           THEN granted[c][win] + 1 ELSE granted[c][win]
    BY <1>2, <2>1 DEF Incr, Conclude, Tally, TypeOK
  <2> QED
    BY <1>1, <2>1, <2>2, <2>3
<1>3. CASE ~ (c = Cache(w) /\ win = StartOf(at[w]))
  <2>1. store'[c][win] = store[c][win]
    BY <1>3, WritesItsOwn DEF Incr
  <2>2. granted'[c][win] = granted[c][win]
    BY <1>3, CounterType DEF Incr, Conclude, Tally, TypeOK
  <2> QED
    BY <2>1, <2>2
<1> QED
  BY <1>2, <1>3

\* A step of a hit keeps every counter exact and never takes one away.
LEMMA HitKeepsCounters ==
    ASSUME TypeOK, CountingInv, Reliable, NEW w \in Workers, Hit(w),
           NEW c \in Stores, NEW win \in Windows
    PROVE  /\ IF store'[c][win] = NULL
              THEN granted'[c][win] = 0
              ELSE /\ granted'[c][win] <= store'[c][win].count
                   /\ store'[c][win].expires >= win + Length
           /\ granted'[c][win] <= Limit
           /\ store[c][win] # NULL => store'[c][win] # NULL
<1>1. /\ IF store[c][win] = NULL
         THEN granted[c][win] = 0
         ELSE /\ granted[c][win] <= store[c][win].count
              /\ store[c][win].expires >= win + Length
      /\ granted[c][win] <= Limit
      /\ granted[c][win] \in Nat
  BY DEF CountingInv, CountsEveryGrant, QuotaPerWindow, TypeOK
<1>2. CASE UNCHANGED <<store, granted>>
  BY <1>1, <1>2
<1>3. CASE /\ pc[w] = "add" /\ Counter(w) = NULL
           /\ SetCounter(w, Seeded(0)) /\ UNCHANGED granted
  <2>1. CASE c = Cache(w) /\ win = StartOf(at[w])
    <3>1. store[c][win] = NULL /\ store'[c][win] = Seeded(0)
      BY <1>3, <2>1, WritesItsOwn DEF Counter
    <3>2. Seeded(0) # NULL /\ Seeded(0).count = 0 /\ Seeded(0).expires >= win + Length
      BY <1>3, <2>1, OwnCounter, CounterType, LengthIsPositive, RateLimitNull
         DEF Seeded, Entry, Hitting
    <3> QED
      BY <1>1, <1>3, <3>1, <3>2
  <2>2. CASE ~ (c = Cache(w) /\ win = StartOf(at[w]))
    <3>1. store'[c][win] = store[c][win]
      BY <1>3, <2>2, WritesItsOwn
    <3> QED
      BY <1>1, <1>3, <3>1
  <2> QED
    BY <2>1, <2>2
<1>4. CASE Incr(w)
  <2>1. CASE UNCHANGED <<store[c][win], granted[c][win]>>
    BY <1>1, <2>1
  <2>2. CASE /\ store[c][win] \in Entry
             /\ store'[c][win] = [store[c][win] EXCEPT !.count = @ + 1]
             /\ granted'[c][win] = IF store[c][win].count + 1 <= Limit
                                   THEN granted[c][win] + 1 ELSE granted[c][win]
    <3>1. /\ store[c][win] # NULL /\ store'[c][win] # NULL
          /\ store'[c][win].count = store[c][win].count + 1
          /\ store'[c][win].expires = store[c][win].expires
          /\ store[c][win].count \in Nat
      BY <2>2, RateLimitNull DEF Entry
    <3> QED
      BY <1>1, <2>2, <3>1, RateLimitAssumption
  <2> QED
    BY <1>4, <2>1, <2>2, IncrWrites
<1>5. CASE /\ Outage(w) /\ Live(Counter(w))
           /\ SetCounter(w, [Counter(w) EXCEPT !.count = @ + 1])
           /\ UNCHANGED granted
  <2>1. CASE c = Cache(w) /\ win = StartOf(at[w])
    <3>1. store[c][win] # NULL /\ store[c][win] \in Entry
      BY <1>5, <2>1, CounterType DEF Counter, Live
    <3>2. store'[c][win] = [store[c][win] EXCEPT !.count = @ + 1]
      BY <1>5, <2>1, WritesItsOwn DEF Counter
    <3>3. /\ store'[c][win] # NULL
          /\ store'[c][win].count = store[c][win].count + 1
          /\ store'[c][win].expires = store[c][win].expires
          /\ store[c][win].count \in Nat
      BY <3>1, <3>2, RateLimitNull DEF Entry
    <3> QED
      BY <1>1, <1>5, <3>1, <3>3
  <2>2. CASE ~ (c = Cache(w) /\ win = StartOf(at[w]))
    <3>1. store'[c][win] = store[c][win]
      BY <1>5, <2>2, WritesItsOwn
    <3> QED
      BY <1>1, <1>5, <3>1
  <2> QED
    BY <2>1, <2>2
<1> QED
  BY <1>2, <1>3, <1>4, <1>5, ReliableHit

\* Every step keeps the limit exact.
LEMMA ExactStep == Reliable /\ TypeOK /\ CountingInv /\ [Next]_vars => CountingInv'
<1> SUFFICES ASSUME Reliable, TypeOK, CountingInv, [Next]_vars
             PROVE  CountingInv'
  OBVIOUS
<1>1. ASSUME NEW w \in Workers, Hit(w)
      PROVE  CountingInv'
  <2>1. CountsEveryGrant' /\ QuotaPerWindow'
    BY <1>1, HitKeepsCounters DEF CountsEveryGrant, QuotaPerWindow
  <2>2. ASSUME NEW x \in Workers
        PROVE  /\ pc'[x] \in Hitting => at'[x] = now'
               /\ pc'[x] = "incr" => store'[Cache(x)][StartOf(at'[x])] # NULL
               /\ pc'[x] \notin {"write", "seed"}
    <3>1. UNCHANGED now
      BY <1>1 DEF Hit, Begin, Unlimited, Add, Incr, IncrRead, IncrWrite,
                  IncrMissing, Seed, Outage, Wait
    <3>2. CASE x = w
      <4>1. ASSUME Add(w)
            PROVE  store'[Cache(w)][StartOf(at'[w])] # NULL
        <5>1. at' = at
          BY <4>1 DEF Add
        <5>2. CASE Counter(w) = NULL
          <6>1. SetCounter(w, Seeded(0))
            BY <4>1, <5>2 DEF Add, AddEntry, Live
          <6>2. Seeded(0) # NULL
            BY CounterType, LengthIsPositive, RateLimitNull DEF Seeded, Entry
          <6> QED
            BY <5>1, <6>1, <6>2, CounterType, WritesItsOwn
        <5>3. CASE Counter(w) # NULL
          BY <1>1, <5>1, <5>3, CounterType, HitKeepsCounters DEF Counter
        <5> QED
          BY <5>2, <5>3
      <4> QED
        BY <1>1, <3>1, <3>2, <4>1, ReliableHit DEF Hitting
    <3>3. CASE x # w
      <4>1. pc'[x] = pc[x] /\ at'[x] = at[x]
        BY <1>1, <3>3, OthersRegisters DEF Registers
      <4>2. pc[x] = "incr" => store[Cache(x)][StartOf(at[x])] # NULL
        BY DEF CountingInv, Prompt, Counter
      <4> QED
        BY <1>1, <3>1, <4>1, <4>2, CounterType, HitKeepsCounters DEF CountingInv, Prompt
    <3> QED
      BY <3>2, <3>3
  <2>3. Prompt'
    BY <2>2 DEF Prompt, Counter, Cache
  <2> QED
    BY <2>1, <2>3 DEF CountingInv
<1>2. CASE Tick
  <2>1. ASSUME NEW w \in Workers
        PROVE  pc[w] \notin Hitting
    BY <1>2, CounterType DEF Tick, Reliable
  <2>2. Prompt'
    BY <1>2, <2>1 DEF Tick, Prompt, Hitting
  <2>3. CountsEveryGrant' /\ QuotaPerWindow'
    BY <1>2 DEF Tick, CountingInv, CountsEveryGrant, QuotaPerWindow
  <2> QED
    BY <2>2, <2>3 DEF CountingInv
<1>3. CASE UNCHANGED vars
  BY <1>3 DEF vars, CountingInv, CountsEveryGrant, QuotaPerWindow, Prompt, Counter
<1>4. ASSUME NEW c \in Stores, NEW win \in Windows, Evict(c, win)
      PROVE  CountingInv'
  BY <1>4 DEF Evict, Reliable
<1> QED
  BY <1>1, <1>2, <1>3, <1>4 DEF Next

\* On an atomic cache that loses no entry, though its calls may fail before or
\* after they took effect, with no time lost inside hit(), every counter outlives
\* its window and has counted every request that a count let through.
LEMMA CountersOutlive == Reliable => (Spec => []CountingInv)
<1> SUFFICES ASSUME Reliable
             PROVE  Spec => []CountingInv
  OBVIOUS
<1>1. Init => CountingInv
  BY RateLimitAssumption
     DEF Init, CountingInv, CountsEveryGrant, Prompt, QuotaPerWindow, Hitting
<1>2. TypeOK /\ CountingInv /\ [Next]_vars => CountingInv'
  BY ExactStep
<1> QED
  BY <1>1, <1>2, CounterTypeCorrect, PTL DEF Spec

\* A count that every grant is below and that grants, or the limit, are not
\* below is met by the grants up to the limit.
LEMMA GrantsMeetCounts ==
    ASSUME TypeOK, CountingInv, CountsAreBacked
    PROVE  GrantsAreExact
<1> SUFFICES ASSUME NEW c \in Stores, NEW win \in Windows,
                    store[c][win] # NULL, waved[c][win] = 0
             PROVE  granted[c][win] = IF store[c][win].count <= Limit
                                      THEN store[c][win].count
                                      ELSE Limit
  BY DEF GrantsAreExact
<1>1. store[c][win].count \in Nat /\ granted[c][win] \in Nat /\ Limit \in Nat
  BY CounterType, RateLimitAssumption DEF Entry, TypeOK
<1>2. granted[c][win] <= store[c][win].count /\ granted[c][win] <= Limit
  BY DEF CountingInv, CountsEveryGrant, QuotaPerWindow
<1>3. \/ store[c][win].count <= granted[c][win] + 0
      \/ Limit <= granted[c][win] + 0
  BY DEF CountsAreBacked, Backed, Passed
<1> QED
  BY <1>1, <1>2, <1>3

\* There the limit is exact: as long as no call fails, a counter lets through
\* as many requests as it has counted, up to rate_limit, and then no more.
THEOREM CountersAreExact == Reliable => (Spec => []Exactness)
<1> SUFFICES ASSUME Reliable
             PROVE  Spec => []Exactness
  OBVIOUS
<1>1. TypeOK /\ CountingInv /\ CountsAreBacked => Exactness
  BY GrantsMeetCounts DEF Exactness
<1> QED
  BY <1>1, CountersOutlive, CountsStayBacked, CounterTypeCorrect, PTL

\* So no store lets more than rate_limit requests of a window through, besides
\* those that fail open while the cache is down.
THEOREM LimitIsExact == Reliable => (Spec => []QuotaPerWindow)
<1> SUFFICES ASSUME Reliable
             PROVE  Spec => []QuotaPerWindow
  OBVIOUS
<1>1. CountingInv => QuotaPerWindow
  BY DEF CountingInv
<1> QED
  BY <1>1, CountersOutlive, PTL

\* The throttle's answer to wait() is the denied request's own.
THEOREM WaitsAreOnesOwn == Spec => []WaitIsOnesOwn
<1>1. Init => WaitIsOnesOwn
  BY DEF Init, WaitIsOnesOwn
<1>2. TypeOK /\ WaitIsOnesOwn /\ [Next]_vars => WaitIsOnesOwn'
  <2> SUFFICES ASSUME TypeOK, WaitIsOnesOwn, [Next]_vars,
                      NEW x \in Workers, pc'[x] = "denied"
               PROVE  local'[x] = [allowed     |-> FALSE,
                                   retry_after |-> RetryAfter(at'[x])]
    BY DEF WaitIsOnesOwn, RetryAfter, ResetAt, StartOf
  <2>1. CASE pc'[x] = pc[x] /\ at'[x] = at[x] /\ local'[x] = local[x]
    BY <2>1 DEF WaitIsOnesOwn
  <2>2. ASSUME NEW n \in Nat, Conclude(x, n), UNCHANGED at
        PROVE  local'[x] = [allowed     |-> FALSE,
                            retry_after |-> RetryAfter(at'[x])]
    <3>1. (n <= Limit) = FALSE
      BY <2>2, RateLimitAssumption DEF Conclude, TypeOK
    <3> QED
      BY <2>2, <3>1 DEF Conclude, Remember, TypeOK
  <2>3. ASSUME NEW w \in Workers, Hit(w)
        PROVE  local'[x] = [allowed     |-> FALSE,
                            retry_after |-> RetryAfter(at'[x])]
    <3>1. CASE x # w
      <4>1. local'[x] = local[x]
        BY <2>3, <3>1 DEF Hit, Begin, Unlimited, Add, Incr, IncrRead, IncrWrite,
                          IncrMissing, Seed, Outage, Wait, Conclude, Remember,
                          TypeOK
      <4> QED
        BY <2>1, <2>3, <3>1, <4>1, OthersRegisters DEF Registers
    <3>2. CASE x = w /\ (Incr(w) \/ IncrWrite(w) \/ Seed(w))
      <4>1. Incr(w) => Counter(w).count + 1 \in Nat
        BY BumpedType DEF Incr, Entry
      <4>2. read[w] + 1 \in Nat
        BY DEF TypeOK
      <4> QED
        BY <2>2, <3>2, <4>1, <4>2 DEF Incr, IncrWrite, Seed
    <3>3. CASE x = w /\ Unlimited(w)
      BY <3>3 DEF Unlimited, TypeOK
    <3>4. CASE x = w /\ (Begin(w) \/ Add(w) \/ IncrRead(w) \/ IncrMissing(w)
                           \/ Outage(w) \/ Wait(w))
      BY <3>4 DEF Begin, Add, IncrRead, IncrMissing, Outage, Wait, TypeOK
    <3> QED
      BY <2>3, <3>1, <3>2, <3>3, <3>4 DEF Hit
  <2>4. CASE Tick \/ UNCHANGED vars \/ \E c \in Stores, win \in Windows : Evict(c, win)
    BY <2>1, <2>4 DEF Tick, Evict, vars
  <2> QED
    BY <2>1, <2>2, <2>3, <2>4 DEF Next
<1> QED
  BY <1>1, <1>2, CounterTypeCorrect, PTL DEF Spec
=============================================================================
