----------------------------- MODULE RateLimit ------------------------------
(***************************************************************************)
(* The fixed-window counter of CacheRateLimitBackend.hit(), shared through *)
(* a Django cache by the threads of several web processes, and the         *)
(* throttles that turn its answer into 429 with Retry-After.               *)
(*                                                                         *)
(* One key with a rate_limit is modelled: the cache key holds the model's  *)
(* name and the row's primary key, so two keys of one model share no       *)
(* counter. Time passes in ticks, `Second` of them to a second, because    *)
(* time.time() has a fraction and the windows have not.                    *)
(***************************************************************************)
EXTENDS Integers, FiniteSets

CONSTANTS
    Processes,      \* web processes
    Threads,        \* threads in each of them
    Kind,           \* the cache behind the counter (see Kinds)
    Limit,          \* the key's rate_limit
    WindowSeconds,  \* the length its rate_limit_window stands for
    Second,         \* ticks in a second
    DefaultTimeout, \* TIMEOUT of the cache, in seconds
    Stall,          \* ticks that may pass inside hit() after it read the clock
    Faults,         \* "evict": entries may vanish; "outage": calls may raise
    Requests,       \* bound on the number of the limited key's requests
    MaxTime,        \* bound on the clock
    NULL

\* "redis" stands for Redis and Memcached: one atomic store for all processes.
\* "locmem" is atomic but every process has its own.  "database" stands for
\* DatabaseCache and FileBasedCache, whose incr() reads and then writes.
Kinds == {"redis", "locmem", "database"}

ASSUME RateLimitAssumption ==
    /\ Kind \in Kinds
    /\ Limit \in Nat \ {0}
    /\ WindowSeconds \in Nat \ {0}
    /\ Second \in Nat \ {0}
    /\ DefaultTimeout \in Nat \ {0}
    /\ Stall \in Nat
    /\ Faults \subseteq {"evict", "outage"}
    /\ Requests \in Nat
    /\ MaxTime \in Nat
    /\ NULL \notin Nat

Workers == Processes \X Threads

\* Which store the threads of a process count in.
Cache(w) == IF Kind = "locmem" THEN w[1] ELSE "shared"

Stores == {Cache(w) : w \in Workers}

Length == WindowSeconds * Second

StartOf(t) == (t \div Length) * Length

BugResetAt(t) == StartOf(t)

ResetAt(t) == StartOf(t) + Length

Windows == {StartOf(t) : t \in 0 .. MaxTime}

Entry == [count : Nat, expires : Nat]

\* What allow_request() leaves for wait().
Result == [allowed : BOOLEAN, retry_after : Nat \cup {NULL}]

Unmetered == [allowed |-> TRUE, retry_after |-> NULL]

ASSUME RateLimitNull == NULL \notin Entry /\ NULL \notin Result

-----------------------------------------------------------------------------

VARIABLES
    now,        \* the clock
    store,      \* each cache's entry for each window's counter
    begun,      \* how many requests have begun
    pc,         \* where in hit() each thread is
    at,         \* the time.time() it read
    read,       \* the count that a two-step incr() read
    local,      \* the throttle's result, one for each thread
    granted,    \* history: requests of a window that a count let through
    waved       \* history: requests of a window that failed open

vars == <<now, store, begun, pc, at, read, local, granted, waved>>

Hitting == {"add", "incr", "write", "seed"}

Init ==
    /\ now = 0
    /\ store = [c \in Stores |-> [win \in Windows |-> NULL]]
    /\ begun = 0
    /\ pc = [w \in Workers |-> "idle"]
    /\ at = [w \in Workers |-> 0]
    /\ read = [w \in Workers |-> 0]
    /\ local = [w \in Workers |-> NULL]
    /\ granted = [c \in Stores |-> [win \in Windows |-> 0]]
    /\ waved = [c \in Stores |-> [win \in Windows |-> 0]]

\* The counter that w's request belongs to.
Counter(w) == store[Cache(w)][StartOf(at[w])]

\* The cache still has the entry.
Live(entry) == entry # NULL /\ now < entry.expires

SetCounter(w, entry) ==
    store' = [store EXCEPT ![Cache(w)][StartOf(at[w])] = entry]

Seeded(n) == [count |-> n, expires |-> now + Length]

BugAddEntry(w, n) == SetCounter(w, Seeded(n))

EagerAddEntry(w, n) ==
    IF Live(Counter(w)) THEN UNCHANGED store ELSE SetCounter(w, Seeded(1))

\* cache.add(): set if absent.
AddEntry(w, n) ==
    IF Live(Counter(w)) THEN UNCHANGED store ELSE SetCounter(w, Seeded(n))

Tally(history, w) ==
    [history EXCEPT ![Cache(w)][StartOf(at[w])] = @ + 1]

\* int(reset_at - now): whole seconds, the fraction cut off.
RetryAfter(t) == (ResetAt(t) - t) \div Second

BugRemember(w, result) == local' = [x \in Workers |-> result]

\* The Ninja throttle is shared by all requests of an operation and keeps its
\* result in a threading.local(); the DRF throttle is built for each request.
Remember(w, result) == local' = [local EXCEPT ![w] = result]

BugConclude(w, count) ==
    LET allowed == count < Limit
    IN  /\ Remember(w, [allowed     |-> allowed,
                        retry_after |-> IF allowed THEN NULL ELSE RetryAfter(at[w])])
        /\ granted' = IF allowed THEN Tally(granted, w) ELSE granted
        /\ pc' = [pc EXCEPT ![w] = IF allowed THEN "idle" ELSE "denied"]

\* hit() has a count: compare it with the limit and answer.
Conclude(w, count) ==
    LET allowed == count <= Limit
    IN  /\ Remember(w, [allowed     |-> allowed,
                        retry_after |-> IF allowed THEN NULL ELSE RetryAfter(at[w])])
        /\ granted' = IF allowed THEN Tally(granted, w) ELSE granted
        /\ pc' = [pc EXCEPT ![w] = IF allowed THEN "idle" ELSE "denied"]

-----------------------------------------------------------------------------

\* A throttle is asked about a request of the limited key: hit() reads the clock.
Begin(w) ==
    /\ pc[w] = "idle"
    /\ begun < Requests
    /\ begun' = begun + 1
    /\ at' = [at EXCEPT ![w] = now]
    /\ pc' = [pc EXCEPT ![w] = "add"]
    /\ UNCHANGED <<now, store, read, local, granted, waved>>

\* A request of a key without a rate_limit, answered by the same throttle.
Unlimited(w) ==
    /\ pc[w] = "idle"
    /\ Remember(w, Unmetered)
    /\ UNCHANGED <<now, store, begun, pc, at, read, granted, waved>>

Add(w) ==
    /\ pc[w] = "add"
    /\ AddEntry(w, 0)
    /\ pc' = [pc EXCEPT ![w] = "incr"]
    /\ UNCHANGED <<now, begun, at, read, local, granted, waved>>

\* One operation of the store; the entry's expiry stays.
Incr(w) ==
    /\ pc[w] = "incr"
    /\ Kind # "database"
    /\ Live(Counter(w))
    /\ SetCounter(w, [Counter(w) EXCEPT !.count = @ + 1])
    /\ Conclude(w, Counter(w).count + 1)
    /\ UNCHANGED <<now, begun, at, read, waved>>

\* BaseCache.incr() is a get() ...
IncrRead(w) ==
    /\ pc[w] = "incr"
    /\ Kind = "database"
    /\ Live(Counter(w))
    /\ read' = [read EXCEPT ![w] = Counter(w).count]
    /\ pc' = [pc EXCEPT ![w] = "write"]
    /\ UNCHANGED <<now, store, begun, at, local, granted, waved>>

\* ... and a set() that gives the entry the cache's default timeout.
IncrWrite(w) ==
    /\ pc[w] = "write"
    /\ SetCounter(w, [count   |-> read[w] + 1,
                      expires |-> now + DefaultTimeout * Second])
    /\ Conclude(w, read[w] + 1)
    /\ UNCHANGED <<now, begun, at, read, waved>>

\* incr() raises ValueError: the entry has gone since add().
IncrMissing(w) ==
    /\ pc[w] = "incr"
    /\ ~Live(Counter(w))
    /\ pc' = [pc EXCEPT ![w] = "seed"]
    /\ UNCHANGED <<now, store, begun, at, read, local, granted, waved>>

\* The request counts as the first of its window, whoever seeds the counter.
Seed(w) ==
    /\ pc[w] = "seed"
    /\ AddEntry(w, 1)
    /\ Conclude(w, 1)
    /\ UNCHANGED <<now, begun, at, read, waved>>

\* The cache call raises, before the store carried it out or after: fail open.
Outage(w) ==
    /\ "outage" \in Faults
    /\ pc[w] \in Hitting
    /\ \/ UNCHANGED store
       \/ /\ pc[w] = "incr" /\ Kind # "database" /\ Live(Counter(w))
          /\ SetCounter(w, [Counter(w) EXCEPT !.count = @ + 1])
       \/ /\ pc[w] = "write"
          /\ SetCounter(w, [count   |-> read[w] + 1,
                            expires |-> now + DefaultTimeout * Second])
       \/ pc[w] = "add" /\ AddEntry(w, 0)
       \/ pc[w] = "seed" /\ AddEntry(w, 1)
    /\ Remember(w, Unmetered)
    /\ waved' = Tally(waved, w)
    /\ pc' = [pc EXCEPT ![w] = "idle"]
    /\ UNCHANGED <<now, begun, at, read, granted>>

\* The framework asks the throttle how long to wait and answers 429.
Wait(w) ==
    /\ pc[w] = "denied"
    /\ pc' = [pc EXCEPT ![w] = "idle"]
    /\ UNCHANGED <<now, store, begun, at, read, local, granted, waved>>

\* The cache drops an entry before its time.
Evict(c, win) ==
    /\ "evict" \in Faults
    /\ store[c][win] # NULL
    /\ store' = [store EXCEPT ![c][win] = NULL]
    /\ UNCHANGED <<now, begun, pc, at, read, local, granted, waved>>

Tick ==
    /\ now < MaxTime
    /\ \A w \in Workers : pc[w] \in Hitting => now - at[w] < Stall
    /\ now' = now + 1
    /\ UNCHANGED <<store, begun, pc, at, read, local, granted, waved>>

Hit(w) ==
    \/ Begin(w)
    \/ Unlimited(w)
    \/ Add(w)
    \/ Incr(w)
    \/ IncrRead(w)
    \/ IncrWrite(w)
    \/ IncrMissing(w)
    \/ Seed(w)
    \/ Outage(w)
    \/ Wait(w)

Next ==
    \/ Tick
    \/ \E c \in Stores, win \in Windows : Evict(c, win)
    \/ \E w \in Workers : Hit(w)

Spec == Init /\ [][Next]_vars

-----------------------------------------------------------------------------

\* Every variable keeps its type, and nobody reads the clock ahead of time.
TypeOK ==
    /\ now \in 0 .. MaxTime
    /\ store \in [Stores -> [Windows -> Entry \cup {NULL}]]
    /\ begun \in 0 .. Requests
    /\ pc \in [Workers -> Hitting \cup {"idle", "denied"}]
    /\ at \in [Workers -> 0 .. now]
    /\ read \in [Workers -> Nat]
    /\ local \in [Workers -> Result \cup {NULL}]
    /\ granted \in [Stores -> [Windows -> Nat]]
    /\ waved \in [Stores -> [Windows -> Nat]]

\* On Redis and Memcached the limit is "exact, shared across processes", and
\* per process on LocMemCache: of the requests that read the clock in a
\* window, no store lets more than rate_limit through, other than the ones that
\* fail open.  It takes a cache that evicts nothing, and hit() to end before
\* the clock moves on.
QuotaPerWindow ==
    \A c \in Stores, win \in Windows : granted[c][win] <= Limit

\* How many requests of its window w knows to have gone through.
Passed(c, win) == granted[c][win] + waved[c][win]

\* Whatever the cache loses, however the threads overlap and whichever calls
\* fail, a request is denied only after rate_limit requests of its window have
\* gone through: undercounting may exceed the limit, never fall short of it.
NeverDeniedEarly ==
    \A w \in Workers :
        pc[w] = "denied" => Passed(Cache(w), StartOf(at[w])) >= Limit

\* The wait() of a request that was denied finds that request's own result,
\* though the throttle that keeps it serves other requests meanwhile.
WaitIsOnesOwn ==
    \A w \in Workers :
        pc[w] = "denied" =>
            local[w] = [allowed |-> FALSE, retry_after |-> RetryAfter(at[w])]

\* "retry_after is seconds until that reset": waiting that long after the
\* request leads to the next window.
RetryAfterReachesReset ==
    \A w \in Workers :
        pc[w] = "denied" =>
            at[w] + local[w].retry_after * Second >= ResetAt(at[w])

-----------------------------------------------------------------------------
(* The inductive invariants *)

\* A count, stored or read, was reached by requests that have gone through.
Backed(n, c, win) == n <= Passed(c, win) \/ Limit <= Passed(c, win)

CountsAreBacked ==
    /\ \A c \in Stores, win \in Windows :
         store[c][win] # NULL => Backed(store[c][win].count, c, win)
    /\ \A w \in Workers :
         pc[w] = "write" => Backed(read[w], Cache(w), StartOf(at[w]))

\* A counter that hit() promptly seeds outlives its window and counts every
\* request that it lets through.
CountsEveryGrant ==
    \A c \in Stores, win \in Windows :
        IF store[c][win] = NULL
        THEN granted[c][win] = 0
        ELSE /\ granted[c][win] <= store[c][win].count
             /\ store[c][win].expires >= win + Length

\* Nobody is stalled: whoever is inside hit() has read the current time, and
\* finds after add() the counter of the window it is in.
Prompt ==
    \A w \in Workers :
        /\ pc[w] \in Hitting => at[w] = now
        /\ pc[w] = "incr" => Counter(w) # NULL
        /\ pc[w] \notin {"write", "seed"}

CountingInv == CountsEveryGrant /\ Prompt /\ QuotaPerWindow

\* Of the requests that a counter has counted, as many as rate_limit allows
\* have been let through, no fewer and no more, unless some failed open.
GrantsAreExact ==
    \A c \in Stores, win \in Windows :
        store[c][win] # NULL /\ waved[c][win] = 0 =>
            granted[c][win] = IF store[c][win].count <= Limit
                              THEN store[c][win].count
                              ELSE Limit

\* "Exact": no request is counted twice or forgotten, whichever threads of
\* whichever processes meet in add() and incr().
Exactness == CountingInv /\ GrantsAreExact
=============================================================================
