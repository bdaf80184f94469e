---------------------------- MODULE RequestAuth -----------------------------
(***************************************************************************)
(* Requests that authenticate with an API key while others change the key  *)
(* table under them: authenticate_key() with its reads of the table and of *)
(* the clock and its write of last_used_at, and the answers that the DRF   *)
(* and Ninja adapters give.  The table changes by the atomic operations of *)
(* KeyStore, which is what readers see of the overlapping calls of         *)
(* KeyLifecycle.                                                           *)
(*                                                                         *)
(* A request whose Authorization header does not hold one word after the   *)
(* keyword never reaches authenticate_key() and is left out.               *)
(***************************************************************************)
EXTENDS KeyTable

CONSTANTS
    Clients,        \* threads that serve requests, one at a time each
    Threshold,      \* LAST_USED_THRESHOLD
    Stall,          \* time that may pass between record_usage()'s clock and UPDATE
    MaxTime         \* bound on the clock

ASSUME RequestAssumption ==
    /\ NULL \notin Clients
    /\ Threshold \in Nat \ {0}
    /\ Stall \in Nat
    /\ MaxTime \in Nat

VARIABLES
    minted,     \* the keys issued so far
    used,       \* the last_used_at column
    pc,         \* where in authenticate_key() each client's request is
    cred,       \* the raw key it presents: whose prefix, and the right secret?
    seen,       \* the row that its lookup returned
    stamp,      \* the clock that its record_usage() read
    reply,      \* the answer to the latest request
    alive       \* history: has its key been live since the request began?

requestVars == <<pc, cred, seen, stamp, reply>>

vars == <<now, rows, restored, minted, used, requestVars, alive>>

Store == INSTANCE KeyStore WITH Forms <- FALSE

PolicyReasons == {"environment", "ip_not_allowed", "tenant_not_allowed"}

Rejections ==
    PolicyReasons \cup
    {"malformed", "unknown_key", "bad_secret", "inactive", "expired"}

\* What a client may be told; "Unauthorized" is Ninja's bare 401.
Messages ==
    PolicyReasons \cup
    {"inactive", "expired", "missing_scope", "Invalid API key.", "Unauthorized", ""}

Reply == [status : {200, 401, 403}, message : Messages]

Credential == [key : Keys, right : BOOLEAN, shaped : BOOLEAN]

Seen == [row : Row, used : Instant]

Stages == {"lookup", "expiry", "policy", "update"}

ASSUME RequestNull == NULL \notin Credential /\ NULL \notin Seen /\ NULL \notin Reply

Init ==
    /\ TableInit
    /\ minted = {}
    /\ used = [k \in Keys |-> NULL]
    /\ pc = [c \in Clients |-> "idle"]
    /\ cred = [c \in Clients |-> NULL]
    /\ seen = [c \in Clients |-> NULL]
    /\ stamp = [c \in Clients |-> NULL]
    /\ reply = [c \in Clients |-> NULL]
    /\ alive = [c \in Clients |-> FALSE]

-----------------------------------------------------------------------------
(* The answers *)

\* client_message(): nothing that tells a missing key from a wrong secret.
ClientMessage(reason) ==
    IF reason \in {"malformed", "unknown_key", "bad_secret"}
    THEN "Invalid API key."
    ELSE reason

\* A policy's refusal is a 403 with its message; any other is a 401, which
\* DRF explains and Ninja does not.
Refusal(adapter, reason) ==
    IF reason \in PolicyReasons
    THEN [status |-> 403, message |-> ClientMessage(reason)]
    ELSE [status  |-> 401,
          message |-> IF adapter = "drf" THEN ClientMessage(reason)
                                         ELSE "Unauthorized"]

\* The call returns or raises, and the row it looked up is forgotten.
Answer(c, response) ==
    /\ reply' = [reply EXCEPT ![c] = response]
    /\ pc' = [pc EXCEPT ![c] = "answered"]
    /\ seen' = [seen EXCEPT ![c] = NULL]

Reject(c, reason) ==
    \E adapter \in {"drf", "ninja"} : Answer(c, Refusal(adapter, reason))

\* The key is good; the view may still require a scope that it does not have.
Accept(c) ==
    \/ Answer(c, [status |-> 200, message |-> ""])
    \/ Answer(c, [status |-> 403, message |-> "missing_scope"])

-----------------------------------------------------------------------------
(* A request *)

Table == <<now, rows, restored, minted, used>>

\* A header arrives; split_raw_key() needs no query to refuse a bad shape.
Present(c, k, right, shaped) ==
    /\ pc[c] \in {"idle", "answered"}
    /\ cred' = [cred EXCEPT ![c] = [key |-> k, right |-> right, shaped |-> shaped]]
    /\ stamp' = [stamp EXCEPT ![c] = NULL]
    /\ IF shaped
       THEN /\ pc' = [pc EXCEPT ![c] = "lookup"]
            /\ reply' = [reply EXCEPT ![c] = NULL]
            /\ UNCHANGED seen
       ELSE Reject(c, "malformed")
    /\ UNCHANGED Table

BugLookup(c) ==
    LET k == cred[c].key
    IN  /\ pc[c] = "lookup"
        /\ IF ~Exists(k)                THEN Reject(c, "unknown_key")
           ELSE IF ~rows[k].is_active   THEN Reject(c, "inactive")
           ELSE IF ~cred[c].right       THEN Reject(c, "bad_secret")
           ELSE /\ pc' = [pc EXCEPT ![c] = "expiry"]
                /\ seen' = [seen EXCEPT ![c] = [row |-> rows[k], used |-> used[k]]]
                /\ UNCHANGED reply
        /\ UNCHANGED <<Table, cred, stamp>>

\* The one query, and the checks that need only the row it returns.
Lookup(c) ==
    LET k == cred[c].key
    IN  /\ pc[c] = "lookup"
        /\ IF ~Exists(k)                THEN Reject(c, "unknown_key")
           ELSE IF ~cred[c].right       THEN Reject(c, "bad_secret")
           ELSE IF ~rows[k].is_active   THEN Reject(c, "inactive")
           ELSE /\ pc' = [pc EXCEPT ![c] = "expiry"]
                /\ seen' = [seen EXCEPT ![c] = [row |-> rows[k], used |-> used[k]]]
                /\ UNCHANGED reply
        /\ UNCHANGED <<Table, cred, stamp>>

BugCheckExpiry(c) ==
    /\ pc[c] = "expiry"
    /\ pc' = [pc EXCEPT ![c] = "policy"]
    /\ UNCHANGED <<reply, seen, Table, cred, stamp>>

CheckExpiry(c) ==
    /\ pc[c] = "expiry"
    /\ IF IsExpired(seen[c].row, now)
       THEN Reject(c, "expired")
       ELSE pc' = [pc EXCEPT ![c] = "policy"] /\ UNCHANGED <<reply, seen>>
    /\ UNCHANGED <<Table, cred, stamp>>

\* The environment, the client's address or the tenant is not allowed.
RejectByPolicy(c) ==
    /\ pc[c] = "policy"
    /\ \E reason \in PolicyReasons : Reject(c, reason)
    /\ UNCHANGED <<Table, cred, stamp>>

BugRecentlyUsed(c) == seen[c].used # NULL /\ now - seen[c].used <= Threshold

RecentlyUsed(c) == seen[c].used # NULL /\ now - seen[c].used < Threshold

\* record_usage() reads the clock; whether it writes depends on the row the
\* request looked up, and on whether the address it may record has changed.
RecordUsage(c) ==
    /\ pc[c] = "policy"
    /\ stamp' = [stamp EXCEPT ![c] = now]
    /\ \/ RecentlyUsed(c) /\ Accept(c)
       \/ pc' = [pc EXCEPT ![c] = "update"] /\ UNCHANGED <<reply, seen>>
    /\ UNCHANGED <<Table, cred>>

BugUpdateUsage(c) ==
    LET k == cred[c].key
    IN  /\ pc[c] = "update"
        /\ used' = IF Exists(k) THEN [used EXCEPT ![k] = stamp[c] + Threshold] ELSE used
        /\ Accept(c)
        /\ UNCHANGED <<now, rows, restored, minted, cred, stamp>>

\* filter(pk=...).update(): no row, no write, no error.
UpdateUsage(c) ==
    LET k == cred[c].key
    IN  /\ pc[c] = "update"
        /\ used' = IF Exists(k) THEN [used EXCEPT ![k] = stamp[c]] ELSE used
        /\ Accept(c)
        /\ UNCHANGED <<now, rows, restored, minted, cred, stamp>>

-----------------------------------------------------------------------------
(* The table under the requests *)

Issue(k, expiry) ==
    /\ k \notin minted
    /\ minted' = minted \cup {k}
    /\ Store!Create(k, TRUE, expiry)
    /\ UNCHANGED used

Rotated(k, n, g) ==
    /\ n \notin minted
    /\ minted' = minted \cup {n}
    /\ Store!Rotate(k, n, now, g)
    /\ UNCHANGED used

\* The admin's form moves the expiry.
Reschedule(k, expiry) ==
    /\ Exists(k)
    /\ Write(k, [rows[k] EXCEPT !.expires_at = expiry])

Administer ==
    /\ \E k \in Keys :
         \/ \E e \in Lifespans : Issue(k, e)
         \/ \E n \in Keys \ {k}, g \in Graces \cup {NULL} : Rotated(k, n, g)
         \/ Store!Revoke(k, now, "") /\ UNCHANGED <<minted, used>>
         \/ Store!Reactivate(k) /\ UNCHANGED <<minted, used>>
         \/ \E e \in Lifespans : Reschedule(k, e) /\ UNCHANGED <<minted, used>>
         \/ DeleteRow(k) /\ UNCHANGED <<minted, used>>
    /\ UNCHANGED requestVars

Tick ==
    /\ now < MaxTime
    /\ \A c \in Clients : pc[c] = "update" => now - stamp[c] < Stall
    /\ Elapse
    /\ UNCHANGED <<minted, used, requestVars>>

Serve(c) ==
    \/ \E k \in Keys, right, shaped \in BOOLEAN : Present(c, k, right, shaped)
    \/ Lookup(c)
    \/ CheckExpiry(c)
    \/ RejectByPolicy(c)
    \/ RecordUsage(c)
    \/ UpdateUsage(c)

\* The history: a request's key counts from the state in which it begins.
Watch ==
    alive' = [c \in Clients |->
                IF pc'[c] \notin Stages THEN alive[c]
                ELSE (pc[c] \in Stages /\ alive[c]) \/ (IsLive(cred[c].key))']

Next == (Tick \/ Administer \/ \E c \in Clients : Serve(c)) /\ Watch

Spec == Init /\ [][Next]_vars

-----------------------------------------------------------------------------

\* Every variable keeps its type; last_used_at is never in the future.
TypeOK ==
    /\ now \in 0 .. MaxTime
    /\ rows \in [Keys -> Row \cup {NULL}]
    /\ restored \subseteq Keys
    /\ minted \subseteq Keys
    /\ used \in [Keys -> (0 .. now) \cup {NULL}]
    /\ pc \in [Clients -> Stages \cup {"idle", "answered"}]
    /\ cred \in [Clients -> Credential \cup {NULL}]
    /\ seen \in [Clients -> Seen \cup {NULL}]
    /\ stamp \in [Clients -> (0 .. now) \cup {NULL}]
    /\ reply \in [Clients -> Reply \cup {NULL}]
    /\ alive \in [Clients -> BOOLEAN]
    /\ \A c \in Clients :
         /\ pc[c] # "idle" => cred[c] # NULL
         /\ pc[c] \in {"expiry", "policy", "update"} => seen[c] # NULL
         /\ pc[c] = "update" => stamp[c] # NULL
         /\ pc[c] = "answered" => reply[c] # NULL

\* "Never distinguishes no such key from wrong secret": whoever presents a
\* prefix without its secret gets one and the same answer, whether the key
\* exists, is active, has expired or is barred by a policy.
GuessersLearnNothing ==
    \A c \in Clients :
        pc[c] = "answered" /\ ~cred[c].right =>
            reply[c] \in {[status |-> 401, message |-> "Invalid API key."],
                          [status |-> 401, message |-> "Unauthorized"]}

\* "Revocation is immediate: the very next request with that key fails".  A
\* request is let through, or refused with a 403, only if it holds the secret
\* of a key that was live at some moment since the request began, however the
\* table changed and the clock moved between its lookup and its answer.
OnlyLiveKeysGetPast401 ==
    \A c \in Clients :
        pc[c] = "answered" /\ reply[c].status # 401 => cred[c].right /\ alive[c]

\* The answers that record_usage() comes before.
Authenticated(c) ==
    pc[c] = "answered" /\ (reply[c].status = 200 \/ reply[c].message = "missing_scope")

\* "Was this key used recently": when a request has been authenticated, its
\* key is marked as used no more than a threshold before, and the time that
\* record_usage() may stall.  Skipping the write on the strength of a row that
\* others have since written, and writing an instant that others have since
\* passed, lose no more than that together.
UsageIsRecorded ==
    \A c \in Clients :
        Authenticated(c) /\ Exists(cred[c].key) =>
            /\ used[cred[c].key] # NULL
            /\ used[cred[c].key] > stamp[c] - Threshold - Stall

-----------------------------------------------------------------------------
(* The inductive invariant *)

\* A request that has got past a check carries what the check established.
ChecksHold ==
    \A c \in Clients :
        /\ pc[c] \in {"expiry", "policy", "update"} => cred[c].right
        /\ pc[c] = "expiry" /\ ~IsExpired(seen[c].row, now) => alive[c]
        /\ pc[c] \in {"policy", "update"} => alive[c]

\* What UsageIsRecorded rests on: keys do not come back, a write is no older
\* than a stall, and what a request saw is at most a stall newer than what the
\* table shows, because the writes since then were no older than that.
UsageInv ==
    /\ UsageIsRecorded
    /\ \A k \in Keys : Exists(k) => k \in minted
    /\ \A c \in Clients :
        /\ pc[c] \in {"expiry", "policy", "update"} =>
            /\ cred[c].key \in minted
            /\ seen[c].used # NULL =>
                /\ seen[c].used <= now
                /\ Exists(cred[c].key) =>
                    /\ used[cred[c].key] # NULL
                    /\ used[cred[c].key] >= seen[c].used - Stall
        /\ pc[c] = "update" => now <= stamp[c] + Stall
        /\ Authenticated(c) => cred[c].key \in minted /\ stamp[c] # NULL
=============================================================================
