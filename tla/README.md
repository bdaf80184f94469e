# A formal model of django-tenant-apikeys

TLA+ modules that model the part of `django_tenant_apikeys` whose correctness
depends on what happens *between* two statements: the life cycle of a key under
concurrent calls and inside nested transactions with signal receivers,
authentication while the key table changes, the way of a request through the two
frameworks' gates, the rate limiter's counter in a shared cache, and the client
address behind a chain of proxies. TLC checks small instances, TLAPS proves for all of
them what those runs find to hold, liveness apart.

Paths below are relative to `django_tenant_apikeys/` unless they name `docs/`.

## The system

| Component | State | Operations | Interacts with |
|---|---|---|---|
| Key life cycle, `models.py` | one row per key: `is_active`, `expires_at`, `revoked_at`, `revoked_reason`, `rotated_from`; an in-memory instance per caller | `generate_key`, `revoke`, `reactivate`, `rotate` | the database: autocommit UPDATEs, row locks, one transaction in `rotate()` |
| Admin, `admin.py` | the page an admin is looking at | add form, change form, `revoke_selected`, delete, `status` | calls `revoke()`, writes whole rows |
| Management commands | none | load by prefix, then `rotate()` or `revoke()` | the life cycle |
| Authentication, `core.py`, `authentication.py`, `ninja.py` | `last_used_at`, `last_used_ip` | `authenticate_key`, `record_usage`, the adapters' answers | reads the table once per request, without a lock |
| Rate limiting, `ratelimit.py` | one counter per key and window in a Django cache | `hit`, `check_rate_limit` | `cache.add`, `cache.incr` |
| Throttles, `throttling.py`, `ninja.py` | the last result, per request (DRF) or per thread (Ninja) | `allow_request`, `wait` | the rate limiter |
| Client address, `ip.py`, `is_ip_allowed` | none | `get_client_ip`, `is_ip_allowed` | proxies in front of Django |
| Permissions and scopes, `permissions.py`, `has_scope` | none | `has_permission` | the authenticated key; `WithinRateLimit` counts in the rate limiter |
| Key format, hashing, validation | none | `generate_api_key`, `split_raw_key`, `_base_prefix`, `_validate_*`, `clean` | the prefix is stored, looked up and recovered by `rotate()` |
| Signals, `signals.py` | none; receivers defer to the transaction | `send_safely` | foreign receivers, in whatever transaction is open, `rotate()`'s own among them |

What is hard here. Every caller of `revoke()`, `rotate()` or a form works from an
instance that may be stale; only `rotate()` takes a lock. `rotate()` writes two rows,
the others one UPDATE each, some of three columns and some of all. Authentication
checks a snapshot while the clock and the table move on. The rate limiter's `add()`
and `incr()` are two calls to a store that expires, evicts and fails. Signals are sent
before the caller's transaction ends, and a receiver's failing query breaks it. Two
adapters must give one key the same answer. What makes each
component correct is stated as properties in its module, with the code or document
sentence it comes from; `PROJECT.json` lists the hazards by line.

## Modules

| Module | Models |
|---|---|
| `KeyRow` | a row and the pure functions applied to it: `Revoked`, `Reactivated`, `Retired`, `FormApplied`, `SaveLifecycle` (`update_fields`), `Synced` |
| `KeyTable` | the committed table, the clock, live replacements, SET_NULL on delete |
| `KeyStore` | the abstract specification: every operation is one atomic step |
| `KeyLifecycle` | the code: workers with instances that go through the calls one database statement at a time |
| `RateLimit` | `hit()` call by call, on four kinds of cache, with evictions, outages and stalls, and the throttles |
| `RequestAuth` | `authenticate_key()` and `record_usage()` step by step while `KeyStore`'s operations change the table |
| `Signals` | `generate_key()`, `revoke()`, `rotate()` in nested `atomic()` blocks that commit, roll back or break, with a deferring and a raising receiver |
| `KeyFormat` | the text of a key: generation, `split_raw_key()`, `_base_prefix()`, and its way through an Authorization header |
| `Addresses` | addresses in their three forms, networks, `is_ip_allowed()` |
| `Access` | one key, edited and rotated between requests, and a request's way from the header through policies, permission classes and throttles to a status, in DRF and in Ninja |
| `ClientIP` | requests that travel through trusted proxies, `get_client_ip()`, `is_ip_allowed()` |
| `MC*` | instances for TLC: symmetry, record-valued constants |
| `KeyRowProofs`, `KeyLifecycleProofs`, `RateLimitProofs`, `RequestAuthProofs`, `SignalsProofs`, `AuditProofs`, `AccessProofs`, `ClientIPProofs` | theorems |

`KeyLifecycle` and `KeyStore` share `KeyTable`'s variables `now`, `rows` and `restored`,
so the refinement mapping of `KeyLifecycle!Store` is the identity on them; the locks, the instances and what a
transaction has not committed are what the abstract specification hides. `RequestAuth`
instantiates the same `KeyStore` as the world around a request: the refinement is what
entitles it to see overlapping calls as atomic ones. `Signals` uses `KeyRow`'s functions on
a table of its own, one connection's view of it, which a rollback can take back. `Access`
and `ClientIP` share `Addresses`. A request is cut where its parts do not disturb each
other: where its address comes from (`ClientIP`), what the changing table does to its
authentication (`RequestAuth`, which takes the policies' verdicts as nondeterministic), what
policies, permissions and statuses are (`Access`, which takes the counter's verdict as
nondeterministic), and how it is counted (`RateLimit`).

Definitions named `Bug...`, `Lost...` or `Stale...` are what a plausible mistake in the code would
turn the next definition into; no specification uses them. They serve to confirm that
each property can fail (`mutants` in `PROJECT.json`).

### KeyLifecycle

A worker is a web process, an admin session or a command. `self` is the instance it
holds: `Load` reads it, nothing refreshes it but the calls themselves, so it goes stale.
`pc` says how far its call is. `revoke()`, `reactivate()` and the change form change the
instance first and then wait at a location of their own for the one UPDATE
(`SaveUpdateFields`, `SaveAllFields`) or its failure (`SaveFails`). `rotate()` is
`BeginRotate`, `RotateLock` (SELECT FOR UPDATE) or `RotateRefused`, `RotateCheck` or
`RotateConflict`, `RotateInsert`, `RotateRetire`, `RotateCommit` (together with
`RotateExhausted`, the model's bound, `RotateProgress`), and `RotateAbort`, a failing database,
at any point; its writes wait in `current` and `fresh` until the commit. A command is `Load`
followed by a call; a bulk action is a `Load` and a `RevokeSelected` for each row.

`Operations` selects which calls an instance of the model uses, so that each run spends
its states on one question. `restored` is a history variable: the replacements that
`reactivate()` or a form brought back by name. Neither looks for another live replacement,
so the promise of one live replacement is about the others.

Assumptions: READ COMMITTED with row locks, as on PostgreSQL and MySQL. On SQLite
`select_for_update()` does nothing and writers are serialised instead. Here no transaction
but `rotate()`'s is open; enclosing ones and the signals' receivers are the subject of
`Signals`. `rotate()`'s overrides other than the expiry are left out.

### RateLimit

One key with a `rate_limit`; requests of keys without one are `Unlimited`, which only
touches the throttle's result. `Kind` is the cache: `redis` (Redis and Memcached: atomic
and shared), `locmem` (atomic, per process), `database` (DatabaseCache and FileBasedCache,
whose `incr()` is Django's get-then-set). Time is counted in ticks, `Second` to a second,
because `time.time()` has a fraction. `Stall` bounds how long a `hit()` may take after it
read the clock. `granted` and `waved` count, per window, the requests that a count and that
an outage let through.

### RequestAuth

`Present`, `Lookup`, `CheckExpiry`, `RejectByPolicy`, `RecordUsage` and `UpdateUsage` are the
steps of a request at which it reads the table or the clock or writes; between any two of
them `Administer` and `Tick` change both. Environment, address and tenant policies refuse
nondeterministically. `alive` is a history variable: has the request's key been live at some
moment since the request began? Left out: headers that never reach `authenticate_key()`, and
`last_used_ip`, whose change only makes the write of `last_used_at` more frequent
(`RecordUsage` may always write).

### Signals

One connection, no concurrency: what `atomic()`, `on_commit()` and `send_safely()` make of
each other. `stack` holds the open blocks, each with the table, the deferred callbacks and
the callers' knowledge to go back to; `needs_rollback` is Django's flag of that name. A block
entered while the flag is set has no savepoint and hands the rollback on. `CallerEnters`,
`CallerLeaves` and `CallerEscapes` are the caller's blocks; between them it loads a key and
calls `generate_key()` (`BeginGenerate`, `Insert`, `SendCreated`), `revoke()` (`BeginRevoke`,
`Update`, `SendRevoked`) or `rotate()` (`BeginRotate`, `RotateLock`, `Insert`, `SendCreated`,
`Update` and `SendRevoked` or `Cutoff` or neither, `RotateLeave`, `SendRotated`). A statement
fails (`StatementFails`), is refused in a broken block (`Refused`), and an exception unwinds
`rotate()`'s own block (`RotateUnwinds`) before the caller sees it; so does a COMMIT that
fails. `Load` needs an intact block, since a query in a broken one raises.

Two receivers listen. The auditor does what `signals.py` advises, `transaction.on_commit()`;
`audit` counts its records. The other one raises, which `send_safely()` swallows, and with
`Misuse` its own query may fail in the block it is called in, which sets the flag.
`broken` is a history variable: has that happened? `handed` is what raw keys the callers got
and were not told to forget by an exception.

### Access and KeyFormat

A text is a sequence of tokens, the finest pieces that matter: words, the environment's
segment, random draws, a dot, a blank, a character outside ASCII in one of its two encodings.
A header is a sequence of words. `GenerateKey`, `Edit`, `Rotate`, `Revoke` and `Suspend`
happen between requests; `Receive` parses a header the way its framework does and
`Authenticate` is `authenticate_key()`. Then `gates` holds what the view lists: permission
classes in their order, then the throttle, each an action. A row remembers the prefix that
was `chosen` and the columns that were `given`. `Due` is the documented answer, stated from
what the client holds and not from how it is parsed. `Grants` and `LetsIn` state scopes and
allowlists a second way, over names and addresses.

### ClientIP

Each forwarded entry remembers its author, 0 for the client. Settings and the proxies'
behaviour are chosen in `Init`. A request enters at any hop, the outermost proxy or one behind
it, and whoever sends it may have written any entries (`Connect`). What is promised depends on
both. Of a request that has passed through as many proxies as are counted, no word of the
client's is used. One that came in behind the outermost proxy has fewer honest entries than
the count: without forged ones it falls back to REMOTE_ADDR, as documented, but its sender can
write the missing ones, and `ip.py:51` takes them; the docs' "never used" supposes the
configured chain. `AroundTheChain.cfg` is that request. Addresses are an abstract host in one of three forms, IPv4,
IPv6 and IPv4-mapped IPv6; a network is a set of addresses of one version.

## Runs

| Run | Shows |
|---|---|
| `rotation` | concurrent and stale rotations with reactivations: one live replacement at most besides restored ones, no stale copy, grace never extends a life, nothing but `reactivate()` or a form revives a key; the inductive invariant `RotationInv` holds |
| `revocation` | with rotations (that may fail and roll back), bulk actions and deletions in the way, `revoke()`'s early return never skips a working key, and every call returns, though no failure need come to free it |
| `refinement` | forms, bulk revocation, deletion, `rotate()` and `reactivate()` together implement `KeyStore`; no key is active but revoked |
| `stale_form` (violated) | a change form whose active box nobody touched undoes a `revoke()` that commits between its read and its write |
| `signals` | nested blocks that fail, commit and roll back around the calls: callers hold exactly the stored keys and the auditor's records are the committed history, until a receiver breaks a block; even after that no stored key is one whose raw form nobody got, and a rotation that raises leaves no trace |
| `broken_receiver` (violated) | one swallowed database error of a receiver, no transaction but `rotate()`'s own: the caller gets a raw key that is never stored |
| `shared_quota` | two processes with two threads on Redis, calls that raise before or after they took effect: no window lets more than `rate_limit` through besides those that failed open; without those, the requests counted are let through exactly up to the limit; nobody is denied early; a denied request gets its own `Retry-After` |
| `lossy_counter` | DatabaseCache loses increments, but denies nobody early and invents no count |
| `short_timeout` (violated) | DatabaseCache, one thread: `incr()` stores with the cache's default timeout, and a longer window starts again |
| `requests` | two clients with any credentials for one key, or one client and two keys, which change under them: only live keys get past 401, guessers learn nothing, `last_used_at` is recent enough, whichever of the overlapping requests wrote it last |
| `access` | five kinds of scopes, allowlists and views, all kinds of headers: both frameworks answer by one set of rules, a request counts once, prefix (other than an empty one) and grants survive rotation |
| `client_address` | every setting of header and count, forged entries, two proxies that append or overwrite, requests that enter in front of, between or behind them: no word of the client's is used of a request that passed through as many proxies as are counted, and behind a faithful setting the sender is found and a restriction holds |

Violated runs are findings, described with the sentence they contradict in `PROJECT.json`.
Further instances are kept beside them, as configurations of the same modules. Three pass:

- `ProcessQuota.cfg` (`MCRateLimit`): on LocMemCache the limit is exact in each process.
- `FaultyCounter.cfg` (`MCRateLimit`): `NeverDeniedEarly` and `WaitIsOnesOwn` with evictions and stalls too.
- `Usage.cfg` (`MCRequestAuth`): `UsageIsRecorded` and its inductive invariant for two clients of one
  key, with a threshold of two.

The others show what else the model brought up; each ends in a violation:

- `StaleRevoke.cfg`: two callers that loaded an active key; the second `revoke()` overwrites the
  first one's date and reason (`RevocationRecordKept`).
- `FailedRevoke.cfg`: an instance whose UPDATE failed says "already revoked", so a retry does
  nothing (`EarlyReturnIsSafe`).
- `RolledBackRevoke.cfg` (`MCSignals`): the same after an enclosing block rolled the UPDATE back
  (`RevokedStaysRevoked`).
- `AdminStatus.cfg`: clearing the box shows Revoked, against `docs/admin.md` (`RevokedMeansRevokeRan`).
- `LateHit.cfg`: a `hit()` delayed over the expiry of its window's counter starts it again
  (`QuotaPerWindow`).
- `RetryTooSoon.cfg`: `int()` cuts `retry_after` short of the reset (`RetryAfterReachesReset`).
- `AroundTheChain.cfg` (`MCClientIP`): a caller that enters behind the outermost proxy writes as many
  entries as are missing, and one of them is used (`OnlyTheChainsWord`).
- `MappedEntry.cfg`: an IPv4-mapped allowlist entry matches nobody (`ExactMatchPasses`).
- `RawScopes.cfg` (`MCAccess`): a bare string in the scopes column, written past the validation,
  grants nothing, but a rotation makes a list of its letters (`RotationKeepsGrants`).
- `OddPrefix.cfg` (`MCAccess`): `generate_key()` accepts a prefix with a dot, a blank or an accent,
  and its holder is answered 401, in one framework or in both (`AnswersByTheRules`).

To run one: `tlc -config Rotation.cfg MCKeyLifecycle.tla`.

### Bounds

`MaxTime` bounds the clock, `Keys` how many keys can be minted (`RotateExhausted`
calls off a rotation that finds none left), `Requests` the rate limiter's requests, `MaxWords` what a
client writes in a header. They are enough because:

- a second live replacement takes one key, two replacements and two rotations: 3 keys, 2
  workers. A third worker could only repeat what one of the two does.
- expiry matters as before, at and after an instant: `MaxTime` 1 with an expiry at 1 and grace
  periods 0 (refused) and 2 (beyond the expiry) gives each case. `refinement` has no given
  expiry, but rotations with grace 1 make keys expire.
- `shared_quota` lets four threads make five requests with limit 2 over two windows, so a window
  fills while others still count; `lossy_counter` has two threads, enough to lose an increment.
- `requests` has two clients, `Stall` 1 and `MaxTime` 2: an UPDATE of `last_used_at` may come an
  instant after the clock was read for it and after another client's newer one, and a mark may be
  fresh, at the threshold or beyond it. Two clients meet only in a key's row, so `Crowd` has at most
  three of requests in progress and keys named at a time: two clients with one key, or one client
  with two. `Usage.cfg` has one key, `Threshold` 2 and `MaxTime` 3.
- `signals` opens two blocks for the caller (`MaxDepth` 2) and `rotate()`'s in them, so there is
  an outermost, an inner and an own block, with and without a savepoint; three keys are a
  rotation and one more, or two rotations of one line. Time stands still.
- `access` has prefixes that are ordinary, empty, that look like generated ones and that are too long,
  a scope that is granted by name, by each wildcard and by none, an IPv4, an IPv4-mapped and an
  unreadable address, and gates as the docs combine them and as they warn against.
- two proxies with counts 0 to 2 and two forged entries put the count before, at and beyond the
  number of honest entries, for a request that enters at the first, the second or neither of them.

### Fairness

Only `EveryCallReturns` needs it (`FairSpec`). Weak fairness on a rotation's own steps
(`RotateProgress`): a running program executes its next statement. Strong fairness on the
statements that wait for a row lock: the lock may be free and taken again any number of times,
but the database queues its waiters and starves nobody. An UPDATE whose row is gone, or that
would store a foreign key without its target (`TargetGone`), ends its call as surely as one that
succeeds. A failing database is possible and never promised: no fairness on `RotateAbort`, nor on
a `SaveFails` for any other reason. Nothing is assumed to begin: no fairness on `Call`, `Delete`
or `Tick`.

## Proofs

| Theorem | States | Argument |
|---|---|---|
| `KeyLifecycleProofs!TypeCorrect` | `Spec => []TypeOK` | with `HoldsItsLock`, which `SaveAllFields` and `Delete` need |
| `KeyLifecycleProofs!ActiveKeysAreUnrevoked` | `Spec => []ActiveIsUnrevoked` | strengthened to every instance, every uncommitted row and every pending UPDATE (`CopiesUnrevoked`) |
| `KeyLifecycleProofs!RotationInvariant` | `Spec => []RotationInv` | inductive: the lock is held, the copy is the committed row, only restored replacements stand once checked, what will be committed is that row retired, an uncommitted replacement is known to nobody |
| `KeyLifecycleProofs!RotationsReadFreshRows` | `Spec => []RotatesWhatItRead` | a part of `RotationInv` |
| `KeyLifecycleProofs!OneLiveReplacement` | `Spec => []AtMostOneLiveReplacement` | from `RotationInv` |
| `KeyLifecycleProofs!GraceNeverExtends` | `Spec => RotationNeverExtendsLife` | from `RotationInv` and `KeyRowProofs!RetiringShortensLife` |
| `KeyLifecycleProofs!LifecycleImplementsStore` | `Spec => ImplementsKeyStore` | step by step: a pending UPDATE writes what the abstract operation would write (`PendingIsLegal`), a commit writes the two rows of the abstract rotation (`RotationInv`), and every other statement changes nothing of the table |
| `KeyLifecycleProofs!OnlyRestorersBringBack` | `Spec => OnlyRestorersRestore` | `PendingIsLegal` for the UPDATEs, `RotationInv` and `RetiringShortensLife` for the commit; nothing else writes a row that exists |
| `KeyLifecycleProofs!EarlyReturnsAreSafe` | `NothingRestores => (Spec => []EarlyReturnIsSafe)` | an instance that says its key is inactive is right, unless its worker is still at the UPDATE that makes it right (`InstancesAreRight`), and no key that an instance names is made active again (`NamedKeysFade`) |
| `RateLimitProofs!CounterTypeCorrect` | `Spec => []TypeOK` | |
| `RateLimitProofs!CountsStayBacked` | `Spec => []CountsAreBacked` | a stored or read count was reached by requests that went through or are about to, whatever is lost; inductive with the denials (`DenialsAreBacked`) |
| `RateLimitProofs!DenialsAreEarned` | `Spec => []NeverDeniedEarly` | from the same |
| `RateLimitProofs!CountersAreExact` | `Reliable => (Spec => []Exactness)` | a counter outlives its window and counts every grant, because nobody is stalled (`CountersOutlive`); what is counted and not let through was denied or failed open, and denials begin at the limit (`GrantsMeetCounts`) |
| `RateLimitProofs!LimitIsExact` | `Reliable => (Spec => []QuotaPerWindow)` | from `CountersOutlive` |
| `RateLimitProofs!WaitsAreOnesOwn` | `Spec => []WaitIsOnesOwn` | |
| `RequestAuthProofs!RequestTypes` | `Spec => []TypeOK` | one step per stage of a request, one per operation on the table |
| `RequestAuthProofs!ChecksAlwaysHold` | `Spec => []ChecksHold` | with the two invariants below it is inductive (`Sound`, stated for one client): the others' steps leave it alone because the clock never goes back and `alive` only grows |
| `RequestAuthProofs!RevocationIsImmediate` | `Spec => []OnlyLiveKeysGetPast401` | a stage past the lookup carries the secret, one past the expiry check a key that was live |
| `RequestAuthProofs!GuessingTellsNothing` | `Spec => []GuessersLearnNothing` | a wrong secret ends at the lookup, and the three refusals before that say the same |
| `RequestAuthProofs!UsageAlwaysRecorded` | `Spec => []UsageIsRecorded` | `UsageInv`: the row a request read and the column it writes can only be newer than the write it skips or makes |
| `SignalsProofs!SignalTypes` | `Spec => []TypeOK` | `ShapeInv`: a rotation's block is on top and holds what the call found, the outermost block has a savepoint |
| `SignalsProofs!RotationsAreAllOrNothing` | `Spec => RotateIsAllOrNothing` | from `ShapeInv`: without a savepoint a rotation gets nowhere |
| `SignalsProofs!EveryKeyIsHandedOver` | `Spec => []KeysAreHandedOver` | until a receiver breaks a block, an unbroken block is either released or rolled back to its own savepoint (`CalmInv`), and frames, table and callers agree on the stored keys (`KeysInv`) |
| `SignalsProofs!NoStoredKeyIsNobodys` | `Spec => []NoKeyIsNobodys` | what a block would put back is a table whose keys were handed over before it was entered (`FramesNest`), and a rotation owes its caller the key it has inserted (`NobodysInv`); a broken block only ever takes keys away |
| `AuditProofs!AuditAlwaysTrue` | `Spec => []AuditIsTrue` | recorded + deferred + pending = happened, for the table and for every open block (`AuditInv`); that an UPDATE revokes an active row once needs what instances and blocks know of the rows (`RowsInv`) |
| `AccessProofs!PrefixRoundTrip` | `BasePrefix(KeyPrefix(p, e, d)) = Recovered(p)`, which is `p`, or "tak" if `p` is empty | token by token |
| `AccessProofs!RawKeyFindsItsRow` | `split_raw_key()` undoes the generation | for prefixes without dots and blanks |
| `AccessProofs!PrefixesSurvive` | `Spec => []PrefixSurvivesRotation` | the stored prefix is generated from the chosen one, or from what a rotation made of an empty one; `PrefixRoundTrip` |
| `AccessProofs!GrantsSurvive` | `~RawWrites => (Spec => []RotationKeepsGrants)` | validated columns are lists, and a list's copy is the list |
| `AccessProofs!AccessTypes` | `Spec => []TypeOK` | a request in progress has one of `Headers`, made of the row it is about, which nothing changes meanwhile (`TypesInv`) |
| `AccessProofs!RequestsCountOnce` | `OnceEach => (Spec => []CountedOnce)` | what is left of the gates is a part of the view's with the throttle last (`GatesInv`); with one counting gate the count is 0 as long as that gate is left and 1 after (`CountsInv`) |
| `AccessProofs!ScopesAsDocumented` | `HasScope(c, r) <=> Grants(c, r)` | a wildcard that covers a scope is one of the namespaces the scope is in, and conversely |
| `AccessProofs!AddressesAsDocumented` | `AddressAllowed(c, s) <=> LetsIn(c, s)` | unwrapping the client is the same as comparing in both forms, for entries that are not mapped |
| `AccessProofs!AnswersAreDue` | `OrdinaryPrefixes => (Spec => []AnswersByTheRules)` | ordinary texts survive the header and its decoding, so `authenticate_key()` verifies exactly the holders of the key (`OnlyHoldersAreVerified`, from `RawKeyFindsItsRow`); at the gates, an authenticated request is its holder's and policies let it in, and the scope gate is still ahead if it is to refuse (`RulesInv`) |
| `ClientIPProofs!AddressTypes` | `Spec => []TypeOK` | |
| `ClientIPProofs!ClientsWordIsIgnored` | `Spec => []NeverTheClientsWord` | read from the right, the header has what the last hops saw, in order, for as long as it lasts (`HeaderTellsTheChain`); what is resolved is `GetClientIP` of it (`AnswersFollow`) |
| `ClientIPProofs!SenderIsAttributed` | `Spec => []AttributedToSender` | from the same: the count-th entry from the right is what the outermost proxy added, and a request that came in behind it with no forged entries has too few |
| `ClientIPProofs!RestrictionsHold` | `Spec => []RestrictionHolds` | the verdict is the list's on the sender's address (`VerdictOnSender`) |
| `ClientIPProofs!ListedClientsPass` | `Spec => []ListedClientPasses` | from the same |

They hold for every value of the constants under the modules' ASSUMEs (types, that NULL is
no other value, that there is a word to stand for "tak"), for any number of workers, keys,
threads, processes, blocks, proxies, views and scopes. Some have a hypothesis about the
constants, and need it:

- `Reliable`: an atomic cache without faults and without stalls. `LateHit.cfg` and
  `ShortTimeout.cfg` show that neither a stall nor the get-then-set can be admitted.
- `NothingRestores`: no `reactivate()`, no form and no UPDATE that fails. `FailedRevoke.cfg` shows
  the last; a key that one worker brings back is active while the instance of another goes on
  saying that it is revoked. `revocation` satisfies it.
- `~RawWrites`: rows are validated. `RawScopes.cfg` shows one that is not.
- `OrdinaryPrefixes`: no dot, blank or accent in `generate_key(prefix=...)`. `OddPrefix.cfg` has
  them. `access` satisfies it, with an empty prefix and one that looks like a generated one among
  the ordinary.
- `OnceEach`: no view names one permission class twice. `access` satisfies it.

`PrefixesSurvive` needs none, because the property names its exception: `generate_key(prefix="")` is
accepted, and the first rotation replaces it by "tak", against the docstring of `rotate()`.
`ClientsWordIsIgnored` and `SenderIsAttributed` speak of requests that passed through as many
proxies as are counted, or that no entries were forged in; of the others `AroundTheChain.cfg` shows
that nothing of the kind holds.

What `Signals` promises "until a receiver breaks a block" is false after that, as
`broken_receiver` shows; `NoStoredKeyIsNobodys` and `RotationsAreAllOrNothing` hold even then.

Hardly any of the properties is inductive as it stands. `AtMostOneLiveReplacement`: a rotation in its
transaction will add a row nobody sees yet, and `RotationInv` says what it knows. `AuditIsTrue`
speaks of the committed table only: a commit makes the deferred records true, so `AuditInv`
balances them against every table there is to commit or to go back to.

Only model-checked: liveness. `EveryCallReturns` rests on fairness, which the prover cannot
reason about. That what is stated is stated of the right instances (that views, headers and
columns like those exist, that every action fires, that each property can fail) is TLC's part
too.

## Not modelled

- Randomness and SHA-256: draws are distinct values, a hash is compared as what it is of; the
  timing of `compare_digest` is no behaviour a state shows.
- `last_used_ip`, which decides nothing but an extra write; `name` and `metadata`.
- `rate_limit`'s validation, a test of one value; changing the limit or the window of a key while
  its counter lives, of which one hazard in `PROJECT.json` tells.
- `rotate()`'s overrides other than the expiry and the environment: each replaces one copied value.
- `api_key_rejected` and `api_key_rate_limited`: sent where no transaction of the package is open
  and no row changes.
- The admin's rendering, messages and one-time key page; the commands' parsing and output; headers
  and messages of responses; OpenAPI schemas.
- A second instance of one key on a connection, and what its caller is told by a COMMIT that fails:
  `Signals` has one instance, and `RotateIsAllOrNothing` speaks of failures before the COMMIT of an
  outermost rotation.
- App configuration, examples, tests: no behaviour of their own.

## Plan

1. Life cycle: rows, abstract store, calls, one-replacement invariant and its proof. *Done.*
2. Rate limiter with caches that lose, fail and stall; exactness proved. *Done.*
3. Authentication against a changing table; client address. *Done; authentication proved.*
4. Transactions and signals; every key handed over and the audit proved. *Done.*
5. Formats, scopes, permissions and the two adapters; the prefix and the grants proved. *Done.*
6. Proofs that `KeyLifecycle` implements `KeyStore`, of the answers in `Access`, of the attribution
   in `ClientIP` and of `NoKeyIsNobodys`. *Done.*
7. A rate limit whose window is edited while its counter lives.
