------------------------------- MODULE Access -------------------------------
(***************************************************************************)
(* From an Authorization header to the status of the answer, in a DRF view *)
(* and in a Django Ninja operation: the header's parsing, the shape and    *)
(* the lookup of the key, the policies of authenticate_key(), permission   *)
(* classes, scopes and throttles.  One key is generated, edited, rotated   *)
(* and revoked between the requests; what happens to a request while the   *)
(* table changes under it is RequestAuth's subject, where its address      *)
(* comes from is ClientIP's, and how its limit is counted is RateLimit's.  *)
(***************************************************************************)
EXTENDS Addresses, KeyFormat

CONSTANTS
    Prefixes,       \* values of generate_key(prefix=...)
    Served,         \* TENANT_API_KEY_ALLOWED_ENVIRONMENTS, or all of them if unset
    UsedIn,         \* the environments that keys are generated for
    ScopeValues,    \* values of the scopes column
    IPValues,       \* values of the allowed_ips column
    RawWrites,      \* may rows be written past generate_key() and clean()?
    Required,       \* the scopes that the view or the operation requires
    Views,          \* what requests are sent to
    Sources,        \* what get_client_ip() may return
    NULL

\* A JSON value: what list() makes of it, and whether it is a list already.
\* A scope is the sequence of its words, which colons separate.
Column == [list : BOOLEAN, items : SUBSET Seq(STRING)]

IPColumn == [list : BOOLEAN, items : SUBSET NetworkOrText]

Star == "*"

View == [framework   : {"drf", "ninja"},
         permissions : Seq({"scope", "ip", "rate"}),
         throttled   : BOOLEAN]

ASSUME AccessAssumption ==
    /\ Prefixes \subseteq Seq(Token)
    /\ Served \subseteq Environments
    /\ UsedIn \subseteq Environments
    /\ ScopeValues \subseteq Column
    /\ IPValues \subseteq IPColumn
    /\ RawWrites \in BOOLEAN
    /\ Required \subseteq Seq(STRING)
    /\ Views \subseteq View
    /\ \A v \in Views : v.framework = "ninja" => v.permissions = <<"scope">>
    /\ Sources \subseteq Address \cup {Garbage}

\* The columns that an answer depends on; a hash is compared as what it is of.
RowType == [prefix      : Seq(Token),
            raw         : Seq(Token),
            environment : Environments,
            scopes      : Column,
            allowed_ips : IPColumn,
            is_active   : BOOLEAN]

\* A row and where it came from.
KeyType == [row    : RowType,
            chosen : Prefixes,
            given  : [scopes : Column, allowed_ips : IPColumn]]

\* A header is a sequence of words, and a word one of tokens.
RequestType == [view   : Views,
                header : Seq(Seq(Token \cup {"Api-Key", "Bearer"})),
                source : Sources]

ASSUME AccessNull == NULL \notin KeyType /\ NULL \notin RequestType

VARIABLES
    key,        \* the key's row, or NULL; `chosen` and `given` remember its origin
    tenant,     \* does is_tenant_allowed() let its tenant in?
    request,    \* the request being served, or NULL
    stage,      \* how far it has got
    auth,       \* request.auth: is it the key?
    gates,      \* what still stands between the request and the view's code
    hits,       \* how often it was counted against the limit
    status      \* of the answer, or NULL

requestVars == <<request, stage, auth, gates, hits, status>>

vars == <<key, tenant, requestVars>>

Init ==
    /\ key = NULL
    /\ tenant = TRUE
    /\ request = NULL
    /\ stage = "idle"
    /\ auth = FALSE
    /\ gates = <<>>
    /\ hits = 0
    /\ status = NULL

-----------------------------------------------------------------------------
(* Columns *)

BugValidScopes(scopes) == <<>> \notin scopes.items

\* _validate_scopes(): a list of non-empty strings.
ValidScopes(scopes) == scopes.list /\ <<>> \notin scopes.items

\* _validate_allowed_ips(): a list of addresses and networks.
ValidAllowedIPs(ips) == ips.list /\ Garbage \notin ips.items

BugCovers(scope, required) ==
    /\ Len(scope) > 1
    /\ scope[Len(scope)] = Star
    /\ Len(required) >= Len(scope) - 1
    /\ \A i \in 1 .. Len(scope) - 1 : scope[i] = required[i]

\* "orders:*" stands for every scope that starts with "orders:".
Covers(scope, required) ==
    /\ Len(scope) > 1
    /\ scope[Len(scope)] = Star
    /\ Len(required) >= Len(scope)
    /\ \A i \in 1 .. Len(scope) - 1 : scope[i] = required[i]

\* What is not a list grants nothing.
HasScope(scopes, required) ==
    /\ scopes.list
    /\ \/ required \in scopes.items
       \/ <<Star>> \in scopes.items
       \/ \E scope \in scopes.items : Covers(scope, required)

\* An empty value restricts nothing, and what is not a list lets nobody in.
AddressAllowed(ips, source) ==
    IF ips.list \/ ips.items = {} THEN IsIPAllowed(ips.items, source) ELSE FALSE

AsList(column) == [column EXCEPT !.list = TRUE]

-----------------------------------------------------------------------------
(* The key, between requests *)

Valid(scopes, ips) == ValidScopes(scopes) /\ ValidAllowedIPs(ips)

Row(prefix, environment, draw, scopes, ips) ==
    [prefix      |-> KeyPrefix(prefix, environment, draw),
     raw         |-> RawKey(KeyPrefix(prefix, environment, draw), draw),
     environment |-> environment,
     scopes      |-> scopes,
     allowed_ips |-> ips,
     is_active   |-> TRUE]

GenerateKey(prefix, environment, draw, scopes, ips) ==
    /\ stage = "idle"
    /\ key = NULL
    /\ Valid(scopes, ips)
    /\ Fits(prefix)
    /\ key' = [row    |-> Row(prefix, environment, draw, scopes, ips),
               chosen |-> prefix,
               given  |-> [scopes |-> scopes, allowed_ips |-> ips]]
    /\ UNCHANGED <<tenant, requestVars>>

\* A form calls clean(); a fixture or a raw ORM call does not.
Edit(scopes, ips) ==
    /\ stage = "idle"
    /\ key # NULL
    /\ Valid(scopes, ips) \/ RawWrites
    /\ key' = [key EXCEPT !.row.scopes = scopes, !.row.allowed_ips = ips,
                          !.given = [scopes |-> scopes, allowed_ips |-> ips]]
    /\ UNCHANGED <<tenant, requestVars>>

\* rotate(environment=...): the new row has list() copies of the old one's
\* columns, which generate_key() validates.
Rotate(environment, draw) ==
    LET row    == key.row
        prefix == BasePrefix(row.prefix)
    IN  /\ stage = "idle"
        /\ key # NULL
        /\ row.is_active
        /\ KeyPrefix(prefix, environment, draw) # row.prefix
        /\ Valid(AsList(row.scopes), AsList(row.allowed_ips))
        /\ Fits(prefix)
        /\ key' = [key EXCEPT !.row = Row(prefix, environment, draw,
                                          AsList(row.scopes), AsList(row.allowed_ips))]
        /\ UNCHANGED <<tenant, requestVars>>

Revoke ==
    /\ stage = "idle"
    /\ key # NULL
    /\ key' = [key EXCEPT !.row.is_active = FALSE]
    /\ UNCHANGED <<tenant, requestVars>>

Suspend ==
    /\ stage = "idle"
    /\ tenant' = ~tenant
    /\ UNCHANGED <<key, requestVars>>

-----------------------------------------------------------------------------
(* A request *)

Reply(code) == stage' = "answered" /\ status' = code

\* TenantAPIKeyAuthentication: another scheme is another authenticator's.
DRFParse(header) ==
    IF header = <<>> \/ header[1] # ApiKey
    THEN "anonymous"
    ELSE IF Len(header) = 2 /\ "latin1" \notin Tokens(header[2])
         THEN "credentials"
         ELSE "refused"

\* TenantAPIKeyAuth.
NinjaParse(header) ==
    IF Len(header) = 2 /\ header[1] = ApiKey THEN "credentials" ELSE "refused"

BugGatesOf(view) ==
    (IF view.throttled THEN <<"throttle">> ELSE <<>>) \o view.permissions

\* Both frameworks throttle last.
GatesOf(view) ==
    view.permissions \o (IF view.throttled THEN <<"throttle">> ELSE <<>>)

\* The headers that clients send: none, a bare or a foreign scheme, the key's
\* raw form, its prefix with a guess or alone, and an unknown prefix.
Headers ==
    LET prefix == key.row.prefix
        texts  == {RawKey(prefix, d) : d \in Draws} \cup {prefix}
                  \cup {RawKey(<<Tak>>, d) : d \in Draws}
    IN  {<<>>, <<ApiKey>>, <<<<"Bearer">>, key.row.raw>>}
        \cup {Credentials(OnWire(t, e)) : t \in texts, e \in {"utf8", "latin1"}}

Receive(view, header, source) ==
    LET parsed == IF view.framework = "drf" THEN DRFParse(header) ELSE NinjaParse(header)
    IN  /\ stage = "idle"
        /\ request' = [view |-> view, header |-> header, source |-> source]
        /\ CASE parsed = "refused"     -> Reply(401) /\ UNCHANGED gates
             [] parsed = "anonymous"   -> /\ stage' = "gates"
                                          /\ gates' = GatesOf(view)
                                          /\ UNCHANGED status
             [] parsed = "credentials" -> stage' = "key" /\ UNCHANGED <<gates, status>>
        /\ UNCHANGED <<key, tenant, auth, hits>>

\* The text that an adapter hands to authenticate_key().
Text == Decoded(request.view.framework, request.header[2])

\* verify_key() compares the hashes of whole raw keys.
KeyVerified ==
    /\ HasShape(Text)
    /\ LookupPrefix(Text) = key.row.prefix
    /\ Text = key.row.raw
    /\ key.row.is_active

PolicyAllows ==
    /\ key.row.environment \in Served
    /\ AddressAllowed(key.row.allowed_ips, request.source)
    /\ tenant

Authenticate ==
    /\ stage = "key"
    /\ IF KeyVerified /\ PolicyAllows
       THEN /\ auth' = TRUE
            /\ stage' = "gates"
            /\ gates' = GatesOf(request.view)
            /\ UNCHANGED status
       ELSE /\ Reply(IF KeyVerified THEN 403 ELSE 401)
            /\ UNCHANGED <<auth, gates>>
    /\ UNCHANGED <<key, tenant, request, hits>>

At(gate) == stage = "gates" /\ gates # <<>> /\ Head(gates) = gate

Pass == gates' = Tail(gates) /\ UNCHANGED <<stage, status>>

\* A permission class: without a key DRF answers 401 in place of 403.
Permission(gate, granted) ==
    /\ At(gate)
    /\ IF auth /\ granted
       THEN Pass
       ELSE Reply(IF auth THEN 403 ELSE 401) /\ UNCHANGED gates
    /\ UNCHANGED <<key, tenant, request, auth, hits>>

HasAPIKeyScope ==
    Permission("scope", \A required \in Required : HasScope(key.row.scopes, required))

HasAllowedIP ==
    Permission("ip", AddressAllowed(key.row.allowed_ips, request.source))

\* check_rate_limit(): one more request of this key, which may be one too many.
Count(gate) ==
    /\ At(gate) /\ auth
    /\ hits' = hits + 1
    /\ Pass \/ (Reply(429) /\ UNCHANGED gates)
    /\ UNCHANGED <<key, tenant, request, auth>>

WithinRateLimit == Count("rate")

NotAKey ==
    /\ At("rate") /\ ~auth
    /\ Reply(401)
    /\ UNCHANGED <<key, tenant, request, auth, gates, hits>>

Throttle == Count("throttle")

\* A request without a key is not this throttle's concern.
NotThrottled ==
    /\ At("throttle") /\ ~auth
    /\ Pass
    /\ UNCHANGED <<key, tenant, request, auth, hits>>

Serve ==
    /\ stage = "gates" /\ gates = <<>>
    /\ Reply(200)
    /\ UNCHANGED <<key, tenant, request, auth, gates, hits>>

Forget ==
    /\ stage = "answered"
    /\ request' = NULL
    /\ stage' = "idle"
    /\ auth' = FALSE
    /\ gates' = <<>>
    /\ hits' = 0
    /\ status' = NULL
    /\ UNCHANGED <<key, tenant>>

Next ==
    \/ \E s \in ScopeValues, i \in IPValues :
         \/ \E p \in Prefixes, e \in UsedIn, d \in Draws : GenerateKey(p, e, d, s, i)
         \/ Edit(s, i)
    \/ \E e \in UsedIn, d \in Draws : Rotate(e, d)
    \/ Revoke
    \/ Suspend
    \/ key # NULL /\ \E v \in Views, h \in Headers, a \in Sources : Receive(v, h, a)
    \/ Authenticate
    \/ HasAPIKeyScope
    \/ HasAllowedIP
    \/ WithinRateLimit
    \/ NotAKey
    \/ Throttle
    \/ NotThrottled
    \/ Serve
    \/ Forget

Spec == Init /\ [][Next]_vars

-----------------------------------------------------------------------------

\* Every variable keeps its type; a generated prefix fits into its column.
TypeOK ==
    /\ key \in KeyType \cup {NULL}
    /\ key # NULL => Len(key.row.prefix) <= MaxKeyPrefix
    /\ tenant \in BOOLEAN
    /\ request \in RequestType \cup {NULL}
    /\ stage \in {"idle", "key", "gates", "answered"}
    /\ stage # "idle" => request # NULL /\ key # NULL
    /\ auth \in BOOLEAN
    /\ gates \in Seq({"scope", "ip", "rate", "throttle"})
    /\ hits \in Nat
    /\ status \in {200, 401, 403, 429, NULL}

\* The client did as the documentation says with a key that works.
HoldsKey ==
    /\ \E e \in {"utf8", "latin1"} :
         request.header = Credentials(OnWire(key.row.raw, e))
    /\ key.row.is_active

\* A scope is granted by name, by the wildcard of everything, or by that of a
\* namespace that it is in.
Grants(scopes, required) ==
    /\ scopes.list
    /\ \/ {required, <<Star>>} \cap scopes.items # {}
       \/ \E n \in 1 .. Len(required) - 1 :
            Append(SubSeq(required, 1, n), Star) \in scopes.items

\* An address is let in if nothing is listed, or by an entry that covers it.
LetsIn(ips, source) ==
    \/ ips.items = {}
    \/ /\ ips.list
       /\ source # Garbage
       /\ \E e \in ips.items \ {Garbage} :
            \E a \in e : a.kind # "mapped" /\ SameAddress(a, source)

Requires(gate) ==
    \E i \in DOMAIN request.view.permissions : request.view.permissions[i] = gate

\* What the answer may be, in terms of what is documented.
Due ==
    CASE ~HoldsKey ->
           IF request.view.permissions = <<>> /\ DRFParse(request.header) = "anonymous"
           THEN {200}
           ELSE {401}
      [] HoldsKey /\ ~(/\ key.row.environment \in Served
                       /\ LetsIn(key.row.allowed_ips, request.source)
                       /\ tenant) ->
           {403}
      [] OTHER ->
           IF Requires("scope") /\ \E r \in Required : ~Grants(key.row.scopes, r)
           THEN IF Requires("rate") THEN {403, 429} ELSE {403}
           ELSE {200, 429}

\* "Both frameworks enforce identical rules", with "the same 401/403 split",
\* and these are the documented ones: a key in the hands of its holder, before
\* and after rotations, is answered 401 only when it is revoked, 403 when its
\* environment, address, tenant or scopes do not allow the request; anything
\* else that a client presents is answered 401, if not for a DRF view that
\* permits everyone and a client that does not try to authenticate.
AnswersByTheRules == stage = "answered" => status \in Due

\* "Don't combine the two or requests are counted twice": with one of the
\* throttle and WithinRateLimit, a request of a key counts once against its
\* limit if it is let through or over the limit, and not at all if it does not
\* authenticate; with the throttle alone, nor if it is refused.
CountedOnce ==
    stage = "answered" =>
        /\ ~auth => hits = 0
        /\ auth /\ status \in {200, 429} /\ (Requires("rate") <=> ~request.view.throttled)
           => hits = 1
        /\ status = 403 /\ ~Requires("rate") => hits = 0

\* generate_key(prefix="") is accepted, but a stored prefix in which nothing
\* precedes the segment does not look like a generated one.
Recovered(prefix) == IF prefix = <<>> THEN <<Tak>> ELSE prefix

\* "prefix defaults to the one this key was originally generated with", through
\* any number of rotations and changes of environment, and whatever the prefix
\* looks like; only an empty one gives way to "tak".
PrefixSurvivesRotation ==
    key # NULL => BasePrefix(key.row.prefix) = Recovered(key.chosen)

\* "Every concrete-model field carries over to the new row unchanged": however
\* often a key is rotated, it can do what it could when it was last written.
RotationKeepsGrants ==
    key # NULL =>
        /\ \A r \in Required :
             HasScope(key.row.scopes, r) <=> HasScope(key.given.scopes, r)
        /\ \A a \in Sources :
             AddressAllowed(key.row.allowed_ips, a) <=> AddressAllowed(key.given.allowed_ips, a)
=============================================================================
