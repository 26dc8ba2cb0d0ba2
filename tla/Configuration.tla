--------------------------- MODULE Configuration ---------------------------
(***************************************************************************)
(* A configuration, what AppConfig::validate asks of it                    *)
(* (src/src/config.rs), and what Runtime::new asks besides when it builds  *)
(* the client registry and the router (src/src/server.rs, auth.rs,         *)
(* routing.rs).  All of it is a function of the file and of the secrets at *)
(* the moment they are read; Lifecycle says when that is.                  *)
(*                                                                         *)
(* An endpoint, the name of a header and a pattern of models are kept as   *)
(* what the checks tell apart: "https", "http", one with "credentials" in  *)
(* it, or "malformed"; "plain", "forbidden" or "malformed"; the set of     *)
(* models matched, or BadGlob.                                             *)
(***************************************************************************)
EXTENDS Integers, Sequences, FiniteSets

CONSTANTS
    Models,       \* the models that requests name
    Secrets,      \* the environment variables and files secrets refer to
    Keys,         \* secrets of 24 bytes and more
    ShortKeys,    \* shorter ones
    NoSecret,     \* a secret that is not set, cannot be read or is empty
    MaxPermits    \* Semaphore::MAX_PERMITS

BadGlob == {"malformed"}

ASSUME SecretsAssumption ==
    /\ NoSecret \notin Keys \union ShortKeys
    /\ Keys \intersect ShortKeys = {}
    /\ BadGlob \intersect Models = {}
    /\ MaxPermits \in Nat \ {0}

NoId == ""

Values == Keys \union ShortKeys \union {NoSecret}

ProviderConfig ==
    [id : STRING, endpoint : {"https", "http", "credentials", "malformed"}, insecure : BOOLEAN,
     credential : Secrets,
     headers : SUBSET [name : {"plain", "forbidden", "malformed"}, value : Secrets]]

TargetConfig == [provider : STRING, weight : Nat]

RouteConfig ==
    [id : STRING, models : Seq((SUBSET Models) \union {BadGlob}), targets : Seq(TargetConfig)]

\* concurrent_requests and requests_per_minute.
ClientConfig ==
    [id : STRING, key : Secrets, allowed : SUBSET STRING, concurrent : Nat, perMinute : Nat]

\* Of limits, global_concurrency and max_attempts.
AppConfig ==
    [server : STRING, concurrency : Nat, attempts : Nat,
     providers : Seq(ProviderConfig), routes : Seq(RouteConfig), clients : Seq(ClientConfig)]

Ids(entries) == {entries[i].id : i \in DOMAIN entries}

\* unique_id, over all entries of a kind.
UniqueIds(entries) ==
    /\ NoId \notin Ids(entries)
    /\ \A i, j \in DOMAIN entries : entries[i].id = entries[j].id => i = j
-----------------------------------------------------------------------------
(* AppConfig::validate.                                                    *)

\* SecretRef::resolve
Resolves(name, secret) == secret[name] # NoSecret

ProviderValid(provider, secret) ==
    /\ provider.endpoint = "https" \/ (provider.endpoint = "http" /\ provider.insecure)
    /\ Resolves(provider.credential, secret)
    /\ \A header \in provider.headers : header.name = "plain"

RouteValid(route, providers) ==
    /\ route.models # <<>> /\ route.targets # <<>>
    /\ \A i \in DOMAIN route.targets :
         /\ route.targets[i].provider \in Ids(providers)
         /\ route.targets[i].weight # 0

ClientValid(client, routes, secret) ==
    /\ secret[client.key] \in Keys
    /\ client.concurrent # 0 /\ client.perMinute # 0
    /\ client.allowed \subseteq Ids(routes)

Valid(config, secret) ==
    /\ config.clients # <<>> /\ config.providers # <<>> /\ config.routes # <<>>
    /\ config.concurrency # 0 /\ config.attempts # 0
    /\ UniqueIds(config.providers)
    /\ \A i \in DOMAIN config.providers : ProviderValid(config.providers[i], secret)
    /\ UniqueIds(config.routes)
    /\ \A i \in DOMAIN config.routes : RouteValid(config.routes[i], config.providers)
    /\ UniqueIds(config.clients)
    /\ \A i \in DOMAIN config.clients : ClientValid(config.clients[i], config.routes, secret)
-----------------------------------------------------------------------------
(* Runtime::new.  A secret may have changed since validate looked at it.   *)

\* Mutant: the keys are taken as validate found them.
KeysLongUnchecked(config, secret) == TRUE

\* AuthRegistry::new reads the keys again, and keeps only their hashes.
KeysLong(config, secret) ==
    \A i \in DOMAIN config.clients : secret[config.clients[i].key] \in Keys

Registry(config, secret) ==
    [i \in DOMAIN config.clients |-> secret[config.clients[i].key]]

\* Router::new: Provider::new resolves the values of the headers, and
\* Route::compile the patterns of the routes.
Compiles(config, secret) ==
    /\ \A i \in DOMAIN config.providers : \A header \in config.providers[i].headers :
         Resolves(header.value, secret)
    /\ \A i \in DOMAIN config.routes : \A k \in DOMAIN config.routes[i].models :
         config.routes[i].models[k] # BadGlob

\* Semaphore::new panics beyond what it can hold; validate sets no such bound.
Panics(config) == config.concurrency > MaxPermits
-----------------------------------------------------------------------------
(* What a request asks of a runtime.                                       *)

\* authenticate: the first client with that key, if any.
Authenticated(keys, key) ==
    {i \in DOMAIN keys : keys[i] = key /\ \A j \in DOMAIN keys : keys[j] = key => i <= j}

\* Router::resolve: the routes with a pattern that matches.
Matching(config, model) ==
    {i \in DOMAIN config.routes :
        \E k \in DOMAIN config.routes[i].models : model \in config.routes[i].models[k]}

\* allows_route: no list allows every route.
Allows(client, route) == client.allowed = {} \/ route.id \in client.allowed
=============================================================================
