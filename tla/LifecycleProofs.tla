-------------------------- MODULE LifecycleProofs --------------------------
(***************************************************************************)
(* What holds of the process whatever files, secrets and requests there    *)
(* are and however long the grace is: an inductive invariant of Lifecycle, *)
(* and what follows from it.                                               *)
(***************************************************************************)
EXTENDS Lifecycle, FiniteSetTheorems, TLAPS

\* What is being built has passed validate, with the secrets of some moment.
BuilderValid ==
    builder.pc \in {"loaded", "validated"} =>
        /\ builder.file \in Files
        /\ \E secret \in [Secrets -> Values] : Valid(Config[builder.file], secret)

\* The grace runs only when axum has noticed the shutdown, and then takes no
\* new request, so that those that are left have all seen the same part of it.
WaitedTogether ==
    /\ drain.noticed => phase \notin {"starting", "serving"}
    /\ drain.left # Grace => drain.noticed
    /\ \A r \in Requests : Busy(r) => req[r].waited = Grace - drain.left

\* The client of a request is one whose key the request has shown.
ClientByKey ==
    \A r \in Requests : req[r].pc \in {"authenticated", "admitted"} =>
        req[r].runtime.keys[req[r].client] = req[r].key

LifecycleInv ==
    /\ TypeOK
    /\ BuilderValid /\ RuntimeSound
    /\ WaitedTogether
    /\ ClientByKey /\ AdmittedByOneRuntime
-----------------------------------------------------------------------------
(* Configurations and runtimes.                                            *)

\* Every content the file may have stands for a configuration.
LEMMA FileHasConfig ==
    ASSUME NEW file \in Files
    PROVE  /\ Config[file] \in AppConfig
           /\ file # Unreadable
BY LifecycleAssumption

\* The fields of a configuration, and the entries of its sequences.
LEMMA ConfigEntries ==
    ASSUME NEW config \in AppConfig
    PROVE  /\ config.concurrency \in Nat /\ config.attempts \in Nat
           /\ DOMAIN config.clients = 1..Len(config.clients) /\ Len(config.clients) \in Nat
           /\ \A i \in DOMAIN config.clients : config.clients[i] \in ClientConfig
           /\ DOMAIN config.routes = 1..Len(config.routes) /\ Len(config.routes) \in Nat
           /\ \A i \in DOMAIN config.routes : config.routes[i] \in RouteConfig
<1>1. /\ config.clients \in Seq(ClientConfig)
      /\ config.routes \in Seq(RouteConfig)
      /\ config.concurrency \in Nat /\ config.attempts \in Nat
  BY DEF AppConfig
<1>2. /\ DOMAIN config.clients = 1..Len(config.clients) /\ Len(config.clients) \in Nat
      /\ \A i \in DOMAIN config.clients : config.clients[i] \in ClientConfig
  BY <1>1
<1>3. /\ DOMAIN config.routes = 1..Len(config.routes) /\ Len(config.routes) \in Nat
      /\ \A i \in DOMAIN config.routes : config.routes[i] \in RouteConfig
  BY <1>1
<1> QED
  BY <1>1, <1>2, <1>3

\* What validate accepts the router can work with.
LEMMA ValidRoutesUsable ==
    ASSUME NEW config \in AppConfig, NEW secret \in [Secrets -> Values], Valid(config, secret)
    PROVE  RoutesUsable(config)
<1>1. config.attempts > 0 /\ UniqueIds(config.providers)
  BY ConfigEntries DEF Valid
<1>2. ASSUME NEW i \in DOMAIN config.routes
      PROVE  /\ config.routes[i].targets # <<>>
             /\ \A k \in DOMAIN config.routes[i].targets :
                  /\ config.routes[i].targets[k].provider \in Ids(config.providers)
                  /\ config.routes[i].targets[k].weight > 0
  <2>1. config.routes[i].targets \in Seq(TargetConfig)
    BY ConfigEntries DEF RouteConfig
  <2>2. RouteValid(config.routes[i], config.providers)
    BY DEF Valid
  <2>3. ASSUME NEW k \in DOMAIN config.routes[i].targets
        PROVE  config.routes[i].targets[k].weight \in Nat
    <3>1. config.routes[i].targets[k] \in TargetConfig
      BY <2>1
    <3> QED
      BY <3>1 DEF TargetConfig
  <2> QED
    BY <2>2, <2>3 DEF RouteValid
<1> QED
  BY <1>1, <1>2 DEF RoutesUsable

\* What validate accepts admission can work with, unless a semaphore cannot
\* hold so many permits.
LEMMA ValidLimitsUsable ==
    ASSUME NEW config \in AppConfig, NEW secret \in [Secrets -> Values],
           Valid(config, secret), ~Panics(config)
    PROVE  LimitsUsable(config)
<1>1. config.concurrency \in 1..MaxPermits
  BY ConfigEntries, SecretsAssumption DEF Valid, Panics
<1>2. ASSUME NEW i \in DOMAIN config.clients
      PROVE  /\ config.clients[i].concurrent > 0 /\ config.clients[i].perMinute > 0
             /\ config.clients[i].allowed \subseteq Ids(config.routes)
  <2>1. config.clients[i].concurrent \in Nat /\ config.clients[i].perMinute \in Nat
    BY ConfigEntries DEF ClientConfig
  <2>2. ClientValid(config.clients[i], config.routes, secret)
    BY DEF Valid
  <2> QED
    BY <2>1, <2>2 DEF ClientValid
<1> QED
  BY <1>1, <1>2 DEF LimitsUsable

\* A registry has a key for each client.
LEMMA RegistryType ==
    ASSUME NEW config \in AppConfig, NEW secret \in [Secrets -> Values]
    PROVE  Registry(config, secret) \in Seq(Values)
<1>1. DOMAIN config.clients = 1..Len(config.clients) /\ Len(config.clients) \in Nat
  BY ConfigEntries
<1>2. \A i \in DOMAIN config.clients : config.clients[i].key \in Secrets
  BY ConfigEntries DEF ClientConfig
<1>3. \A i \in DOMAIN config.clients : secret[config.clients[i].key] \in Values
  BY <1>2
<1> QED
  BY <1>1, <1>3 DEF Registry

\* If exactly one route matches, it is the one that is found.
LEMMA OnlyRoute ==
    ASSUME NEW config \in AppConfig, NEW model,
           Cardinality(Matching(config, model)) = 1,
           NEW route \in Matching(config, model)
    PROVE  Matching(config, model) = {route} /\ route \in Nat
<1>1. DOMAIN config.routes = 1..Len(config.routes) /\ Len(config.routes) \in Nat
  BY ConfigEntries
<1>2. Matching(config, model) \subseteq 1..Len(config.routes)
  BY <1>1 DEF Matching
<1>3. IsFiniteSet(Matching(config, model))
  <2>1. IsFiniteSet(1..Len(config.routes))
    BY <1>1, FS_Interval
  <2> QED
    BY <1>2, <2>1, FS_Subset
<1>4. \E x : Matching(config, model) = {x}
  BY <1>3, FS_Singleton
<1> QED
  BY <1>1, <1>2, <1>4

\* Where a client is found, there is a configuration.
LEMMA FoundRuntime ==
    ASSUME NEW found \in Runtime, NEW client \in DOMAIN found.keys
    PROVE  found.file \in Files /\ client \in Nat
<1>1. found # NoRuntime
  BY DEF NoRuntime
<1>2. found \in [file : Files, keys : Seq(Values)]
  BY <1>1 DEF Runtime
<1> QED
  BY <1>2
-----------------------------------------------------------------------------
(* The state keeps its shape.                                              *)

\* The process begins with nothing loaded and no request.
LEMMA InitLifecycleInv == Init => LifecycleInv
<1> SUFFICES ASSUME Init PROVE LifecycleInv
  OBVIOUS
<1>1. TypeOK
  <2>1. disk \in [file : Files \union {Unreadable}, secret : [Secrets -> Values],
                  edits : 0..MaxEdits]
    BY LifecycleAssumption DEF Init
  <2>2. req \in [Requests -> {Idle} \union Request] /\ \A r \in Requests : req[r].pc = "idle"
    BY DEF Init, Idle
  <2>3. runtime \in Runtime
    BY DEF Init, Runtime
  <2>4. drain \in [noticed : BOOLEAN, left : 0..Grace]
    BY LifecycleAssumption DEF Init
  <2> QED
    BY <2>1, <2>2, <2>3, <2>4 DEF Init, TypeOK, Builder
<1>2. BuilderValid /\ RuntimeSound
  BY DEF Init, BuilderValid, RuntimeSound
<1>3. WaitedTogether
  BY DEF Init, WaitedTogether, Busy, Idle
<1>4. ClientByKey /\ AdmittedByOneRuntime
  BY DEF Init, ClientByKey, AdmittedByOneRuntime, Idle
<1> QED
  BY <1>1, <1>2, <1>3, <1>4 DEF LifecycleInv

\* What validate sees on the disk is a configuration of one of the Files.
LEMMA ValidOnDisk ==
    ASSUME TypeOK, disk.file # Unreadable
    PROVE  disk.file \in Files /\ disk.secret \in [Secrets -> Values]
BY DEF TypeOK

\* What Resolve makes of a request that it does not refuse.
LEMMA ResolvedByItsRuntime ==
    ASSUME TypeOK, NEW r \in Requests, Resolve(r), req' # [req EXCEPT ![r] = Idle]
    PROVE  LET config == Config[req[r].runtime.file]
           IN  \E route \in Nat :
                 /\ Matching(config, req[r].model) = {route}
                 /\ Allows(config.clients[req[r].client], config.routes[route])
                 /\ req' = [req EXCEPT ![r].pc = "admitted", ![r].route = route]
                 /\ req'[r] \in Request
                 /\ req'[r].pc = "admitted" /\ req'[r].route = route
                 /\ req'[r].runtime = req[r].runtime /\ req'[r].client = req[r].client
                 /\ req'[r].key = req[r].key /\ req'[r].model = req[r].model
                 /\ req'[r].waited = req[r].waited
<1> DEFINE config == Config[req[r].runtime.file]
<1>1. /\ req[r].pc = "authenticated"
      /\ Cardinality(Matching(config, req[r].model)) = 1
      /\ \E route \in Matching(config, req[r].model) :
           /\ Allows(config.clients[req[r].client], config.routes[route])
           /\ req' = [req EXCEPT ![r].pc = "admitted", ![r].route = route]
  BY DEF Resolve
<1>2. PICK route \in Matching(config, req[r].model) :
        /\ Allows(config.clients[req[r].client], config.routes[route])
        /\ req' = [req EXCEPT ![r].pc = "admitted", ![r].route = route]
  BY <1>1
<1>3. req[r] \in Request /\ req[r].runtime \in Runtime
  BY <1>1 DEF TypeOK, Idle, Request
<1>4. config \in AppConfig
  BY <1>1, <1>3, FoundRuntime, FileHasConfig DEF TypeOK
<1>5. Matching(config, req[r].model) = {route} /\ route \in Nat
  <2> HIDE DEF config
  <2> QED
    BY <1>1, <1>2, <1>4, OnlyRoute
<1>6. req'[r] = [req[r] EXCEPT !.pc = "admitted", !.route = route]
  BY <1>2 DEF TypeOK
<1>7. /\ req'[r] \in Request
      /\ req'[r].pc = "admitted" /\ req'[r].route = route
      /\ req'[r].runtime = req[r].runtime /\ req'[r].client = req[r].client
      /\ req'[r].key = req[r].key /\ req'[r].model = req[r].model
      /\ req'[r].waited = req[r].waited
  BY <1>1, <1>3, <1>5, <1>6 DEF Request
<1> QED
  BY <1>2, <1>5, <1>7

\* Every step keeps the shape of the state.
LEMMA NextTypeOK == TypeOK /\ BuilderValid /\ WaitedTogether /\ [Next]_vars => TypeOK'
<1> SUFFICES ASSUME TypeOK, BuilderValid, WaitedTogether, [Next]_vars
             PROVE  TypeOK'
  OBVIOUS
<1> USE LifecycleAssumption DEF TypeOK
<1>1. CASE Load \/ Validate \/ BuildFails
  BY <1>1 DEF Load, Validate, BuildFails, Reject, Builder
<1>2. CASE Build
  <2>1. builder.file \in Files
    BY <1>2 DEF Build, BuilderValid
  <2>2. Registry(Config[builder.file], disk.secret) \in Seq(Values)
    BY <2>1, FileHasConfig, RegistryType
  <2>3. runtime' \in Runtime /\ runtime' # NoRuntime
    BY <1>2, <2>1, <2>2 DEF Build, Runtime, NoRuntime
  <2> QED
    BY <1>2, <2>3 DEF Build, Builder
<1>3. CASE BuildPanics
  BY <1>3 DEF BuildPanics, Builder
<1>4. CASE InstallReloader \/ Listen \/ StartFails \/ Terminate
  BY <1>4 DEF InstallReloader, Listen, StartFails, Terminate
<1>5. CASE Hangup
  BY <1>5 DEF Hangup, Idle
<1>6. CASE Reload
  BY <1>6 DEF Reload, Builder
<1>7. ASSUME NEW file \in Edits, Edit(file)
      PROVE  TypeOK'
  <2>1. disk' \in [file : Files \union {Unreadable}, secret : [Secrets -> Values],
                   edits : 0..MaxEdits]
    <3>1. disk.edits + 1 \in 0..MaxEdits /\ file \in Files
      BY <1>7 DEF Edit
    <3>2. disk' = [file |-> file, secret |-> disk.secret, edits |-> disk.edits + 1]
      BY <1>7 DEF Edit
    <3> QED
      BY <3>1, <3>2
  <2>2. UNCHANGED <<phase, builder, runtime, server, reloader, pending, drain, req>>
    BY <1>7 DEF Edit, processVars
  <2> QED
    BY <2>1, <2>2
<1>8. ASSUME NEW rotation \in Rotations, Rotate(rotation[1], rotation[2])
      PROVE  TypeOK'
  <2>1. rotation[1] \in Secrets /\ rotation[2] \in Values
    OBVIOUS
  <2>2. [disk.secret EXCEPT ![rotation[1]] = rotation[2]] \in [Secrets -> Values]
    BY <2>1
  <2>3. /\ disk' = [file |-> disk.file,
                    secret |-> [disk.secret EXCEPT ![rotation[1]] = rotation[2]],
                    edits |-> disk.edits + 1]
        /\ disk.edits + 1 \in 0..MaxEdits
    <3>1. disk' = [disk EXCEPT !.secret[rotation[1]] = rotation[2], !.edits = @ + 1]
      BY <1>8 DEF Rotate
    <3>2. DOMAIN disk = {"file", "secret", "edits"}
      BY DEF TypeOK
    <3>3. disk.edits + 1 \in 0..MaxEdits
      BY <1>8 DEF Rotate
    <3> QED
      BY <3>1, <3>2, <3>3
  <2>4. disk' \in [file : Files \union {Unreadable}, secret : [Secrets -> Values],
                   edits : 0..MaxEdits]
    BY <2>2, <2>3
  <2>5. UNCHANGED <<phase, builder, runtime, server, reloader, pending, drain, req>>
    BY <1>8 DEF Rotate, processVars
  <2> QED
    BY <2>4, <2>5
<1>9. ASSUME NEW r \in Requests, NEW key \in Keys, NEW model \in Models, Arrive(r, key, model)
      PROVE  TypeOK'
  BY <1>9 DEF Arrive, processVars, Request
<1>10. ASSUME NEW r \in Requests, Authenticate(r)
       PROVE  TypeOK'
  <2>1. CASE req' = [req EXCEPT ![r] = Idle]
    BY <1>10, <2>1 DEF Authenticate, processVars, Idle
  <2>2. ASSUME NEW client \in Authenticated(runtime.keys, req[r].key),
               req' = [req EXCEPT ![r] =
                        [pc |-> "authenticated", key |-> req[r].key, model |-> req[r].model,
                         waited |-> req[r].waited, runtime |-> runtime,
                         client |-> client, route |-> 0]]
        PROVE  TypeOK'
    <3>1. client \in DOMAIN runtime.keys
      BY DEF Authenticated
    <3>2. client \in Nat
      BY <3>1, FoundRuntime
    <3>3. req[r] \in Request
      BY <1>10 DEF Authenticate, Idle
    <3>4. req'[r] \in Request
      BY <2>2, <3>2, <3>3 DEF Request
    <3> QED
      BY <1>10, <2>2, <3>1, <3>4 DEF Authenticate, processVars
  <2> QED
    BY <1>10, <2>1, <2>2 DEF Authenticate
<1>11. ASSUME NEW r \in Requests, Resolve(r)
       PROVE  TypeOK'
  <2>1. CASE req' = [req EXCEPT ![r] = Idle]
    BY <1>11, <2>1 DEF Resolve, processVars, Idle
  <2>2. CASE req' # [req EXCEPT ![r] = Idle]
    <3>1. /\ req'[r] \in Request
          /\ req'[r].runtime = req[r].runtime /\ req'[r].client = req[r].client
          /\ \E route \in Nat : req' = [req EXCEPT ![r].pc = "admitted", ![r].route = route]
      BY <1>11, <2>2, ResolvedByItsRuntime
    <3>2. UNCHANGED <<disk, processVars>> /\ req[r].pc = "authenticated"
      BY <1>11 DEF Resolve
    <3>3. /\ req' \in [Requests -> {Idle} \union Request]
          /\ \A s \in Requests : s # r => req'[s] = req[s]
      BY <3>1
    <3>4. req'[r].client \in DOMAIN req'[r].runtime.keys
      BY <3>1, <3>2
    <3>5. \A s \in Requests : req'[s].pc \in {"authenticated", "admitted"} =>
            req'[s].client \in DOMAIN req'[s].runtime.keys
      BY <3>3, <3>4
    <3> QED
      BY <3>2, <3>3, <3>5 DEF processVars
  <2> QED
    BY <2>1, <2>2
<1>12. ASSUME NEW r \in Requests, Leave(r)
       PROVE  TypeOK'
  BY <1>12 DEF Leave, processVars, Idle
<1>13. CASE Notice
  BY <1>13 DEF Notice
<1>14. CASE Tick
  <2>1. drain'.left \in 0..Grace /\ drain'.noticed \in BOOLEAN
    BY <1>14 DEF Tick
  <2>2. ASSUME NEW r \in Requests
        PROVE  /\ req'[r] \in {Idle} \union Request
               /\ req'[r].pc \in {"authenticated", "admitted"} =>
                    req'[r].client \in DOMAIN req'[r].runtime.keys
    <3>1. CASE ~Busy(r)
      BY <1>14, <3>1 DEF Tick
    <3>2. CASE Busy(r)
      <4>1. req[r] \in Request
        BY <3>2 DEF Busy, Idle
      <4>2. req[r].waited + 1 \in 0..Grace
        BY <1>14, <3>2 DEF Tick, WaitedTogether
      <4>3. req'[r] = [req[r] EXCEPT !.waited = @ + 1]
        BY <1>14, <3>2 DEF Tick
      <4> QED
        BY <4>1, <4>2, <4>3 DEF Request
    <3> QED
      BY <3>1, <3>2
  <2> QED
    BY <1>14, <2>1, <2>2 DEF Tick
<1>15. CASE End
  BY <1>15 DEF End, Idle
<1>16. CASE UNCHANGED vars
  BY <1>16 DEF vars
<1> QED
  BY <1>1, <1>2, <1>3, <1>4, <1>5, <1>6, <1>7, <1>8, <1>9, <1>10, <1>11, <1>12, <1>13, <1>14,
     <1>15, <1>16 DEF Next
-----------------------------------------------------------------------------
(* Only what validate accepted comes into force.                           *)

\* A runtime is built only from a configuration that validate accepted.
LEMMA NextSound ==
    TypeOK /\ BuilderValid /\ RuntimeSound /\ [Next]_vars => BuilderValid' /\ RuntimeSound'
<1> SUFFICES ASSUME TypeOK, BuilderValid, RuntimeSound, [Next]_vars
             PROVE  BuilderValid' /\ RuntimeSound'
  OBVIOUS
<1>1. CASE builder' = builder /\ runtime' = runtime /\ server' = server
  BY <1>1 DEF BuilderValid, RuntimeSound
<1>2. CASE runtime' = runtime /\ server' = server /\ builder'.pc \in {"idle", "signalled"}
  BY <1>2 DEF BuilderValid, RuntimeSound
<1>3. CASE Load
  <2>1. CASE Reject
    BY <1>2, <2>1 DEF Reject
  <2>2. CASE /\ disk.file # Unreadable /\ Valid(Config[disk.file], disk.secret)
             /\ builder' = [pc |-> "loaded", file |-> disk.file]
             /\ runtime' = runtime /\ server' = server
    <3>1. BuilderValid'
      BY <2>2, ValidOnDisk DEF BuilderValid
    <3> QED
      BY <2>2, <3>1 DEF RuntimeSound
  <2> QED
    BY <1>3, <2>1, <2>2 DEF Load
<1>4. CASE Validate
  <2>1. CASE Reject
    BY <1>2, <2>1 DEF Reject
  <2>2. CASE /\ builder.pc = "loaded" /\ builder' = [builder EXCEPT !.pc = "validated"]
             /\ runtime' = runtime /\ server' = server
    <3>1. builder'.file = builder.file
      BY <2>2 DEF TypeOK, Builder
    <3>2. BuilderValid'
      BY <2>2, <3>1 DEF BuilderValid
    <3> QED
      BY <2>2, <3>2 DEF RuntimeSound
  <2> QED
    BY <1>4, <2>1, <2>2 DEF Validate
<1>5. CASE Build
  <2>1. PICK secret \in [Secrets -> Values] :
          builder.file \in Files /\ Valid(Config[builder.file], secret)
    BY <1>5 DEF Build, BuilderValid
  <2>2. RoutesUsable(Config[builder.file]) /\ LimitsUsable(Config[builder.file])
    BY <1>5, <2>1, FileHasConfig, ValidRoutesUsable, ValidLimitsUsable DEF Build
  <2>3. \A i \in DOMAIN Registry(Config[builder.file], disk.secret) :
          Registry(Config[builder.file], disk.secret)[i] \in Keys
    BY <1>5 DEF Build, Buildable, KeysLong, Registry
  <2>4. Config[builder.file].server = server'
    BY <1>5 DEF Build, SameServer, RuntimeSound
  <2>5. /\ runtime' = [file |-> builder.file, keys |-> Registry(Config[builder.file], disk.secret)]
        /\ builder' = [pc |-> "idle", file |-> Unreadable]
    BY <1>5 DEF Build
  <2> QED
    BY <2>2, <2>3, <2>4, <2>5 DEF BuilderValid, RuntimeSound
<1>6. CASE BuildFails \/ BuildPanics
  BY <1>2, <1>6 DEF BuildFails, BuildPanics, Reject
<1>7. CASE Reload
  BY <1>2, <1>7 DEF Reload, TypeOK, Builder
<1>8. CASE InstallReloader \/ Listen \/ StartFails \/ Hangup \/ Terminate \/ Notice \/ Tick \/ End
  BY <1>1, <1>8 DEF InstallReloader, Listen, StartFails, Hangup, Terminate, Notice, Tick, End
<1>9. CASE \/ \E file \in Edits : Edit(file)
           \/ \E rotation \in Rotations : Rotate(rotation[1], rotation[2])
           \/ \E r \in Requests : Authenticate(r) \/ Resolve(r) \/ Leave(r)
           \/ \E r \in Requests, key \in Keys, model \in Models : Arrive(r, key, model)
  BY <1>1, <1>9 DEF Edit, Rotate, Authenticate, Resolve, Leave, Arrive, processVars
<1>10. CASE UNCHANGED vars
  BY <1>1, <1>10 DEF vars
<1> QED
  BY <1>3, <1>4, <1>5, <1>6, <1>7, <1>8, <1>9, <1>10 DEF Next
-----------------------------------------------------------------------------
(* Those that are left wait together.                                      *)

\* Whoever a shutdown leaves waiting waits for all the others too.
LEMMA NextWaitedTogether == TypeOK /\ WaitedTogether /\ [Next]_vars => WaitedTogether'
<1> SUFFICES ASSUME TypeOK, WaitedTogether, [Next]_vars
             PROVE  WaitedTogether'
  OBVIOUS
<1> USE DEF WaitedTogether, Busy
<1>1. CASE Load \/ Validate \/ BuildFails
  BY <1>1 DEF Load, Validate, BuildFails, Reject
<1>2. CASE Build \/ BuildPanics \/ InstallReloader \/ StartFails \/ Reload \/ Terminate
  BY <1>2 DEF Build, BuildPanics, InstallReloader, StartFails, Reload, Terminate
<1>3. CASE Listen
  BY <1>3 DEF Listen
<1>4. CASE Hangup \/ End
  BY <1>4 DEF Hangup, End, Idle
<1>5. CASE \/ \E file \in Edits : Edit(file)
           \/ \E rotation \in Rotations : Rotate(rotation[1], rotation[2])
  BY <1>5 DEF Edit, Rotate, processVars
<1>6. ASSUME NEW r \in Requests, NEW key \in Keys, NEW model \in Models, Arrive(r, key, model)
      PROVE  WaitedTogether'
  <2>1. drain.left = Grace
    BY <1>6 DEF Arrive, Accepts
  <2> QED
    BY <1>6, <2>1, LifecycleAssumption DEF Arrive, processVars, TypeOK
<1>7. ASSUME NEW r \in Requests, Authenticate(r) \/ Resolve(r) \/ Leave(r)
      PROVE  WaitedTogether'
  <2>1. /\ \A other \in Requests \ {r} : req'[other] = req[other]
        /\ req'[r].pc # "idle" => Busy(r) /\ req'[r].waited = req[r].waited
    <3>1. CASE req' = [req EXCEPT ![r] = Idle]
      BY <3>1 DEF TypeOK, Idle
    <3>2. CASE Authenticate(r) /\ req' # [req EXCEPT ![r] = Idle]
      BY <3>2 DEF Authenticate, TypeOK
    <3>3. CASE Resolve(r) /\ req' # [req EXCEPT ![r] = Idle]
      <4>1. /\ \E route \in Nat : req' = [req EXCEPT ![r].pc = "admitted", ![r].route = route]
            /\ req'[r].waited = req[r].waited
        BY <3>3, ResolvedByItsRuntime
      <4>2. req[r].pc = "authenticated"
        BY <3>3 DEF Resolve
      <4> QED
        BY <4>1, <4>2 DEF TypeOK
    <3> QED
      BY <1>7, <3>1, <3>2, <3>3 DEF Leave
  <2>2. UNCHANGED <<phase, drain>>
    BY <1>7 DEF Authenticate, Resolve, Leave, processVars
  <2> QED
    BY <2>1, <2>2
<1>8. CASE Notice
  BY <1>8 DEF Notice, TypeOK
<1>9. CASE Tick
  <2>1. drain' = [drain EXCEPT !.left = @ - 1] /\ drain.noticed
    BY <1>9 DEF Tick
  <2>2. drain'.noticed /\ drain'.left = drain.left - 1
    BY <2>1 DEF TypeOK
  <2>3. ASSUME NEW r \in Requests, req'[r].pc # "idle"
        PROVE  req'[r].waited = Grace - drain'.left
    <3>1. CASE ~Busy(r)
      BY <1>9, <2>3, <3>1 DEF Tick
    <3>2. CASE Busy(r)
      <4>1. req[r] \in Request
        BY <3>2 DEF TypeOK, Idle
      <4>2. req'[r] = [req[r] EXCEPT !.waited = @ + 1]
        BY <1>9, <3>2 DEF Tick
      <4>3. req'[r].waited = req[r].waited + 1
        BY <4>1, <4>2 DEF Request
      <4> QED
        BY <2>2, <3>2, <4>3, LifecycleAssumption DEF TypeOK
    <3> QED
      BY <3>1, <3>2
  <2> QED
    BY <1>9, <2>2, <2>3 DEF Tick
<1>10. CASE UNCHANGED vars
  BY <1>10 DEF vars
<1> QED
  BY <1>1, <1>2, <1>3, <1>4, <1>5, <1>6, <1>7, <1>8, <1>9, <1>10 DEF Next
-----------------------------------------------------------------------------
(* A request goes by one runtime.                                          *)

\* A request keeps the runtime and the client it was admitted by.
LEMMA NextAdmitted ==
    TypeOK /\ ClientByKey /\ AdmittedByOneRuntime /\ [Next]_vars
      => ClientByKey' /\ AdmittedByOneRuntime'
<1> SUFFICES ASSUME TypeOK, ClientByKey, AdmittedByOneRuntime, [Next]_vars
             PROVE  ClientByKey' /\ AdmittedByOneRuntime'
  OBVIOUS
<1> USE DEF ClientByKey, AdmittedByOneRuntime
<1>1. CASE req' = req
  BY <1>1
<1>2. CASE req' = [r \in Requests |-> Idle]
  BY <1>2 DEF Idle
<1>3. ASSUME NEW r \in Requests, req' = [req EXCEPT ![r] = Idle]
      PROVE  ClientByKey' /\ AdmittedByOneRuntime'
  BY <1>3 DEF Idle, TypeOK
<1>4. ASSUME NEW r \in Requests, NEW key \in Keys, NEW model \in Models, Arrive(r, key, model)
      PROVE  ClientByKey' /\ AdmittedByOneRuntime'
  BY <1>4 DEF Arrive, TypeOK
<1>5. ASSUME NEW r \in Requests, Authenticate(r)
      PROVE  ClientByKey' /\ AdmittedByOneRuntime'
  <2>1. ASSUME NEW client \in Authenticated(runtime.keys, req[r].key),
               req' = [req EXCEPT ![r] =
                        [pc |-> "authenticated", key |-> req[r].key, model |-> req[r].model,
                         waited |-> req[r].waited, runtime |-> runtime,
                         client |-> client, route |-> 0]]
        PROVE  ClientByKey' /\ AdmittedByOneRuntime'
    <3>1. runtime.keys[client] = req[r].key
      BY DEF Authenticated
    <3> QED
      BY <2>1, <3>1 DEF TypeOK
  <2> QED
    BY <1>3, <1>5, <2>1 DEF Authenticate
<1>6. ASSUME NEW r \in Requests, Resolve(r)
      PROVE  ClientByKey' /\ AdmittedByOneRuntime'
  <2>1. CASE req' = [req EXCEPT ![r] = Idle]
    BY <1>3, <2>1
  <2>2. CASE req' # [req EXCEPT ![r] = Idle]
    <3> DEFINE config == Config[req[r].runtime.file]
    <3>1. PICK route \in Nat :
            /\ Matching(config, req[r].model) = {route}
            /\ Allows(config.clients[req[r].client], config.routes[route])
            /\ req' = [req EXCEPT ![r].pc = "admitted", ![r].route = route]
            /\ req'[r].pc = "admitted" /\ req'[r].route = route
            /\ req'[r].runtime = req[r].runtime /\ req'[r].client = req[r].client
            /\ req'[r].key = req[r].key /\ req'[r].model = req[r].model
      BY <1>6, <2>2, ResolvedByItsRuntime
    <3>2. \A other \in Requests \ {r} : req'[other] = req[other]
      BY <3>1 DEF TypeOK
    <3>3. req[r].runtime.keys[req[r].client] = req[r].key
      BY <1>6 DEF Resolve
    <3>4. /\ req'[r].runtime.keys[req'[r].client] = req'[r].key
          /\ Matching(Config[req'[r].runtime.file], req'[r].model) = {req'[r].route}
          /\ Allows(Config[req'[r].runtime.file].clients[req'[r].client],
                    Config[req'[r].runtime.file].routes[req'[r].route])
      BY <3>1, <3>3
    <3> QED
      BY <3>2, <3>4
  <2> QED
    BY <2>1, <2>2
<1>7. CASE Tick
  <2>1. ASSUME NEW r \in Requests
        PROVE  /\ req'[r].pc = req[r].pc
               /\ req'[r].pc \in {"authenticated", "admitted"} =>
                    /\ req'[r].runtime = req[r].runtime /\ req'[r].client = req[r].client
                    /\ req'[r].key = req[r].key /\ req'[r].model = req[r].model
                    /\ req'[r].route = req[r].route
    <3>1. req'[r] = req[r] \/ req'[r] = [req[r] EXCEPT !.waited = @ + 1]
      BY <1>7 DEF Tick
    <3>2. req[r] = Idle \/ req[r] \in Request
      BY DEF TypeOK
    <3> QED
      BY <1>7, <3>1, <3>2 DEF Tick, Busy, Idle, Request
  <2> QED
    BY <2>1
<1>8. CASE Load \/ Validate \/ Build \/ BuildFails \/ BuildPanics \/ InstallReloader \/ Listen
  BY <1>1, <1>8 DEF Load, Validate, Build, BuildFails, BuildPanics, Reject, InstallReloader, Listen
<1>9. CASE StartFails \/ Reload \/ Terminate \/ Notice \/ Hangup \/ End
  BY <1>1, <1>2, <1>9 DEF StartFails, Reload, Terminate, Notice, Hangup, End
<1>10. CASE \/ \E file \in Edits : Edit(file)
            \/ \E rotation \in Rotations : Rotate(rotation[1], rotation[2])
  BY <1>1, <1>10 DEF Edit, Rotate
<1>11. CASE UNCHANGED vars
  BY <1>1, <1>11 DEF vars
<1> QED
  BY <1>3, <1>4, <1>5, <1>6, <1>7, <1>8, <1>9, <1>10, <1>11 DEF Next, Leave
-----------------------------------------------------------------------------
(* The theorems.                                                           *)

\* The invariant holds in every state.
LEMMA LifecycleInvariant == Spec => []LifecycleInv
<1>1. LifecycleInv /\ [Next]_vars => LifecycleInv'
  BY NextTypeOK, NextSound, NextWaitedTogether, NextAdmitted DEF LifecycleInv
<1> QED
  BY <1>1, InitLifecycleInv, PTL DEF Spec

\* The state keeps its shape, for any files, secrets, requests and grace.
THEOREM TypeInvariant == Spec => []TypeOK
<1>1. LifecycleInv => TypeOK
  BY DEF LifecycleInv
<1> QED
  BY <1>1, LifecycleInvariant, PTL

\* Whatever the files hold and however often they and the secrets change
\* between the looks, no runtime comes into force that router and admission
\* cannot work with.
THEOREM RuntimeSoundInvariant == Spec => []RuntimeSound
<1>1. LifecycleInv => RuntimeSound
  BY DEF LifecycleInv
<1> QED
  BY <1>1, LifecycleInvariant, PTL

\* However many reloads come between its steps, a request is admitted by the
\* runtime in which its key was found.
THEOREM AdmittedByOneRuntimeInvariant == Spec => []AdmittedByOneRuntime
<1>1. LifecycleInv => AdmittedByOneRuntime
  BY DEF LifecycleInv
<1> QED
  BY <1>1, LifecycleInvariant, PTL

\* The end cuts off none but requests that have had all of the grace.
THEOREM GraceHonouredAlways == Spec => GraceHonoured
<1>1. LifecycleInv /\ [Next]_vars =>
        [phase = "draining" /\ phase' = "ended" =>
           \A r \in Requests : Busy(r) => req[r].waited = Grace]_vars
  <2> SUFFICES ASSUME LifecycleInv, [Next]_vars, phase = "draining", phase' = "ended",
                      NEW r \in Requests, Busy(r)
               PROVE  req[r].waited = Grace
    OBVIOUS
  <2>1. CASE End
    BY <2>1, LifecycleAssumption DEF End, LifecycleInv, WaitedTogether
  <2>2. CASE Load \/ Validate \/ Build \/ BuildFails \/ BuildPanics
    BY <2>2 DEF Load, Validate, Build, BuildFails, BuildPanics, Reject, LifecycleInv, TypeOK
  <2>3. CASE InstallReloader \/ Listen \/ StartFails \/ Hangup \/ Reload \/ Terminate
    BY <2>3 DEF InstallReloader, Listen, StartFails, Hangup, Reload, Terminate
  <2>4. CASE \/ \E file \in Edits : Edit(file)
             \/ \E rotation \in Rotations : Rotate(rotation[1], rotation[2])
             \/ \E s \in Requests : Authenticate(s) \/ Resolve(s) \/ Leave(s)
             \/ \E s \in Requests, key \in Keys, model \in Models : Arrive(s, key, model)
    BY <2>4 DEF Edit, Rotate, Authenticate, Resolve, Leave, Arrive, processVars
  <2>5. CASE Notice \/ Tick \/ UNCHANGED vars
    BY <2>5 DEF Notice, Tick, vars
  <2> QED
    BY <2>1, <2>2, <2>3, <2>4, <2>5 DEF Next
<1> QED
  BY <1>1, LifecycleInvariant, PTL DEF Spec, GraceHonoured
=============================================================================
