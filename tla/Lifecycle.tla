----------------------------- MODULE Lifecycle -----------------------------
(***************************************************************************)
(* The life of the process (serve in src/src/main.rs): it reads its        *)
(* configuration and starts to listen; SIGHUP has it read and validate the *)
(* file again and swap the runtime beneath the requests; SIGTERM has it    *)
(* stop to accept, wait for the requests under way, and end after the      *)
(* grace at the latest, cutting off what remains.                          *)
(*                                                                         *)
(* Administrators edit the file and rotate the secrets at any moment, also *)
(* between two looks that the process takes at them.  A runtime is named   *)
(* by the file it was built from and the keys that were read for it.  Of a *)
(* request, the choice of its runtime, client and route are kept; what     *)
(* else may refuse it is in Leave, and its permits are in Admission.       *)
(***************************************************************************)
EXTENDS Configuration

CONSTANTS
    Requests,    \* slots for concurrent requests, reused
    Files,       \* what config.yaml may hold
    Vaults,      \* the secrets there may be at the start
    Edits,       \* bound: what the file is replaced with while the process runs
    Rotations,   \* bound: what the secrets are changed to meanwhile
    Config,      \* the configuration that each of the Files holds
    Unreadable,  \* a file that is missing or does not parse
    Grace,       \* server.shutdown_grace_seconds, in ticks
    MaxEdits     \* bound: changes of the file and the secrets

ASSUME LifecycleAssumption ==
    /\ Config \in [Files -> AppConfig]
    /\ Edits \subseteq Files
    /\ Vaults \subseteq [Secrets -> Values]
    /\ Rotations \subseteq Secrets \X Values
    /\ Unreadable \notin Files
    /\ Grace \in Nat /\ MaxEdits \in Nat

VARIABLES
    disk,      \* the file, the secrets, and how often they were changed
    phase,     \* "starting", "serving", "draining"; "ended", or "killed" by a signal
    builder,   \* AppConfig::load and Runtime::new at work
    runtime,   \* the runtime in the ArcSwap
    server,    \* the server section that the listener was set up with
    reloader,  \* the task of spawn_reload: "none", "running" or "dead"
    pending,   \* whether a SIGHUP waits for the task
    drain,     \* whether axum has noticed the shutdown, and the grace left
    req        \* what each request is doing

vars == <<disk, phase, builder, runtime, server, reloader, pending, drain, req>>
processVars == <<phase, builder, runtime, server, reloader, pending, drain>>

NoRuntime == [file |-> Unreadable, keys |-> <<>>]

Runtime == {NoRuntime} \union [file : Files, keys : Seq(Values)]

NoServer == "none"

Idle == [pc |-> "idle"]

\* waited counts the ticks of the grace that the request was there for.
Request ==
    [pc : {"uploading"}, key : Keys, model : Models, waited : 0..Grace]
      \union [pc : {"authenticated", "admitted"}, key : Keys, model : Models, waited : 0..Grace,
              runtime : Runtime, client : Nat, route : Nat]

Init ==
    /\ disk \in [file : Files \union {Unreadable}, secret : Vaults, edits : {0}]
    /\ phase = "starting"
    /\ builder = [pc |-> "signalled", file |-> Unreadable]
    /\ runtime = NoRuntime
    /\ server = NoServer
    /\ reloader = "none"
    /\ pending = FALSE
    /\ drain = [noticed |-> FALSE, left |-> Grace]
    /\ req = [r \in Requests |-> Idle]

Busy(r) == req[r].pc # "idle"

Runs == phase \in {"starting", "serving", "draining"}
-----------------------------------------------------------------------------
(* Building a runtime, at the start and at every reload.                   *)

\* The start fails and ends the process; a reload is rejected.
Reject ==
    /\ builder' = [pc |-> "idle", file |-> Unreadable]
    /\ phase' = IF phase = "starting" /\ runtime = NoRuntime THEN "ended" ELSE phase
    /\ UNCHANGED <<disk, runtime, server, reloader, pending, drain, req>>

\* AppConfig::load
Load ==
    /\ Runs /\ builder.pc = "signalled"
    /\ \/ /\ disk.file # Unreadable /\ Valid(Config[disk.file], disk.secret)
          /\ builder' = [pc |-> "loaded", file |-> disk.file]
          /\ UNCHANGED <<disk, phase, runtime, server, reloader, pending, drain, req>>
       \/ ~(disk.file # Unreadable /\ Valid(Config[disk.file], disk.secret)) /\ Reject

\* The first line of Runtime::new.
Validate ==
    /\ Runs /\ builder.pc = "loaded"
    /\ \/ /\ Valid(Config[builder.file], disk.secret)
          /\ builder' = [builder EXCEPT !.pc = "validated"]
          /\ UNCHANGED <<disk, phase, runtime, server, reloader, pending, drain, req>>
       \/ ~Valid(Config[builder.file], disk.secret) /\ Reject

Buildable(file, secret) ==
    /\ KeysLong(Config[file], secret)
    /\ Compiles(Config[file], secret)

\* spawn_reload: the listener is not set up again.
SameServer(config) == runtime # NoRuntime => config.server = Config[runtime.file].server

\* Mutant: a signal that came while the runtime was built is taken as served.
BuildForgetful ==
    LET config == Config[builder.file]
        built == [file |-> builder.file, keys |-> Registry(config, disk.secret)]
    IN  /\ Runs /\ builder.pc = "validated"
        /\ Buildable(builder.file, disk.secret)
        /\ ~Panics(config)
        /\ SameServer(config)
        /\ builder' = [pc |-> "idle", file |-> Unreadable]
        /\ runtime' = built
        /\ pending' = FALSE
        /\ server' = IF runtime = NoRuntime THEN config.server ELSE server
        /\ UNCHANGED <<disk, phase, reloader, drain, req>>

\* The rest of Runtime::new, and what serve and spawn_reload do with it.
Build ==
    LET config == Config[builder.file]
        built == [file |-> builder.file, keys |-> Registry(config, disk.secret)]
    IN  /\ Runs /\ builder.pc = "validated"
        /\ Buildable(builder.file, disk.secret)
        /\ ~Panics(config)
        /\ SameServer(config)
        /\ builder' = [pc |-> "idle", file |-> Unreadable]
        /\ runtime' = built
        /\ server' = IF runtime = NoRuntime THEN config.server ELSE server
        /\ UNCHANGED <<disk, phase, reloader, pending, drain, req>>

BuildFails ==
    LET config == Config[builder.file]
    IN  /\ Runs /\ builder.pc = "validated"
        /\ ~(Buildable(builder.file, disk.secret) /\ (Panics(config) \/ SameServer(config)))
        /\ Reject

\* A panic ends the process at the start; later only the task of the reloads.
BuildPanics ==
    /\ Runs /\ builder.pc = "validated"
    /\ Buildable(builder.file, disk.secret) /\ Panics(Config[builder.file])
    /\ builder' = [pc |-> "idle", file |-> Unreadable]
    /\ phase' = IF runtime = NoRuntime THEN "ended" ELSE phase
    /\ reloader' = IF runtime = NoRuntime THEN reloader ELSE "dead"
    /\ UNCHANGED <<disk, runtime, server, pending, drain, req>>
-----------------------------------------------------------------------------
(* Start and signals.                                                      *)

\* spawn_reload: the task installs its handler when it first runs.
InstallReloader ==
    /\ Runs /\ runtime # NoRuntime /\ reloader = "none"
    /\ reloader' = "running"
    /\ UNCHANGED <<disk, phase, builder, runtime, server, pending, drain, req>>

\* Mutant: the process listens before it has its first runtime.
ListenEarly ==
    /\ phase = "starting"
    /\ phase' = "serving"
    /\ UNCHANGED <<disk, builder, runtime, server, reloader, pending, drain, req>>

Listen ==
    /\ phase = "starting" /\ runtime # NoRuntime
    /\ phase' = "serving"
    /\ UNCHANGED <<disk, builder, runtime, server, reloader, pending, drain, req>>

\* The database or the listener cannot be opened, or axum does not take the
\* paths of the dashboard.
StartFails ==
    /\ phase = "starting" /\ runtime # NoRuntime
    /\ phase' = "ended"
    /\ UNCHANGED <<disk, builder, runtime, server, reloader, pending, drain, req>>

\* A SIGHUP that nobody handles yet ends the process.
Hangup ==
    /\ Runs
    /\ phase' = IF reloader = "none" THEN "killed" ELSE phase
    /\ pending' = (reloader = "running")
    /\ req' = IF reloader = "none" THEN [r \in Requests |-> Idle] ELSE req
    /\ UNCHANGED <<disk, builder, runtime, server, reloader, drain>>

\* signal.recv(): the signals that came meanwhile count as one.
Reload ==
    /\ Runs /\ reloader = "running" /\ builder.pc = "idle" /\ pending
    /\ pending' = FALSE
    /\ builder' = [builder EXCEPT !.pc = "signalled"]
    /\ UNCHANGED <<disk, phase, runtime, server, reloader, drain, req>>

\* SIGTERM and SIGINT: before shutdown_signal listens, the process ends at
\* once; a second one changes nothing.
Terminate ==
    /\ phase \in {"starting", "serving"}
    /\ phase' = IF phase = "serving" THEN "draining" ELSE "killed"
    /\ UNCHANGED <<disk, builder, runtime, server, reloader, pending, drain, req>>
-----------------------------------------------------------------------------
(* Administrators.                                                         *)

Edit(file) ==
    /\ Runs /\ disk.edits < MaxEdits
    /\ disk' = [disk EXCEPT !.file = file, !.edits = @ + 1]
    /\ UNCHANGED <<processVars, req>>

Rotate(name, value) ==
    /\ Runs /\ disk.edits < MaxEdits
    /\ disk' = [disk EXCEPT !.secret[name] = value, !.edits = @ + 1]
    /\ UNCHANGED <<processVars, req>>
-----------------------------------------------------------------------------
(* Requests.                                                               *)

\* axum accepts until it has noticed the shutdown.
Accepts == phase = "serving" \/ (phase = "draining" /\ ~drain.noticed)

\* The head has arrived; the handler runs when the body is there.
Arrive(r, key, model) ==
    /\ Accepts /\ ~Busy(r)
    /\ req' = [req EXCEPT ![r] = [pc |-> "uploading", key |-> key, model |-> model, waited |-> 0]]
    /\ UNCHANGED <<disk, processVars>>

\* The handler loads the runtime and looks the key up in its registry.
Authenticate(r) ==
    /\ Runs /\ req[r].pc = "uploading"
    /\ \/ \E client \in Authenticated(runtime.keys, req[r].key) :
            req' = [req EXCEPT ![r] =
                      [pc |-> "authenticated", key |-> req[r].key, model |-> req[r].model,
                       waited |-> req[r].waited, runtime |-> runtime,
                       client |-> client, route |-> 0]]
       \/ /\ Authenticated(runtime.keys, req[r].key) = {}
          /\ req' = [req EXCEPT ![r] = Idle]
    /\ UNCHANGED <<disk, processVars>>

\* Mutant: the route is looked up in the runtime that is current by then.
ResolveInCurrent(r) ==
    LET config == Config[runtime.file]
        routes == Matching(config, req[r].model)
        allowed == {route \in routes :
                      Allows(Config[req[r].runtime.file].clients[req[r].client],
                             config.routes[route])}
    IN  /\ Runs /\ req[r].pc = "authenticated"
        /\ \/ /\ Cardinality(routes) = 1
              /\ \E route \in allowed :
                   req' = [req EXCEPT ![r].pc = "admitted", ![r].route = route,
                                      ![r].runtime = runtime]
           \/ /\ Cardinality(routes) # 1 \/ allowed = {}
              /\ req' = [req EXCEPT ![r] = Idle]
        /\ UNCHANGED <<disk, processVars>>

\* resolve and allows_route: exactly one route, which the client may use.
Resolve(r) ==
    LET config == Config[req[r].runtime.file]
        routes == Matching(config, req[r].model)
        allowed == {route \in routes :
                      Allows(config.clients[req[r].client], config.routes[route])}
    IN  /\ Runs /\ req[r].pc = "authenticated"
        /\ \/ /\ Cardinality(routes) = 1
              /\ \E route \in allowed :
                   req' = [req EXCEPT ![r].pc = "admitted", ![r].route = route]
           \/ /\ Cardinality(routes) # 1 \/ allowed = {}
              /\ req' = [req EXCEPT ![r] = Idle]
        /\ UNCHANGED <<disk, processVars>>

\* It is answered, refused for another reason, or its client goes away.
Leave(r) ==
    /\ Runs /\ Busy(r)
    /\ req' = [req EXCEPT ![r] = Idle]
    /\ UNCHANGED <<disk, processVars>>
-----------------------------------------------------------------------------
(* The end.                                                                *)

\* The tasks of axum learn of the shutdown a few polls later.
Notice ==
    /\ phase = "draining" /\ ~drain.noticed
    /\ drain' = [drain EXCEPT !.noticed = TRUE]
    /\ UNCHANGED <<disk, phase, builder, runtime, server, reloader, pending, req>>

\* A unit of the grace passes.
Tick ==
    /\ phase = "draining" /\ drain.noticed /\ drain.left > 0
    /\ drain' = [drain EXCEPT !.left = @ - 1]
    /\ req' = [r \in Requests |-> IF Busy(r) THEN [req[r] EXCEPT !.waited = @ + 1] ELSE req[r]]
    /\ UNCHANGED <<disk, phase, builder, runtime, server, reloader, pending>>

\* Mutant: the end waits for the requests alone.
EndDrained ==
    /\ phase = "draining" /\ drain.noticed
    /\ \A r \in Requests : ~Busy(r)
    /\ phase' = "ended"
    /\ UNCHANGED <<disk, builder, runtime, server, reloader, pending, drain, req>>

\* Mutant: the process ends when axum has stopped to accept.
EndAtOnce ==
    /\ phase = "draining" /\ drain.noticed
    /\ phase' = "ended"
    /\ req' = [r \in Requests |-> Idle]
    /\ UNCHANGED <<disk, builder, runtime, server, reloader, pending, drain>>

\* No request is left, or the grace is over and those left are cut off
\* without a word.
End ==
    /\ phase = "draining"
    /\ (drain.noticed /\ \A r \in Requests : ~Busy(r)) \/ drain.left = 0
    /\ phase' = "ended"
    /\ req' = [r \in Requests |-> Idle]
    /\ UNCHANGED <<disk, builder, runtime, server, reloader, pending, drain>>

Next ==
    \/ Load
    \/ Validate
    \/ Build
    \/ BuildFails
    \/ BuildPanics
    \/ InstallReloader
    \/ Listen
    \/ StartFails
    \/ Hangup
    \/ Reload
    \/ Terminate
    \/ \E file \in Edits : Edit(file)
    \/ \E rotation \in Rotations : Rotate(rotation[1], rotation[2])
    \/ \E r \in Requests :
         \/ \E key \in Keys, model \in Models : Arrive(r, key, model)
         \/ Authenticate(r)
         \/ Resolve(r)
         \/ Leave(r)
    \/ Notice
    \/ Tick
    \/ End

Spec == Init /\ [][Next]_vars

Builder == [pc : {"idle", "signalled", "loaded", "validated"}, file : Files \union {Unreadable}]

\* One of the steps of building a runtime: the others leave it alone then.
Advance ==
    /\ Runs /\ builder.pc # "idle"
    /\ builder' \in Builder /\ builder' # builder

\* The process's own tasks and its timer run.  Nothing is assumed of signals,
\* administrators and clients, and a request may hang for ever.
Fairness ==
    /\ WF_builder(Advance)
    /\ WF_vars(Reload)
    /\ WF_vars(Notice)
    /\ WF_vars(Tick)
    /\ WF_vars(End)

FairSpec == Spec /\ Fairness
-----------------------------------------------------------------------------
(* Properties                                                              *)

\* The state has the shape the code gives it, and a request that is past
\* authentication has a client of the runtime it goes by.
TypeOK ==
    /\ disk \in [file : Files \union {Unreadable}, secret : [Secrets -> Values],
                 edits : 0..MaxEdits]
    /\ phase \in {"starting", "serving", "draining", "ended", "killed"}
    /\ builder \in Builder
    /\ builder.pc \in {"loaded", "validated"} => builder.file # Unreadable
    /\ runtime \in Runtime
    /\ phase \in {"serving", "draining"} => runtime # NoRuntime
    /\ reloader \in {"none", "running", "dead"}
    /\ pending \in BOOLEAN
    /\ drain \in [noticed : BOOLEAN, left : 0..Grace]
    /\ req \in [Requests -> {Idle} \union Request]
    /\ \A r \in Requests : req[r].pc \in {"authenticated", "admitted"} =>
         req[r].client \in DOMAIN req[r].runtime.keys

\* What the router needs: attempts, and targets whose providers exist, each
\* under one id, and one of which the draw can pick (routing.rs:263).
RoutesUsable(config) ==
    /\ config.attempts > 0
    /\ UniqueIds(config.providers)
    /\ \A i \in DOMAIN config.routes :
         /\ config.routes[i].targets # <<>>
         /\ \A k \in DOMAIN config.routes[i].targets :
              /\ config.routes[i].targets[k].provider \in Ids(config.providers)
              /\ config.routes[i].targets[k].weight > 0

\* What admission needs: permits and slots to give, within what a semaphore
\* can hold, and routes that clients may use.
LimitsUsable(config) ==
    /\ config.concurrency \in 1..MaxPermits
    /\ \A i \in DOMAIN config.clients :
         /\ config.clients[i].concurrent > 0 /\ config.clients[i].perMinute > 0
         /\ config.clients[i].allowed \subseteq Ids(config.routes)

\* README.md:31 "SIGHUP builds and validates a complete replacement runtime
\* ... before swapping it in", and "Listener and body-limit settings are
\* immutable": whatever is edited or rotated between the looks that are taken
\* at it, the runtime is one that router and admission can work with, no key
\* in its registry is short, and its server section is the listener's.
RuntimeSound ==
    runtime # NoRuntime =>
        /\ RoutesUsable(Config[runtime.file])
        /\ LimitsUsable(Config[runtime.file])
        /\ \A i \in DOMAIN runtime.keys : runtime.keys[i] \in Keys
        /\ Config[runtime.file].server = server

\* README.md:31 "In-flight requests retain the old runtime": a request is
\* admitted to the only route that matches in the runtime in which its key was
\* found, by what that runtime allows its client, however many reloads came
\* between the two.
AdmittedByOneRuntime ==
    \A r \in Requests : req[r].pc = "admitted" =>
        LET config == Config[req[r].runtime.file]
        IN  /\ req[r].runtime.keys[req[r].client] = req[r].key
            /\ Matching(config, req[r].model) = {req[r].route}
            /\ Allows(config.clients[req[r].client], config.routes[req[r].route])

\* README.md:33 "lets Axum drain active requests": a shutdown cuts off no
\* request before it has had all of the grace.
GraceHonoured ==
    [][phase = "draining" /\ phase' = "ended" =>
         \A r \in Requests : Busy(r) => req[r].waited = Grace]_vars

\* Requests that hang do not keep the process from ending.
ProcessEnds == phase = "draining" ~> ~Runs

Acceptable ==
    /\ disk.file # Unreadable
    /\ Valid(Config[disk.file], disk.secret)
    /\ Buildable(disk.file, disk.secret)
    /\ Config[disk.file].server = server
    /\ ~Panics(Config[disk.file])

InForce ==
    /\ runtime # NoRuntime
    /\ runtime.file = disk.file
    /\ runtime.keys = Registry(Config[disk.file], disk.secret)

\* A SIGHUP is never lost: what is on the disk then is in force later, unless
\* it is not acceptable or is changed again, also when the signal comes in
\* the middle of another reload.
ReloadTakesEffect ==
    \A n \in 0..MaxEdits :
        pending /\ disk.edits = n /\ Acceptable
          ~> InForce \/ disk.edits # n \/ ~Runs \/ reloader = "dead"
=============================================================================
