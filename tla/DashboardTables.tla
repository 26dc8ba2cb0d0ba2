-------------------------- MODULE DashboardTables --------------------------
(***************************************************************************)
(* The dashboard's tables of clients, providers, routes and route targets  *)
(* (src/src/dashboard.rs and src/migrations/0001_initial_schema.sql): the  *)
(* sample rows a starting process puts into empty tables, one statement    *)
(* after the other and without a transaction, the statements of the        *)
(* administrators, and crashes between any two of them.                    *)
(*                                                                         *)
(* Of a row only its key is kept and whether it is as the start put it     *)
(* there or as an administrator gave it.  A statement is one step; it      *)
(* fails when it violates a constraint of the schema, and then changes     *)
(* nothing.                                                                *)
(***************************************************************************)
EXTENDS Integers, FiniteSets

CONSTANTS
    Ids,           \* the ids administrators use
    SampleClient,  \* "engineering"
    SampleProvider,\* "openai"
    SampleRoute,   \* "sonnet"
    PathsAccepted, \* whether axum takes the paths of the dashboard's routes
    MaxCrashes     \* bound: how often the process is ended

ASSUME SampleAssumption ==
    /\ {SampleClient, SampleProvider, SampleRoute} \subseteq Ids
    /\ PathsAccepted \subseteq BOOLEAN
    /\ MaxCrashes \in Nat

VARIABLES
    pc,       \* the next statement of the process, "serving" or "down"
    crashes,  \* how often it has been ended
    table,    \* the rows of clients, providers and routes, by their ids
    targets   \* route_targets: the routes they belong to

tableVars == <<pc, crashes, table, targets>>

Tables == {"clients", "providers", "routes"}

\* The columns a row must be given: NOT NULL without a default.
Required == [clients   |-> {"client_id", "key_hash", "key_salt", "allowed_routes",
                            "requests_per_minute", "concurrent_requests"},
             providers |-> {"provider_id", "kind", "endpoint", "credential_type",
                            "credential_secret_ref", "headers", "capability_profile"},
             routes    |-> {"route_id", "models"}]

\* The columns that the INSERTs of the create_ handlers give.
Bound == [clients   |-> {"client_id", "allowed_routes", "requests_per_minute",
                         "concurrent_requests"},
          providers |-> {"provider_id", "kind", "endpoint", "capability_profile",
                         "allow_insecure_http"},
          routes    |-> {"route_id", "models"}]

Sample == [clients |-> SampleClient, providers |-> SampleProvider, routes |-> SampleRoute]

Empty == [id \in {} |-> "sample"]

Stored(rows, id, content) ==
    [other \in DOMAIN rows \union {id} |-> IF other = id THEN content ELSE rows[other]]

TablesInit ==
    /\ pc = "down"
    /\ crashes = 0
    /\ table = [t \in Tables |-> Empty]
    /\ targets = {}
-----------------------------------------------------------------------------
(* The process: it starts, fills empty tables, and serves until it ends.   *)

Boot ==
    /\ pc = "down"
    /\ pc' = "migrations"
    /\ UNCHANGED <<crashes, table, targets>>

\* A statement of the start that is about another table.
Onward(stage, next) ==
    /\ pc = stage
    /\ pc' = next
    /\ UNCHANGED <<crashes, table, targets>>

\* Mutant: the sample row is inserted without looking for others, and ends
\* the process when it is there already.
SeedAlways(t, next) ==
    /\ pc = t
    /\ \/ pc' = "down" /\ Sample[t] \in DOMAIN table[t] /\ UNCHANGED table
       \/ /\ pc' = next /\ Sample[t] \notin DOMAIN table[t]
          /\ table' = [table EXCEPT ![t] = Stored(@, Sample[t], "sample")]
    /\ UNCHANGED <<crashes, targets>>

\* Mutant: INSERT OR REPLACE, without looking for other rows.
SeedReplacing(t, next) ==
    /\ pc = t
    /\ pc' = next
    /\ table' = [table EXCEPT ![t] = Stored(@, Sample[t], "sample")]
    /\ UNCHANGED <<crashes, targets>>

\* create_sample_client, create_sample_provider and the first INSERT of
\* create_sample_route.
Seed(t, next) ==
    /\ pc = t
    /\ \/ /\ table[t] # Empty
          /\ pc' = IF t = "routes" THEN "router" ELSE next
          /\ UNCHANGED table
       \/ /\ table[t] = Empty
          /\ pc' = next
          /\ table' = [table EXCEPT ![t] = Stored(@, Sample[t], "sample")]
    /\ UNCHANGED <<crashes, targets>>

\* The second INSERT of create_sample_route.
SeedTarget ==
    /\ pc = "target"
    /\ pc' = "router"
    /\ targets' = targets \union {SampleRoute}
    /\ UNCHANGED <<crashes, table>>

\* build_dashboard_routes, and the listener after it.  A path that axum does
\* not take is a panic, which ends the process; "/:id" is one for axum 0.8.
BuildRouter ==
    /\ pc = "router"
    /\ \E accepted \in PathsAccepted : pc' = IF accepted THEN "serving" ELSE "down"
    /\ UNCHANGED <<crashes, table, targets>>

\* The process ends, by a crash or in good order.
Stop ==
    /\ pc # "down"
    /\ crashes < MaxCrashes
    /\ crashes' = crashes + 1
    /\ pc' = "down"
    /\ UNCHANGED <<table, targets>>
-----------------------------------------------------------------------------
(* The administrators.                                                     *)

\* Whether the INSERT of a create_ handler succeeds.
Insertable(t, id) == id \notin DOMAIN table[t] /\ Required[t] \subseteq Bound[t]

\* create_client, create_provider, create_route; a route's targets are not
\* stored.
Create(t, id) ==
    /\ pc = "serving"
    /\ Insertable(t, id)
    /\ table' = [table EXCEPT ![t] = Stored(@, id, "given")]
    /\ UNCHANGED <<pc, crashes, targets>>

\* update_client, update_provider, update_route: never the id.
Update(t, id) ==
    /\ pc = "serving"
    /\ id \in DOMAIN table[t]
    /\ table' = [table EXCEPT ![t] = Stored(@, id, "given")]
    /\ UNCHANGED <<pc, crashes, targets>>

Without(rows, id) == [other \in DOMAIN rows \ {id} |-> rows[other]]

\* Mutant: the targets of a route are left behind.
DeleteOnly(t, id) ==
    /\ pc = "serving"
    /\ table' = [table EXCEPT ![t] = Without(@, id)]
    /\ UNCHANGED <<pc, crashes, targets>>

\* delete_client, delete_provider, delete_route: ON DELETE CASCADE takes the
\* targets of a route, but a target goes by the id of its route alone: that
\* its provider is deleted does not matter.
Delete(t, id) ==
    /\ pc = "serving"
    /\ table' = [table EXCEPT ![t] = Without(@, id)]
    /\ targets' = IF t = "routes" THEN targets \ {id} ELSE targets
    /\ UNCHANGED <<pc, crashes>>

TablesNext == \E t \in Tables, id \in Ids : Create(t, id) \/ Update(t, id) \/ Delete(t, id)
-----------------------------------------------------------------------------
(* Properties                                                              *)

\* The state has the shape the code gives it, and the target of the sample
\* route is inserted only after a route it can refer to.
TablesTypeOK ==
    /\ pc \in Tables \union 
              {"migrations", "admins", "configs", "target", "router", "serving", "down"}
    /\ crashes \in 0..MaxCrashes
    /\ DOMAIN table = Tables
    /\ \A t \in Tables :
         /\ DOMAIN table[t] \subseteq Ids
         /\ \A id \in DOMAIN table[t] : table[t][id] \in {"sample", "given"}
    /\ targets \subseteq Ids
    /\ pc = "target" => SampleRoute \in DOMAIN table["routes"]

\* No target outlives its route, whatever is deleted, created again under the
\* same id, or cut off by a crash.
NoOrphanTargets == targets \subseteq DOMAIN table["routes"]

\* A start leaves what administrators have stored as it is, also after a
\* start that was cut off between two statements.
StartKeepsRows ==
    [][pc # "serving" =>
         \A t \in Tables : \A id \in DOMAIN table[t] :
             id \in DOMAIN table'[t] /\ table'[t][id] = table[t][id]]_table

\* Wherever a start was cut off, what it left in the tables does not stop a
\* later one from getting through all of its statements (main.rs:124-132), as
\* far as the building of the router.  It says nothing of what comes then: with
\* the axum of Cargo.lock that is a panic.
SeedingGetsThrough == pc = "down" ~> pc = "router"

\* dashboard.rs:698 and 795 "Create a new client", "Create a new provider":
\* this fails only when the id is taken.  Both INSERTs leave out columns
\* that the schema requires.
CreateFailsOnlyIfTaken ==
    pc = "serving" =>
        \A t \in Tables, id \in Ids : id \in DOMAIN table[t] \/ ENABLED Create(t, id)
=============================================================================
