----------------------------- MODULE Dashboard -----------------------------
(***************************************************************************)
(* The dashboard as one process over one database: what its start does in  *)
(* the order of serve (src/src/main.rs), the requests it serves after that *)
(* against the history of configurations and the other tables, and the end *)
(* of the process at any step, after which it is started again, perhaps    *)
(* with another secret.                                                    *)
(***************************************************************************)
EXTENDS ConfigVersions, DashboardTables, DashboardLogin

vars == <<tableVars, versionVars, loginVars>>

Init == TablesInit /\ VersionsInit /\ LoginInit
-----------------------------------------------------------------------------
(* The start.                                                              *)

\* serve is called, with the secret that is set then.
StartProcess ==
    /\ Boot
    /\ secret' \in AdminSecrets
    /\ UNCHANGED <<users, versionVars>>

\* initialize_database
RunMigrations == Onward("migrations", "admins") /\ Migrate /\ UNCHANGED versionVars

SeedAdmin == Onward("admins", "configs") /\ CreateInitialAdmin /\ UNCHANGED versionVars

SeedConfig == Onward("configs", "clients") /\ CreateSampleConfig /\ UNCHANGED loginVars

SeedTables ==
    /\ \/ Seed("clients", "providers")
       \/ Seed("providers", "routes")
       \/ Seed("routes", "target")
       \/ SeedTarget
    /\ UNCHANGED <<versionVars, loginVars>>

\* After the tables: the routes, and the listener.
Listen == BuildRouter /\ UNCHANGED <<versionVars, loginVars>>

Start == RunMigrations \/ SeedAdmin \/ SeedConfig \/ SeedTables \/ Listen
-----------------------------------------------------------------------------
(* The requests, and the end.                                              *)

ServeVersions == pc = "serving" /\ VersionsNext /\ UNCHANGED <<tableVars, loginVars>>

ServeTables == TablesNext /\ UNCHANGED <<versionVars, loginVars>>

StopProcess == Stop /\ AbandonAll /\ UNCHANGED loginVars

Next == StartProcess \/ Start \/ ServeVersions \/ ServeTables \/ StopProcess

Spec == Init /\ [][Next]_vars

\* The process is started again when it is down, and runs through serve.
Fairness == WF_vars(StartProcess) /\ WF_vars(Start)

FairSpec == Spec /\ Fairness
-----------------------------------------------------------------------------
(* Properties                                                              *)

\* The state has the shape the code gives it; no request is under way in a
\* process that does not serve.
TypeOK ==
    /\ TablesTypeOK /\ VersionsTypeOK /\ LoginTypeOK
    /\ pc # "serving" => \A a \in Admins : admin[a].pc = "idle"
=============================================================================
