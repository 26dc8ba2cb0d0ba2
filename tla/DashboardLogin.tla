--------------------------- MODULE DashboardLogin ---------------------------
(***************************************************************************)
(* Who may log in to the dashboard (login_handler in src/src/dashboard.rs):*)
(* "admin" with the secret the process was started with, or any user of    *)
(* the table admin_users with the password stored there.  A migration and  *)
(* the start of the process both see to it that the table has an "admin".  *)
(*                                                                         *)
(* A stored hash is kept as the password it was made from.                 *)
(***************************************************************************)
CONSTANTS
    AdminSecrets,  \* the secrets the process may be started with; "" by default
    Placeholder    \* the hash in migration 2, which is the hash of nothing

ASSUME LoginAssumption == Placeholder \notin AdminSecrets

VARIABLES
    secret,  \* DashboardState.admin_secret of the process
    users    \* admin_users: the hash of each name

loginVars == <<secret, users>>

LoginInit ==
    /\ secret \in AdminSecrets
    /\ users = [name \in {} |-> Placeholder]

\* Mutant: the migration creates the table and leaves it empty.
MigrateTableOnly == UNCHANGED loginVars

\* Migration 2: INSERT OR IGNORE, when it is applied for the first time.
Migrate ==
    /\ users' = IF "admin" \in DOMAIN users THEN users ELSE [name \in {"admin"} |-> Placeholder]
    /\ UNCHANGED secret

\* create_initial_admin_user
CreateInitialAdmin ==
    /\ users' = IF "admin" \in DOMAIN users THEN users ELSE [name \in {"admin"} |-> secret]
    /\ UNCHANGED secret

\* login_handler
LogsIn(name, password) ==
    /\ name # "" /\ password # ""
    /\ \/ name = "admin" /\ password = secret
       \/ name \in DOMAIN users /\ users[name] = password
-----------------------------------------------------------------------------
(* Properties                                                              *)

\* The state has the shape the code gives it.
LoginTypeOK ==
    /\ secret \in AdminSecrets
    /\ DOMAIN users \subseteq {"admin"}
    /\ \A name \in DOMAIN users : users[name] \in AdminSecrets \union {Placeholder}

\* The administrator logs in with the secret of this process and no other,
\* or not at all if it was given none: a secret that an earlier process was
\* started with is not remembered in the database, although both the
\* migration and the start write there.
CurrentSecretOnly ==
    \A password \in AdminSecrets :
        LogsIn("admin", password) <=> password = secret /\ password # ""
=============================================================================
