--------------------------- MODULE ConfigVersions ---------------------------
(***************************************************************************)
(* The history of configurations that the dashboard keeps in the table     *)
(* config_versions (src/src/dashboard.rs): administrators store a new      *)
(* configuration or bring an old one back.  Both read MAX(version) in one  *)
(* statement and insert the next number in another, without a transaction, *)
(* and the column is not UNIQUE.                                           *)
(*                                                                         *)
(* The rows are kept in the order of their ids.  A version is read by a    *)
(* query without an order, so that of two rows with the same version       *)
(* either may be returned.  Dashboard composes this with the rest of the   *)
(* process: requests are served only after CreateSampleConfig.             *)
(***************************************************************************)
EXTENDS Integers, Sequences, FiniteSetsExt

CONSTANTS
    Admins,      \* requests to the dashboard that run at the same time
    Configs,     \* valid configurations an administrator may submit
    SampleConfig,\* the configuration the process starts a new table with
    ReadsFail,   \* whether reading MAX(version) may fail
    MaxRows      \* bound: requests arrive while the table has fewer rows

ASSUME VersionsAssumption ==
    /\ SampleConfig \notin Configs
    /\ ReadsFail \in BOOLEAN
    /\ MaxRows \in Nat

VARIABLES
    rows,   \* config_versions
    admin   \* what each request is doing

versionVars == <<rows, admin>>

Idle == [pc |-> "idle"]

Row == [version : Nat \ {0}, data : Configs \union {SampleConfig}]

\* data is what will be stored, found the version the request goes by.
Request == [pc : {"reading", "inserting"}, data : Configs \union {SampleConfig}, found : Nat]

Versions == {rows[i].version : i \in 1..Len(rows)}

VersionsInit ==
    /\ rows = <<>>
    /\ admin = [a \in Admins |-> Idle]

\* create_sample_config, at every start.
CreateSampleConfig ==
    /\ rows' = IF rows = <<>> THEN << [version |-> 1, data |-> SampleConfig] >> ELSE rows
    /\ UNCHANGED admin

\* update_config; an invalid configuration is refused and changes nothing.
Submit(a, config) ==
    /\ admin[a].pc = "idle"
    /\ Len(rows) < MaxRows
    /\ admin' = [admin EXCEPT ![a] = [pc |-> "reading", data |-> config, found |-> 0]]
    /\ UNCHANGED rows

\* revert_version looks up the configuration to bring back.
Revert(a, version) ==
    /\ admin[a].pc = "idle"
    /\ Len(rows) < MaxRows
    /\ \E i \in 1..Len(rows) :
         /\ rows[i].version = version
         /\ admin' = [admin EXCEPT ![a] = [pc |-> "reading", data |-> rows[i].data, found |-> 0]]
    /\ UNCHANGED rows

\* SELECT COALESCE(MAX(version), 0); an error counts as 0.
ReadVersion(a) ==
    /\ admin[a].pc = "reading"
    /\ \E found \in {Max({0} \union Versions)} \union (IF ReadsFail THEN {0} ELSE {}) :
         admin' = [admin EXCEPT ![a].pc = "inserting", ![a].found = found]
    /\ UNCHANGED rows

\* Mutant: the number is used that was read, not the next.
InsertSame(a) ==
    /\ admin[a].pc = "inserting"
    /\ rows' = Append(rows, [version |-> admin[a].found, data |-> admin[a].data])
    /\ admin' = [admin EXCEPT ![a] = Idle]

\* Mutant: a number is skipped.
InsertSkipping(a) ==
    /\ admin[a].pc = "inserting"
    /\ rows' = Append(rows, [version |-> admin[a].found + 2, data |-> admin[a].data])
    /\ admin' = [admin EXCEPT ![a] = Idle]

\* Mutant: a version that exists already is overwritten.
InsertOrReplace(a) ==
    LET row == [version |-> admin[a].found + 1, data |-> admin[a].data]
    IN  /\ admin[a].pc = "inserting"
        /\ rows' = IF row.version \in Versions
                   THEN [i \in 1..Len(rows) |->
                           IF rows[i].version = row.version THEN row ELSE rows[i]]
                   ELSE Append(rows, row)
        /\ admin' = [admin EXCEPT ![a] = Idle]

Insert(a) ==
    /\ admin[a].pc = "inserting"
    /\ rows' = Append(rows, [version |-> admin[a].found + 1, data |-> admin[a].data])
    /\ admin' = [admin EXCEPT ![a] = Idle]

\* The request ends without its insert: the database refuses it, or its
\* client goes away.
Abandon(a) ==
    /\ admin[a].pc # "idle"
    /\ admin' = [admin EXCEPT ![a] = Idle]
    /\ UNCHANGED rows

\* Requests do not survive the process.
AbandonAll ==
    /\ admin' = [a \in Admins |-> Idle]
    /\ UNCHANGED rows

\* What the requests that are served do.
VersionsNext ==
    \E a \in Admins :
        \/ \E config \in Configs : Submit(a, config)
        \/ \E version \in 1..(MaxRows + 1) : Revert(a, version)
        \/ ReadVersion(a)
        \/ Insert(a)
        \/ Abandon(a)
-----------------------------------------------------------------------------
(* Properties                                                              *)

\* The state has the shape the code gives it, and a request never goes by a
\* number beyond those in the table.
VersionsTypeOK ==
    /\ rows \in Seq(Row)
    /\ admin \in [Admins -> {Idle} \union Request]
    /\ \A a \in Admins : admin[a].pc = "inserting" => admin[a].found \in {0} \union Versions

\* Whatever requests overlap, are abandoned, read nothing or are cut off by a
\* restart, no version is skipped: every number up to the largest can be
\* looked up and reverted to.
NoVersionSkipped == Versions = 1..Max({0} \union Versions)

\* A configuration once stored stays as it was stored, also when it is
\* reverted or the process is started again: history only grows, at its end.
HistoryKept ==
    [][Len(rows') >= Len(rows) /\ \A i \in 1..Len(rows) : rows'[i] = rows[i]]_rows

\* What get_config returns: a row with the largest version.
Latest == {i \in 1..Len(rows) : rows[i].version = Max(Versions)}

\* dashboard.rs:626 "Retrieve the latest configuration from database": the
\* row with the largest version is the one stored last.
LatestIsNewest == rows # <<>> => Latest = {Len(rows)}
=============================================================================
