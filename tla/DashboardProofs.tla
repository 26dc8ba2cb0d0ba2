--------------------------- MODULE DashboardProofs ---------------------------
(***************************************************************************)
(* What a dashboard promises across any number of restarts, administrators *)
(* and configurations: an inductive invariant of Dashboard, and what       *)
(* follows from it.                                                        *)
(***************************************************************************)
EXTENDS Dashboard, SequenceTheorems, TLAPS

\* The versions have no gap; n is the largest of them.
Gapless == \E n \in Nat : Versions = 1..n

\* From the migrations on the table has its placeholder and nothing else.
PlaceholderOnly ==
    /\ pc \notin {"down", "migrations"} => "admin" \in DOMAIN users
    /\ \A name \in DOMAIN users : users[name] = Placeholder

DashboardInv == TypeOK /\ NoOrphanTargets /\ Gapless /\ PlaceholderOnly
-----------------------------------------------------------------------------
(* The history.                                                            *)

\* The largest of the numbers up to n, and of none, is n.
LEMMA MaxUpTo ==
    ASSUME NEW n \in Nat
    PROVE  Max({0} \union 1..n) = n
<1>1. n \in {0} \union 1..n /\ \A y \in {0} \union 1..n : n >= y
  OBVIOUS
<1>2. \A x \in {0} \union 1..n :
        (\A y \in {0} \union 1..n : x >= y) => x = n
  BY <1>1
<1> QED
  BY <1>1, <1>2 DEF Max

\* The versions after a row is added.
LEMMA VersionsOfAppend ==
    ASSUME rows \in Seq(Row), NEW row \in Row, rows' = Append(rows, row)
    PROVE  Versions' = Versions \union {row.version}
<1>1. /\ Len(rows') = Len(rows) + 1
      /\ rows'[Len(rows) + 1] = row
      /\ \A i \in 1..Len(rows) : rows'[i] = rows[i]
      /\ Len(rows) \in Nat
  OBVIOUS
<1>2. 1..Len(rows') = 1..Len(rows) \union {Len(rows) + 1}
  BY <1>1
<1> QED
  BY <1>1, <1>2 DEF Versions

\* Whatever number a request goes by, the row it inserts leaves no gap.
LEMMA InsertKeepsGapless ==
    ASSUME VersionsTypeOK, Gapless, NEW a \in Admins, Insert(a)
    PROVE  Gapless'
<1> DEFINE row == [version |-> admin[a].found + 1, data |-> admin[a].data]
<1>1. admin[a] \in Request /\ admin[a].found \in {0} \union Versions
  BY DEF Insert, VersionsTypeOK, Idle
<1>2. row \in Row
  BY <1>1 DEF Request, Row
<1>3. Versions' = Versions \union {row.version}
  BY <1>2, VersionsOfAppend DEF Insert, VersionsTypeOK
<1>4. PICK n \in Nat : Versions = 1..n
  BY DEF Gapless
<1>5. CASE row.version \in 1..n
  BY <1>3, <1>4, <1>5 DEF Gapless
<1>6. CASE row.version = n + 1
  <2>1. Versions' = 1..(n + 1)
    BY <1>3, <1>4, <1>6
  <2> QED
    BY <2>1 DEF Gapless
<1> QED
  BY <1>1, <1>4, <1>5, <1>6

\* The numbers that requests go by are those of rows, whatever they do.
LEMMA VersionsTypeKept ==
    ASSUME VersionsTypeOK, Gapless, VersionsNext
    PROVE  VersionsTypeOK' /\ Gapless'
<1> USE DEF VersionsTypeOK
<1>1. PICK a \in Admins :
        \/ \E config \in Configs : Submit(a, config)
        \/ \E version \in 1..(MaxRows + 1) : Revert(a, version)
        \/ ReadVersion(a)
        \/ Insert(a)
        \/ Abandon(a)
  BY DEF VersionsNext
<1>2. CASE rows' = rows
  <2>1. Versions' = Versions
    BY <1>2 DEF Versions
  <2>2. Gapless'
    BY <2>1 DEF Gapless
  <2>3. PICK n \in Nat : Versions = 1..n
    BY DEF Gapless
  <2>4. CASE \E config \in Configs : Submit(a, config)
    BY <1>2, <2>1, <2>2, <2>4 DEF Submit, Idle, Request
  <2>5. CASE \E version \in 1..(MaxRows + 1) : Revert(a, version)
    <3>1. PICK i \in 1..Len(rows) :
            admin' = [admin EXCEPT ![a] =
                        [pc |-> "reading", data |-> rows[i].data, found |-> 0]]
      BY <2>5 DEF Revert
    <3>2. rows[i] \in Row
      OBVIOUS
    <3>3. [pc |-> "reading", data |-> rows[i].data, found |-> 0] \in Request
      BY <3>2 DEF Row, Request
    <3> QED
      BY <1>2, <2>1, <2>2, <3>1, <3>3
  <2>6. CASE ReadVersion(a)
    <3>1. PICK found \in {Max({0} \union Versions), 0} :
            admin' = [admin EXCEPT ![a].pc = "inserting", ![a].found = found]
      BY <2>6 DEF ReadVersion
    <3>2. found \in {0} \union Versions /\ found \in Nat
      BY <3>1, <2>3, MaxUpTo
    <3>3. admin[a] \in Request
      BY <2>6 DEF ReadVersion, Idle
    <3>4. admin'[a] \in Request /\ admin'[a].found = found
      BY <3>1, <3>2, <3>3 DEF Request
    <3>5. \A b \in Admins \ {a} : admin'[b] = admin[b]
      BY <3>1
    <3>6. admin' \in [Admins -> {Idle} \union Request]
      BY <3>1, <3>4, <3>5
    <3> QED
      BY <1>2, <2>1, <2>2, <3>2, <3>4, <3>5, <3>6
  <2>7. CASE Abandon(a)
    BY <1>2, <2>1, <2>2, <2>7 DEF Abandon, Idle
  <2>8. CASE Insert(a)
    BY <1>2, <2>1, <2>2, <2>8 DEF Insert, Idle
  <2> QED
    BY <1>1, <2>4, <2>5, <2>6, <2>7, <2>8
<1>3. CASE Insert(a)
  <2> DEFINE row == [version |-> admin[a].found + 1, data |-> admin[a].data]
  <2>1. row \in Row
    <3>1. admin[a] \in Request
      BY <1>3 DEF Insert, Idle
    <3> QED
      BY <3>1 DEF Request, Row
  <2>2. rows' \in Seq(Row) /\ Versions' = Versions \union {row.version}
    BY <1>3, <2>1, VersionsOfAppend DEF Insert
  <2>3. admin' = [admin EXCEPT ![a] = Idle]
    BY <1>3 DEF Insert
  <2>4. VersionsTypeOK'
    BY <2>2, <2>3 DEF Idle
  <2> QED
    BY <1>3, <2>4, InsertKeepsGapless
<1> QED
  BY <1>1, <1>2, <1>3 DEF Submit, Revert, ReadVersion, Abandon

\* The sample is the first version, if there is none.
LEMMA SampleKeepsGapless ==
    ASSUME VersionsTypeOK, Gapless, CreateSampleConfig
    PROVE  VersionsTypeOK' /\ Gapless'
<1> USE DEF VersionsTypeOK
<1>1. CASE rows # <<>>
  BY <1>1 DEF CreateSampleConfig, Gapless, Versions
<1>2. CASE rows = <<>>
  <2> DEFINE row == [version |-> 1, data |-> SampleConfig]
  <2>1. row \in Row
    BY DEF Row
  <2>2. rows' = << row >> /\ admin' = admin
    BY <1>2 DEF CreateSampleConfig
  <2>3. rows' \in Seq(Row) /\ Len(rows') = 1 /\ rows'[1] = row
    BY <2>1, <2>2
  <2>4. Versions' = {1} /\ Versions = {}
    BY <1>2, <2>3 DEF Versions
  <2>5. Versions' = 1..1
    BY <2>4
  <2>6. Gapless'
    BY <2>5 DEF Gapless
  <2> QED
    BY <2>2, <2>3, <2>4, <2>6
<1> QED
  BY <1>1, <1>2

\* What the end of the process leaves of the requests.
LEMMA AbandonAllKeepsTypes ==
    ASSUME VersionsTypeOK, Gapless, AbandonAll
    PROVE  /\ VersionsTypeOK' /\ Gapless'
           /\ \A a \in Admins : admin'[a].pc = "idle"
BY DEF VersionsTypeOK, Gapless, AbandonAll, Versions, Idle
-----------------------------------------------------------------------------
(* The tables and the login.                                               *)

\* The administrators keep the rows well-formed and no target without its route.
LEMMA TablesNextKeeps ==
    ASSUME TablesTypeOK, NoOrphanTargets, TablesNext
    PROVE  TablesTypeOK' /\ NoOrphanTargets'
<1> USE DEF TablesTypeOK, NoOrphanTargets, Tables
<1>1. PICK t \in Tables, id \in Ids : Create(t, id) \/ Update(t, id) \/ Delete(t, id)
  BY DEF TablesNext
<1>2. CASE Create(t, id) \/ Update(t, id)
  <2>1. /\ pc = "serving" /\ pc' = pc /\ crashes' = crashes /\ targets' = targets
        /\ table' = [table EXCEPT ![t] = Stored(@, id, "given")]
    BY <1>2 DEF Create, Update
  <2>2. \A u \in Tables : u # t => table'[u] = table[u]
    BY <2>1
  <2>3. table'[t] = Stored(table[t], id, "given")
    BY <1>1, <2>1
  <2> QED
    BY <1>1, <2>1, <2>2, <2>3 DEF Stored
<1>3. CASE Delete(t, id)
  <2>1. /\ pc = "serving" /\ pc' = pc /\ crashes' = crashes
        /\ table' = [table EXCEPT ![t] = Without(@, id)]
        /\ targets' = IF t = "routes" THEN targets \ {id} ELSE targets
    BY <1>3 DEF Delete
  <2>2. \A u \in Tables : u # t => table'[u] = table[u]
    BY <2>1
  <2>3. table'[t] = Without(table[t], id)
    BY <1>1, <2>1
  <2> QED
    BY <1>1, <2>1, <2>2, <2>3 DEF Without
<1> QED
  BY <1>1, <1>2, <1>3

\* So does the start.
LEMMA SeedKeeps ==
    ASSUME TablesTypeOK, NoOrphanTargets, NEW t \in Tables, NEW next,
           Seed(t, next),
           t = "clients" => next = "providers",
           t = "providers" => next = "routes",
           t = "routes" => next = "target"
    PROVE  TablesTypeOK' /\ NoOrphanTargets'
<1> USE DEF TablesTypeOK, NoOrphanTargets, Tables
<1>1. CASE table[t] # Empty
  BY <1>1 DEF Seed
<1>2. CASE table[t] = Empty
  <2>1. /\ pc = t /\ pc' = next /\ crashes' = crashes /\ targets' = targets
        /\ table' = [table EXCEPT ![t] = Stored(@, Sample[t], "sample")]
    BY <1>2 DEF Seed
  <2>2. \A u \in Tables : u # t => table'[u] = table[u]
    BY <2>1
  <2>3. table'[t] = Stored(table[t], Sample[t], "sample")
    BY <2>1
  <2>4. Sample[t] \in Ids
    BY SampleAssumption DEF Sample
  <2>5. next = "target" => Sample[t] = SampleRoute
    BY DEF Sample
  <2> QED
    BY <2>1, <2>2, <2>3, <2>4, <2>5 DEF Stored
<1> QED
  BY <1>1, <1>2

\* Filling the tables leaves no target without its route.
LEMMA SeedTablesKeeps ==
    ASSUME TablesTypeOK, NoOrphanTargets, SeedTables
    PROVE  TablesTypeOK' /\ NoOrphanTargets'
<1>1. CASE SeedTarget
  BY <1>1, SampleAssumption DEF SeedTarget, TablesTypeOK, NoOrphanTargets, Tables
<1>2. CASE Seed("clients", "providers")
  BY <1>2, SeedKeeps DEF Tables
<1>3. CASE Seed("providers", "routes")
  BY <1>3, SeedKeeps DEF Tables
<1>4. CASE Seed("routes", "target")
  BY <1>4, SeedKeeps DEF Tables
<1> QED
  BY <1>1, <1>2, <1>3, <1>4 DEF SeedTables

\* A step of the start that is about something else, and the end of the process.
LEMMA OnwardKeeps ==
    ASSUME TablesTypeOK, NoOrphanTargets,
           \/ Boot
           \/ Onward("migrations", "admins")
           \/ Onward("admins", "configs")
           \/ Onward("configs", "clients")
           \/ BuildRouter
           \/ Stop
    PROVE  TablesTypeOK' /\ NoOrphanTargets'
BY SampleAssumption
   DEF TablesTypeOK, NoOrphanTargets, Tables, Boot, Onward, BuildRouter, Stop
-----------------------------------------------------------------------------
(* The whole.                                                              *)

\* Before the first start nothing is stored.
LEMMA InitDashboardInv == Init => DashboardInv
<1> SUFFICES ASSUME Init PROVE DashboardInv
  OBVIOUS
<1> USE DEF Init
<1>1. TablesTypeOK /\ NoOrphanTargets
  BY SampleAssumption DEF TablesInit, TablesTypeOK, NoOrphanTargets, Tables, Empty
<1>2. Versions = {}
  BY DEF VersionsInit, Versions
<1>3. VersionsTypeOK /\ \A a \in Admins : admin[a].pc = "idle"
  BY <1>2 DEF VersionsInit, VersionsTypeOK, Idle
<1>4. Gapless
  <2>1. Versions = 1..0
    BY <1>2
  <2> QED
    BY <2>1 DEF Gapless
<1>5. LoginTypeOK /\ PlaceholderOnly
  BY DEF LoginInit, LoginTypeOK, PlaceholderOnly, TablesInit
<1> QED
  BY <1>1, <1>3, <1>4, <1>5 DEF DashboardInv, TypeOK

\* Every step of any process, request or session keeps the invariant.
LEMMA NextDashboardInv == DashboardInv /\ [Next]_vars => DashboardInv'
<1> SUFFICES ASSUME DashboardInv, [Next]_vars PROVE DashboardInv'
  OBVIOUS
<1> USE DEF DashboardInv, TypeOK
<1>1. CASE UNCHANGED vars
  <2>1. UNCHANGED tableVars /\ UNCHANGED versionVars /\ UNCHANGED loginVars
    BY <1>1 DEF vars
  <2>2. TablesTypeOK' /\ NoOrphanTargets'
    BY <2>1 DEF tableVars, TablesTypeOK, NoOrphanTargets
  <2>3. VersionsTypeOK' /\ Gapless'
    BY <2>1 DEF versionVars, VersionsTypeOK, Versions, Gapless
  <2>4. LoginTypeOK' /\ PlaceholderOnly'
    BY <2>1 DEF tableVars, loginVars, LoginTypeOK, PlaceholderOnly
  <2> QED
    BY <2>1, <2>2, <2>3, <2>4 DEF tableVars, versionVars
<1>2. CASE StartProcess
  <2>1. TablesTypeOK' /\ NoOrphanTargets'
    BY <1>2, OnwardKeeps DEF StartProcess
  <2>2. LoginTypeOK' /\ PlaceholderOnly'
    BY <1>2 DEF StartProcess, Boot, LoginTypeOK, PlaceholderOnly
  <2>3. VersionsTypeOK' /\ Gapless' /\ admin' = admin
    BY <1>2 DEF StartProcess, versionVars, VersionsTypeOK, Gapless, Versions
  <2>4. pc = "down"
    BY <1>2 DEF StartProcess, Boot
  <2> QED
    BY <2>1, <2>2, <2>3, <2>4
<1>3. CASE RunMigrations \/ SeedAdmin
  <2>1. TablesTypeOK' /\ NoOrphanTargets'
    BY <1>3, OnwardKeeps DEF RunMigrations, SeedAdmin
  <2>2. LoginTypeOK' /\ PlaceholderOnly'
    BY <1>3 DEF RunMigrations, SeedAdmin, Onward, Migrate, CreateInitialAdmin,
                LoginTypeOK, PlaceholderOnly
  <2>3. VersionsTypeOK' /\ Gapless' /\ admin' = admin
    BY <1>3 DEF RunMigrations, SeedAdmin, versionVars, VersionsTypeOK, Gapless, Versions
  <2>4. pc # "serving"
    BY <1>3 DEF RunMigrations, SeedAdmin, Onward
  <2> QED
    BY <2>1, <2>2, <2>3, <2>4
<1>4. CASE SeedConfig
  <2>1. TablesTypeOK' /\ NoOrphanTargets'
    BY <1>4, OnwardKeeps DEF SeedConfig
  <2>2. LoginTypeOK' /\ PlaceholderOnly'
    BY <1>4 DEF SeedConfig, Onward, loginVars, LoginTypeOK, PlaceholderOnly
  <2>3. VersionsTypeOK' /\ Gapless' /\ admin' = admin
    BY <1>4, SampleKeepsGapless DEF SeedConfig, CreateSampleConfig
  <2>4. pc # "serving"
    BY <1>4 DEF SeedConfig, Onward
  <2> QED
    BY <2>1, <2>2, <2>3, <2>4
<1>5. CASE SeedTables
  <2>1. TablesTypeOK' /\ NoOrphanTargets'
    BY <1>5, SeedTablesKeeps
  <2>2. pc \notin {"down", "migrations", "serving"}
    BY <1>5 DEF SeedTables, Seed, SeedTarget
  <2>3. LoginTypeOK' /\ PlaceholderOnly'
    BY <1>5, <2>2 DEF SeedTables, loginVars, LoginTypeOK, PlaceholderOnly
  <2>4. VersionsTypeOK' /\ Gapless' /\ admin' = admin
    BY <1>5 DEF SeedTables, versionVars, VersionsTypeOK, Gapless, Versions
  <2> QED
    BY <2>1, <2>2, <2>3, <2>4
<1>6. CASE Listen
  <2>1. TablesTypeOK' /\ NoOrphanTargets'
    BY <1>6, OnwardKeeps DEF Listen
  <2>2. pc \notin {"down", "migrations", "serving"}
    BY <1>6 DEF Listen, BuildRouter
  <2>3. LoginTypeOK' /\ PlaceholderOnly'
    BY <1>6, <2>2 DEF Listen, loginVars, LoginTypeOK, PlaceholderOnly
  <2>4. VersionsTypeOK' /\ Gapless' /\ admin' = admin
    BY <1>6 DEF Listen, versionVars, VersionsTypeOK, Gapless, Versions
  <2> QED
    BY <2>1, <2>2, <2>3, <2>4
<1>7. CASE ServeVersions
  <2>1. VersionsTypeOK' /\ Gapless'
    BY <1>7, VersionsTypeKept DEF ServeVersions
  <2>2. pc = "serving" /\ UNCHANGED <<tableVars, loginVars>>
    BY <1>7 DEF ServeVersions
  <2>3. TablesTypeOK' /\ NoOrphanTargets' /\ LoginTypeOK' /\ PlaceholderOnly'
    BY <2>2 DEF tableVars, loginVars, TablesTypeOK, NoOrphanTargets, LoginTypeOK,
                PlaceholderOnly
  <2> QED
    BY <2>1, <2>2, <2>3 DEF tableVars
<1>8. CASE ServeTables
  <2>1. TablesTypeOK' /\ NoOrphanTargets'
    BY <1>8, TablesNextKeeps DEF ServeTables
  <2>2. pc' = pc
    BY <1>8 DEF ServeTables, TablesNext, Create, Update, Delete
  <2>3. /\ VersionsTypeOK' /\ Gapless' /\ admin' = admin
        /\ LoginTypeOK' /\ PlaceholderOnly'
    BY <1>8, <2>2 DEF ServeTables, versionVars, loginVars, VersionsTypeOK, Gapless,
                     Versions, LoginTypeOK, PlaceholderOnly
  <2> QED
    BY <2>1, <2>2, <2>3
<1>9. CASE StopProcess
  <2>1. TablesTypeOK' /\ NoOrphanTargets'
    BY <1>9, OnwardKeeps DEF StopProcess
  <2>2. LoginTypeOK' /\ PlaceholderOnly'
    BY <1>9 DEF StopProcess, Stop, loginVars, LoginTypeOK, PlaceholderOnly
  <2>3. VersionsTypeOK' /\ Gapless' /\ \A a \in Admins : admin'[a].pc = "idle"
    BY <1>9, AbandonAllKeepsTypes DEF StopProcess
  <2> QED
    BY <2>1, <2>2, <2>3
<1> QED
  BY <1>1, <1>2, <1>3, <1>4, <1>5, <1>6, <1>7, <1>8, <1>9 DEF Next, Start

\* The invariant holds in every state.
LEMMA DashboardInvariant == Spec => []DashboardInv
BY InitDashboardInv, NextDashboardInv, PTL DEF Spec

\* The state keeps its shape, and no request is under way in a process that
\* does not serve, for any number of restarts, administrators and rows.
THEOREM TypeInvariant == Spec => []TypeOK
<1>1. DashboardInv => TypeOK
  BY DEF DashboardInv
<1> QED
  BY <1>1, DashboardInvariant, PTL

\* No start and no request leaves a target without its route.
THEOREM NoOrphanTargetsInvariant == Spec => []NoOrphanTargets
<1>1. DashboardInv => NoOrphanTargets
  BY DEF DashboardInv
<1> QED
  BY <1>1, DashboardInvariant, PTL

\* Every version up to the largest is there, for any number of requests that
\* overlap, read nothing or are cut off.
THEOREM NoVersionSkippedInvariant == Spec => []NoVersionSkipped
<1>1. DashboardInv => NoVersionSkipped
  BY MaxUpTo DEF DashboardInv, Gapless, NoVersionSkipped
<1> QED
  BY <1>1, DashboardInvariant, PTL

\* Only the secret of the current process logs in, whatever the earlier ones
\* were started with.
THEOREM CurrentSecretOnlyInvariant == Spec => []CurrentSecretOnly
<1>1. DashboardInv => CurrentSecretOnly
  BY LoginAssumption DEF DashboardInv, PlaceholderOnly, CurrentSecretOnly, LogsIn
<1> QED
  BY <1>1, DashboardInvariant, PTL

\* A stored configuration is never changed or lost.
THEOREM HistoryKeptAlways == Spec => HistoryKept
<1> DEFINE Grows == Len(rows') >= Len(rows) /\ \A i \in 1..Len(rows) : rows'[i] = rows[i]
<1>1. DashboardInv /\ [Next]_vars => [Grows]_rows
  <2> SUFFICES ASSUME DashboardInv, Next, rows' # rows PROVE Grows
    BY DEF vars, versionVars
  <2>1. rows \in Seq(Row)
    BY DEF DashboardInv, TypeOK, VersionsTypeOK
  <2>2. CASE SeedConfig
    BY <2>1, <2>2 DEF SeedConfig, CreateSampleConfig
  <2>3. CASE ServeVersions
    <3>1. PICK a \in Admins : Insert(a)
      BY <2>3 DEF ServeVersions, VersionsNext, Submit, Revert, ReadVersion, Abandon
    <3>2. PICK row : rows' = Append(rows, row)
      BY <3>1 DEF Insert
    <3> QED
      BY <2>1, <3>2
  <2> QED
    BY <2>2, <2>3 DEF Next, Start, StartProcess, RunMigrations, SeedAdmin, SeedTables,
                      Listen, ServeTables, StopProcess, AbandonAll, versionVars
<1> QED
  BY <1>1, DashboardInvariant, PTL DEF Spec, HistoryKept

\* No start touches a row that is there.
THEOREM StartKeepsRowsAlways == Spec => StartKeepsRows
<1> DEFINE Keeps == pc # "serving" =>
              \A t \in Tables : \A id \in DOMAIN table[t] :
                  id \in DOMAIN table'[t] /\ table'[t][id] = table[t][id]
<1>1. DashboardInv /\ [Next]_vars => [Keeps]_table
  <2> SUFFICES ASSUME DashboardInv, Next, table' # table, pc # "serving" PROVE Keeps
    BY DEF vars, tableVars
  <2>1. DOMAIN table = Tables
    BY DEF DashboardInv, TypeOK, TablesTypeOK
  <2>2. PICK u \in Tables : table[u] = Empty /\ table' = [table EXCEPT ![u] = Stored(@, Sample[u], "sample")]
    BY DEF Next, Start, StartProcess, Boot, RunMigrations, SeedAdmin, SeedConfig, Onward,
           SeedTables, Seed, SeedTarget, Listen, BuildRouter, ServeVersions, ServeTables,
           TablesNext, Create,
           Update, Delete, StopProcess, Stop, tableVars, Tables
  <2>3. \A t \in Tables : t # u => table'[t] = table[t]
    BY <2>1, <2>2
  <2>4. DOMAIN table[u] = {}
    BY <2>2 DEF Empty
  <2> QED
    BY <2>3, <2>4
<1> QED
  BY <1>1, DashboardInvariant, PTL DEF Spec, StartKeepsRows
=============================================================================
