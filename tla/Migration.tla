------------------------------ MODULE Migration ------------------------------
(***************************************************************************)
(* The schema migration of the terminal's database (db.c, db_migrate and    *)
(* what it calls).  The schema version, the schema's objects and the rows   *)
(* of the `migration` table are on disk; each statement commits on its own, *)
(* so a crash, or a statement that fails, leaves what the statements before  *)
(* it did.  The application is upgraded and downgraded between runs.         *)
(*                                                                         *)
(* The repository holds the table of migrations of one release; the module  *)
(* takes the tables of releases 1..MaxApp as constants, under the           *)
(* conventions of db.c 228-248: migration i > 0 leads from version i to      *)
(* i + 1, migration 0 creates the latest schema and has no rollbacks, and    *)
(* every forward statement is of the form CREATE ... IF NOT EXISTS.          *)
(***************************************************************************)
EXTENDS Integers, Sequences, FiniteSets

CONSTANTS
    MaxApp,        \* the newest release
    Latest,        \* Latest[a]: the objects migration 0 of release a creates
    Delta,         \* Delta[i]: the objects migration i creates, step by step
    Droppable,     \* the objects whose step has a DROP TABLE or DROP INDEX IF
                   \* EXISTS as its rollback statement
    Erasable,      \* ... or a statement of another kind that takes the object away
    MaxFaults,     \* bound: crashes and failed statements
    MaxInstalls    \* bound: how often another release is installed

Created(s) == {s[n] : n \in DOMAIN s}

\* What a database of version n is to hold.
Base      == Created(Latest[1])
Schema(n) == IF n = 0 THEN {} ELSE Base \cup UNION {Created(Delta[m]) : m \in 1..n-1}

ASSUME BoundsAssumption ==
    MaxApp \in Nat \ {0} /\ MaxFaults \in Nat /\ MaxInstalls \in Nat
ASSUME LatestAssumption ==
    \A a \in 1..MaxApp : Len(Latest[a]) \in Nat \ {0}
                         /\ DOMAIN Latest[a] = 1..Len(Latest[a])
                         /\ Created(Latest[a]) = Schema(a)
ASSUME DeltaAssumption ==
    \A m \in 1..MaxApp-1 : Len(Delta[m]) \in Nat \ {0}
                           /\ DOMAIN Delta[m] = 1..Len(Delta[m])
\* A migration creates objects no other one does.
ASSUME FreshAssumption ==
    \A m \in 1..MaxApp-1 : /\ Created(Delta[m]) \cap Base = {}
                           /\ \A n \in 1..MaxApp-1 : m # n =>
                                 Created(Delta[m]) \cap Created(Delta[n]) = {}

VARIABLES
    version,    \* on disk: PRAGMA user_version
    objects,    \* on disk: the tables and indices there are
    rows,       \* on disk: <<version, step>> of the rows of `migration`
    app,        \* the release installed, ARRAY_SIZE(db_migrations)
    pc,         \* where db_migrate is, "off" when it is not running
    v, i, j,    \* its local variables, j from 1
    todo,       \* the rows its rollback query has still to visit
    floor,      \* history: the oldest release a downgrade to which was begun
                \* and not finished (MaxApp if none was)
    faults, installs

disk  == <<version, objects, rows>>
local == <<v, i, j, todo>>
vars  == <<disk, app, pc, local, floor, faults, installs>>

Least(a, b) == IF a <= b THEN a ELSE b

-----------------------------------------------------------------------------
Steps(m) == IF m = 0 THEN Latest[app] ELSE Delta[m]

\* Mutant of FirstMigration: one too far.
FirstMigrationNext(ver) == ver + 1

\* The first migration a database of an older version runs.
FirstMigration(ver) == ver

\* Mutant of LastRecorded: leaves the last migration out.
LastRecordedShort == app - 2

\* The last migration whose steps are recorded.
LastRecorded == app - 1

\* Mutant of RolledBack: keeps what the installed release does not know.
RolledBackAfter(r) == r[1] > app

\* The rows a rollback visits: WHERE version >= ? AND rollback NOT NULL.
RolledBack(r) == r[1] >= app
HasRollback(m, n) == m > 0 /\ Delta[m][n] \in Droppable \cup Erasable

\* ORDER BY version DESC, step DESC.
Newest(r, s) == \A q \in s : r[1] > q[1] \/ (r[1] = q[1] /\ r[2] >= q[2])

\* Mutant of NewVersion: the last release's.
NewVersionBehind == app - 1

\* What db_set_version is given at the end.
NewVersion == app

-----------------------------------------------------------------------------
Init ==
    /\ version = 0 /\ objects = {} /\ rows = {}
    /\ app \in 1..MaxApp
    /\ pc = "off"
    /\ v = 0 /\ i = 0 /\ j = 1 /\ todo = {}
    /\ floor = MaxApp
    /\ faults = 0 /\ installs = 0

(* Another release is installed between two runs. *)
Install(a) ==
    /\ pc = "off"
    /\ a # app
    /\ installs < MaxInstalls
    /\ installs' = installs + 1
    /\ app' = a
    /\ UNCHANGED <<disk, pc, local, floor, faults>>

(* db_migrate reads the version and takes one of its branches; nothing is    *)
(* done when the versions agree.                                             *)
StartForward ==
    /\ pc = "off"
    /\ version < app
    /\ v' = version
    /\ i' = IF version = 0 THEN 0 ELSE FirstMigration(version)
    /\ j' = 1
    /\ pc' = "forward"
    /\ UNCHANGED <<disk, app, todo, floor, faults, installs>>

StartRollback ==
    /\ pc = "off"
    /\ version > app
    /\ v' = version
    /\ todo' = {r \in rows : RolledBack(r) /\ HasRollback(r[1], r[2])}
    /\ floor' = Least(floor, app)
    /\ pc' = "rollback"
    /\ UNCHANGED <<disk, app, i, j, faults, installs>>

(* db_perform_migration: one forward statement succeeds.  A new database     *)
(* runs migration 0 only.                                                    *)
ForwardStep ==
    /\ pc = "forward"
    /\ i < app
    /\ objects' = objects \cup {Steps(i)[j]}
    /\ \/ /\ j < Len(Steps(i))
          /\ j' = j + 1
          /\ UNCHANGED <<pc, i>>
       \/ /\ j = Len(Steps(i))
          /\ v # 0 /\ i + 1 < app
          /\ i' = i + 1 /\ j' = 1
          /\ UNCHANGED pc
       \/ /\ j = Len(Steps(i))
          /\ v = 0 \/ i + 1 = app
          /\ i' = 0 /\ j' = 1 /\ pc' = "record"
    /\ UNCHANGED <<version, rows, app, v, todo, floor, faults, installs>>

(* ... or fails: the rollback statements of this migration's steps follow,   *)
(* from the failed one back.                                                 *)
ForwardFail ==
    /\ pc = "forward"
    /\ i < app
    /\ faults < MaxFaults
    /\ faults' = faults + 1
    /\ pc' = "undo"
    /\ UNCHANGED <<disk, app, local, floor, installs>>

UndoStep ==
    /\ pc = "undo"
    /\ objects' = IF HasRollback(i, j) THEN objects \ {Delta[i][j]} ELSE objects
    /\ IF j > 1 THEN j' = j - 1 /\ UNCHANGED pc
                ELSE pc' = "off" /\ UNCHANGED j
    /\ UNCHANGED <<version, rows, app, v, i, todo, floor, faults, installs>>

\* SQLite drops no table and no index while a query is open on the handle; there
\* has to be one to be dropped.
Refused(o) == o \in Droppable /\ o \in objects

(* db_perform_rollback: EVAL of one row's rollback statement, on the handle   *)
(* whose query of the rows is still open.                                    *)
RollbackStep ==
    /\ pc = "rollback"
    /\ \E r \in todo :
          /\ Newest(r, todo)
          /\ ~Refused(Delta[r[1]][r[2]])
          /\ objects' = objects \ {Delta[r[1]][r[2]]}
          /\ todo' = todo \ {r}
    /\ UNCHANGED <<version, rows, app, pc, v, i, j, floor, faults, installs>>

(* ... or is refused, and db_migrate is over, now and whenever it is called.  *)
RollbackRefused ==
    /\ pc = "rollback"
    /\ \E r \in todo : Newest(r, todo) /\ Refused(Delta[r[1]][r[2]])
    /\ pc' = "off"
    /\ UNCHANGED <<disk, app, local, floor, faults, installs>>

RollbackEnd ==
    /\ pc = "rollback"
    /\ todo = {}
    /\ pc' = "set"
    /\ UNCHANGED <<disk, app, local, floor, faults, installs>>

(* db_insert_migrations, for every step of every migration of the release. *)
RecordStep ==
    /\ pc = "record"
    /\ rows' = rows \cup {<<i, j>>}
    /\ \/ /\ j < Len(Steps(i))
          /\ j' = j + 1
          /\ UNCHANGED <<pc, i>>
       \/ /\ j = Len(Steps(i))
          /\ i < LastRecorded
          /\ i' = i + 1 /\ j' = 1
          /\ UNCHANGED pc
       \/ /\ j = Len(Steps(i))
          /\ i >= LastRecorded
          /\ pc' = "set"
          /\ UNCHANGED <<i, j>>
    /\ UNCHANGED <<version, objects, app, v, todo, floor, faults, installs>>

SetVersion ==
    /\ pc = "set"
    /\ version' = NewVersion
    /\ floor' = IF v > app /\ app <= floor THEN MaxApp ELSE floor
    /\ pc' = "off"
    /\ UNCHANGED <<objects, rows, app, local, faults, installs>>

(* A crash, or a failed statement of any other kind: db_migrate is over.     *)
Stop ==
    /\ pc # "off"
    /\ faults < MaxFaults
    /\ faults' = faults + 1
    /\ pc' = "off"
    /\ UNCHANGED <<disk, app, local, floor, installs>>

Migrate ==
    \/ StartForward \/ StartRollback
    \/ ForwardStep \/ UndoStep
    \/ RollbackStep \/ RollbackRefused \/ RollbackEnd
    \/ RecordStep \/ SetVersion

Next ==
    \/ \E a \in 1..MaxApp : Install(a)
    \/ Migrate
    \/ ForwardFail \/ Stop

Spec == Init /\ [][Next]_vars

\* db_migrate is called at every start, and runs.
FairSpec == Spec /\ WF_vars(Migrate)

-----------------------------------------------------------------------------
(* Every variable has its type. *)
TypeOK ==
    /\ version \in 0..MaxApp
    /\ objects \subseteq Schema(MaxApp)
    /\ rows \subseteq (0..MaxApp-1) \X (Nat \ {0})
    /\ \A r \in rows : r[1] > 0 => r[2] \in DOMAIN Delta[r[1]]
    /\ app \in 1..MaxApp
    /\ pc \in {"off", "forward", "undo", "rollback", "record", "set"}
    /\ v \in 0..MaxApp
    /\ i \in 0..MaxApp-1
    /\ j \in Nat \ {0}
    /\ todo \subseteq rows
    /\ floor \in 1..MaxApp
    /\ faults \in Nat /\ installs \in Nat

(* A database holds every object its version promises, up to the oldest      *)
(* release a downgrade to which was interrupted, and above it all that a       *)
(* downgrade cannot erase: no crash, failed statement, undo or later upgrade    *)
(* loses any of it, nor does a downgrade that was begun and given up.           *)
(* (db.c 541-557, 604-672)                                                      *)
SchemaComplete ==
    /\ Schema(Least(version, floor)) \subseteq objects
    /\ Schema(version) \ Erasable \subseteq objects

(* Whatever the history of releases, crashes and failures, the database      *)
(* knows how to undo every migration behind its version: a release that does *)
(* not have that migration will need it. (db.c 505-530, 649-662)             *)
RollbacksRecorded ==
    \A m \in 1..version-1 : \A n \in DOMAIN Delta[m] : <<m, n>> \in rows

(* A downgrade that lowers the version has taken away what the migrations it *)
(* steps back over created and have a rollback for. (db.c 562-602, 640-647)    *)
DowngradeClean ==
    [][version' < version =>
          \A m \in version'..version-1 :
              Created(Delta[m]) \cap (Droppable \cup Erasable) \cap objects' = {}]_vars

\* The steps of migration m before the n-th, and all of them.
StepsDone(m, n)  == \A k \in 1..n-1 : Steps(m)[k] \in objects
ForwardDone(m)   == StepsDone(m, Len(Steps(m)) + 1)
Recorded(m, n)   == \A k \in 1..n-1 : <<m, k>> \in rows
\* What is new in the release is there.
Upgraded         == IF v = 0 THEN ForwardDone(0)
                             ELSE \A m \in v..app-1 : ForwardDone(m)
Dropped(r)       == Delta[r[1]][r[2]] \notin objects

(* What db_migrate has achieved, by how far it has come: with SchemaComplete *)
(* and RollbacksRecorded, an inductive invariant.                            *)
Progress ==
    /\ pc # "off" => version = v
    /\ pc \in {"forward", "undo"} =>
          /\ v < app /\ i < app
          /\ v = 0 => i = 0
          /\ v <= i
          /\ j <= Len(Steps(i))
    /\ pc = "forward" =>
          /\ StepsDone(i, j)
          /\ \A m \in v..i-1 : ForwardDone(m)
    /\ pc = "record" =>
          /\ v < app /\ i < app
          /\ j <= Len(Steps(i))
          /\ Upgraded
          /\ Recorded(i, j)
          /\ \A m \in 1..i-1 : Recorded(m, Len(Steps(m)) + 1)
    /\ pc \in {"rollback", "set"} /\ v > app =>
          /\ floor <= app
          /\ \A r \in rows : RolledBack(r) /\ HasRollback(r[1], r[2]) =>
                 Dropped(r) \/ (pc = "rollback" /\ r \in todo)
    /\ pc = "rollback" =>
          /\ v > app
          /\ \A r \in todo : RolledBack(r) /\ HasRollback(r[1], r[2])
    /\ pc = "set" =>
          /\ v # app
          /\ v < app =>
                Upgraded /\ \A m \in 1..app-1 : Recorded(m, Len(Steps(m)) + 1)

MigrationInv == SchemaComplete /\ RollbacksRecorded /\ Progress

\* The newer database has a table or an index that a rollback is to drop.
Hindered ==
    version > app /\ \E r \in rows :
        RolledBack(r) /\ HasRollback(r[1], r[2]) /\ Refused(Delta[r[1]][r[2]])

(* After the last crash, failure and installation, the database reaches the  *)
(* version of the release and stays there; only a downgrade that has to drop  *)
(* a table or an index never ends, however often it is tried: its DROP is run  *)
(* by EVAL within the query of the rollbacks. (db.c 173, 573-602, 604-672)      *)
Converges == <>[](version = app \/ Hindered)
=============================================================================
