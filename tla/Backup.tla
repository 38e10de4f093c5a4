------------------------------- MODULE Backup -------------------------------
(***************************************************************************)
(* db_backup and db_repair (db.c 772-858): a copy of the open database is       *)
(* made in a file that may hold an earlier one, while other threads write and    *)
(* until a call of SQLite fails or the program dies. SQLite (external) copies in  *)
(* one transaction of the file, which is undone from its journal, while nobody    *)
(* writes the database; the recovery extension reads it piece by piece.            *)
(***************************************************************************)
EXTENDS Integers

CONSTANTS
    MaxContent,   \* bound: changes to the database
    MaxBadOpens   \* bound: opens that fail

VARIABLES
    step,      \* the call of SQLite that is next, "idle" outside both functions
    op,        \* the function that is under way or was last; "died" in a backup
    content,   \* the database: how often it was changed
    file,      \* the file: the content it is a copy of, NoFile,
               \* Partly written, or Mixed of several contents
    journal,   \* what the file was before a backup that is not committed, or NoFile
    handles,   \* handles of the file that are open
    backupRet,
    since,     \* history: the content when the call began
    until,     \* history: and when it ended
    former,    \* history: the file when the call began
    badOpens   \* history: opens that failed

backupVars == <<step, op, content, file, journal, handles, backupRet, since, until,
                former, badOpens>>

NoFile == -1
Partly == -2
Mixed == -3

BackupInit ==
    /\ step = "idle" /\ op = "none" /\ content = 0
    /\ file = NoFile /\ journal = NoFile /\ handles = 0 /\ backupRet = 0
    /\ since = 0 /\ until = 0 /\ former = NoFile /\ badOpens = 0

\* What SQLite makes of the file when it opens it
Recovered == IF file = Partly THEN journal ELSE file

Returns(res) == step' = "idle" /\ backupRet' = res /\ until' = content

-----------------------------------------------------------------------------
(* db_backup *)

Backup ==
    /\ step = "idle" /\ step' = "open" /\ op' = "backup"
    /\ since' = content /\ former' = Recovered
    /\ UNCHANGED <<content, file, journal, handles, backupRet, until, badOpens>>

\* sqlite3_open_v2. If it fails the handle it made is not closed.
BackupOpen ==
    /\ step = "open"
    /\ handles' = handles + 1
    /\ \/ step' = "init" /\ UNCHANGED <<backupRet, until, badOpens>>
       \/ badOpens < MaxBadOpens /\ Returns(-1) /\ badOpens' = badOpens + 1
    /\ UNCHANGED <<op, content, file, journal, since, former>>

BackupBegin ==
    /\ step = "init"
    /\ \/ step' = "step" /\ UNCHANGED <<handles, backupRet, until>>
       \/ Returns(-1) /\ handles' = handles - 1
    /\ UNCHANGED <<op, content, file, journal, since, former, badOpens>>

\* sqlite3_backup_step(-1) begins to write ...
BackupWrites ==
    /\ step = "step" /\ step' = "writing"
    /\ file' = Partly /\ journal' = Recovered
    /\ UNCHANGED <<op, content, handles, backupRet, since, until, former, badOpens>>

\* ... and commits the whole of it.
BackupDone ==
    /\ step = "writing" /\ step' = "finish"
    /\ file' = content /\ journal' = NoFile
    /\ UNCHANGED <<op, content, handles, backupRet, since, until, former, badOpens>>

\* Mutant of StepFailed: what sqlite3_backup_step says is not looked at.
StepFailedUnseen == 0

\* The result of a failed sqlite3_backup_step
StepFailed == -1

\* The file is locked or full: sqlite3_backup_finish undoes it.
BackupStepFails ==
    /\ step \in {"step", "writing"}
    /\ file' = Recovered /\ journal' = NoFile
    /\ Returns(StepFailed) /\ handles' = handles - 1
    /\ UNCHANGED <<op, content, since, former, badOpens>>

\* After a step that was done, sqlite3_backup_finish returns SQLITE_OK: it repeats what
\* the last step returned. The failure the code looks for cannot come.
BackupFinish ==
    /\ step = "finish"
    /\ Returns(0) /\ handles' = handles - 1
    /\ UNCHANGED <<op, content, file, journal, since, former, badOpens>>

-----------------------------------------------------------------------------
(* db_repair *)

\* Without memory for sqlite3_recover_init nothing is done.
Repair ==
    /\ step = "idle" /\ op' = "repair"
    /\ since' = content /\ former' = Recovered
    /\ \/ step' = "recover" /\ file' = Partly /\ journal' = NoFile
          /\ UNCHANGED <<backupRet, until>>
       \/ Returns(-1) /\ UNCHANGED <<file, journal>>
    /\ UNCHANGED <<content, handles, badOpens>>

RepairDone ==
    /\ step = "recover"
    /\ file' \in IF content = since THEN {content} ELSE since..content \cup {Mixed}
    /\ Returns(0)
    /\ UNCHANGED <<op, content, journal, handles, since, former, badOpens>>

\* sqlite3_recover_run fails; remove(path)
RepairFails ==
    /\ step = "recover"
    /\ file' = NoFile /\ Returns(-1)
    /\ UNCHANGED <<op, content, journal, handles, since, former, badOpens>>

-----------------------------------------------------------------------------
\* Another thread changes the database, but not while a transaction reads it.
Change ==
    /\ step # "writing" /\ content < MaxContent /\ content' = content + 1
    /\ UNCHANGED <<step, op, file, journal, handles, backupRet, since, until, former, badOpens>>

\* The program dies and is started again.
Die ==
    /\ step' = "idle" /\ until' = content
    /\ op' = (IF op = "backup" /\ step # "idle" THEN "died" ELSE "none")
    /\ handles' = 0 /\ badOpens' = 0
    /\ UNCHANGED <<content, file, journal, backupRet, since, former>>

BackupNext ==
    \/ Backup \/ BackupOpen \/ BackupBegin \/ BackupWrites \/ BackupDone
    \/ BackupStepFails \/ BackupFinish
    \/ Repair \/ RepairDone \/ RepairFails \/ Change \/ Die

BackupSpec == BackupInit /\ [][BackupNext]_backupVars

-----------------------------------------------------------------------------
(* When db_backup returns 0 the file is the whole database as it was at a       *)
(* moment of the call, and so it is with db_repair if nobody wrote meanwhile. A  *)
(* backup that fails or dies halfway leaves the copy that was there before; a     *)
(* repair that fails leaves no file, or it did nothing. Handles are closed, but for *)
(* those that sqlite3_open_v2 made in vain. (db.c 772-858)                          *)
BackupWhole ==
    step = "idle" =>
        /\ handles = badOpens
        /\ op = "backup" => IF backupRet = 0 THEN Recovered \in since..until
                           ELSE Recovered = former
        /\ op = "died" => Recovered \in {former} \cup since..until
        /\ op = "repair" => IF backupRet = 0 THEN since = until => Recovered = since
                           ELSE Recovered \in {NoFile, former}
=============================================================================
