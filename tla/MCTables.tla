------------------------------ MODULE MCTables ------------------------------
(***************************************************************************)
(* What the application does with its database: the log it pages through, the *)
(* settings, with keys that match each other by LIKE, and the backup. They        *)
(* share no rows and no files; a behaviour uses one of them.                       *)
(***************************************************************************)
EXTENDS LogTable, Settings, Backup

VARIABLE subject

MCKeys == {<<"i", "p">>, <<"a", "_", "b">>, <<"a", "c", "b">>, <<"A", "c", "b">>}
MCIsInteger == [k \in MCKeys |-> k[1] = "A"]
MCDefault == [k \in MCKeys |-> IF MCIsInteger[k] THEN "7" ELSE "dflt"]
MCLower == [c \in {"i", "p", "a", "A", "b", "c", "_"} |-> IF c = "A" THEN "a" ELSE c]

tables == <<subject, vars, settingsVars, backupVars>>

TablesInit ==
    /\ subject \in {"log", "settings", "backup"}
    /\ Init /\ SettingsInit /\ BackupInit

TablesNext ==
    \/ subject = "log" /\ Next /\ UNCHANGED <<subject, settingsVars, backupVars>>
    \/ subject = "settings" /\ SettingsNext /\ UNCHANGED <<subject, vars, backupVars>>
    \/ subject = "backup" /\ BackupNext /\ UNCHANGED <<subject, vars, settingsVars>>

TablesSpec == TablesInit /\ [][TablesNext]_tables
=============================================================================
