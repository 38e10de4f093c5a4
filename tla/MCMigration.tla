----------------------------- MODULE MCMigration -----------------------------
(* A small instance of Migration: three releases, the second of which adds   *)
(* a table and a view, and the third a view and a table that no rollback       *)
(* takes away. SQLite drops a view within a query.                              *)
EXTENDS Migration

MCDelta  == <<<<"t", "view">>, <<"later", "w">>>>
MCLatest == <<<<"log", "migration">>,
              <<"log", "migration", "t", "view">>,
              <<"log", "t", "migration", "view", "later", "w">>>>
MCDroppable == {"t"}
MCErasable  == {"view", "later"}
=============================================================================
