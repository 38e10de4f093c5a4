----------------------------- MODULE MCDbHandle -----------------------------
(***************************************************************************)
(* DbHandle used by one thread, four queries deep, and by two threads, two    *)
(* queries deep each.                                                         *)
(***************************************************************************)
EXTENDS DbHandle

MCMaxDepth == <<4, 2>>
MCMaxDrift == <<4, 1>>
=============================================================================
