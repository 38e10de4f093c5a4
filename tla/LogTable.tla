------------------------------ MODULE LogTable ------------------------------
(***************************************************************************)
(* The table `logs` (db.c 131-151, 891-956): rows are inserted, the oldest are *)
(* deleted by a rotation, and a reader (external) shows them page by page, the  *)
(* newest first. A row has a rowid SQLite gives it; what identifies a message    *)
(* here is its number. Rows come and go between the reader's pages, and while     *)
(* db_get_log is in the reader's callback.                                       *)
(***************************************************************************)
EXTENDS Integers, Sequences, FiniteSets

CONSTANTS
    CountPerPage,
    Remaining,     \* arguments of db_rotate_log
    MaxMessages    \* bound: messages ever inserted

ASSUME PageAssumption == CountPerPage \in Nat \ {0}
ASSUME RemainingAssumption == Remaining \subseteq Nat

VARIABLES
    logs,      \* the rows, in the order of their rowid
    inserted,  \* messages inserted so far
    page,      \* the page the reader reads or reads next, 0: it does not read
    cursor,    \* in db_get_log: the rowid visited last; 0 outside it
    rest,      \* rows the LIMIT still allows
    seen,      \* history: the messages shown since the first page, in order
    start,     \* history: the messages there when the first page began
    fresh      \* history: nothing was inserted since

vars == <<logs, inserted, page, cursor, rest, seen, start, fresh>>
reader == <<page, cursor, rest, seen, start>>

Row == [rowid : Nat \ {0}, message : Nat \ {0}]
Messages == {logs[k].message : k \in DOMAIN logs}
Shown == {seen[k] : k \in DOMAIN seen}

Init ==
    /\ logs = <<>> /\ inserted = 0
    /\ page = 0 /\ cursor = 0 /\ rest = 0
    /\ seen = <<>> /\ start = {} /\ fresh = TRUE

-----------------------------------------------------------------------------
(* db_insert_log, db_insert_log_raw *)

\* A rowid is one more than the largest there is.
Rowid == IF logs = <<>> THEN 1 ELSE logs[Len(logs)].rowid + 1

\* A message without text is refused by the table: nothing changes.
Insert ==
    /\ inserted < MaxMessages
    /\ inserted' = inserted + 1
    /\ logs' = Append(logs, [rowid |-> Rowid, message |-> inserted + 1])
    /\ fresh' = FALSE
    /\ UNCHANGED reader

-----------------------------------------------------------------------------
(* db_rotate_log *)

\* DELETE ... ORDER BY ROWID DESC LIMIT -1 OFFSET n
Rotated(n) == SubSeq(logs, Len(logs) - n + 1, Len(logs))

Rotate(n) ==
    /\ logs' = IF n < Len(logs) THEN Rotated(n) ELSE logs
    /\ UNCHANGED <<inserted, reader, fresh>>

-----------------------------------------------------------------------------
(* db_get_log *)

\* Mutants of Offset: pages count from 0; they overlap by a row.
OffsetFromZero(p) == CountPerPage * p
OffsetOverlapping(p) == (CountPerPage - 1) * (p - 1)

Offset(p) == CountPerPage * (p - 1)

Limit == CountPerPage

\* The reader begins with the newest rows.
Read ==
    /\ page = 0
    /\ page' = 1 /\ seen' = <<>> /\ start' = Messages /\ fresh' = TRUE
    /\ UNCHANGED <<logs, inserted, cursor, rest>>

\* The row with the largest rowid below the cursor
Below(c) == {k \in DOMAIN logs : logs[k].rowid < c}
Visit(k) ==
    /\ seen' = Append(seen, logs[k].message)
    /\ cursor' = logs[k].rowid
    /\ rest' = rest - 1

\* The first sqlite3_step of a page skips the offset and visits a row, if there is one.
FirstRow ==
    /\ page > 0 /\ cursor = 0 /\ Offset(page) < Len(logs)
    /\ LET k == Len(logs) - Offset(page)
       IN  /\ seen' = Append(seen, logs[k].message)
           /\ cursor' = logs[k].rowid
           /\ rest' = Limit - 1
    /\ UNCHANGED <<logs, inserted, page, start, fresh>>

NextRow ==
    /\ cursor > 0 /\ rest > 0
    /\ \E k \in Below(cursor) : (\A n \in Below(cursor) : n <= k) /\ Visit(k)
    /\ UNCHANGED <<logs, inserted, page, start, fresh>>

\* SQLITE_DONE after a whole page: the reader goes on to the next.
PageFull ==
    /\ cursor > 0 /\ rest = 0
    /\ page' = page + 1 /\ cursor' = 0
    /\ UNCHANGED <<logs, inserted, rest, seen, start, fresh>>

\* SQLITE_DONE, and the page is short or empty: the reader has come to the end.
Finished ==
    /\ page > 0
    /\ IF cursor = 0 THEN Offset(page) >= Len(logs) ELSE rest > 0 /\ Below(cursor) = {}

PageShort ==
    /\ Finished
    /\ page' = 0 /\ cursor' = 0
    /\ UNCHANGED <<logs, inserted, rest, seen, start, fresh>>

\* The callback wants no more rows, and the reader stops.
GiveUp ==
    /\ cursor > 0
    /\ page' = 0 /\ cursor' = 0
    /\ UNCHANGED <<logs, inserted, rest, seen, start, fresh>>

Next ==
    \/ Insert \/ (\E n \in Remaining : Rotate(n))
    \/ Read \/ FirstRow \/ NextRow \/ PageFull \/ PageShort \/ GiveUp

Spec == Init /\ [][Next]_vars

-----------------------------------------------------------------------------
(* A reader that comes to the end has seen every message that was there when   *)
(* it began and still is, whatever was inserted and rotated between two pages   *)
(* or inside its callback. (db.c 150-151, 924-942)                               *)
NothingMissed == Finished => (start \cap Messages) \subseteq Shown

(* It sees none twice, unless messages came in meanwhile: they move the pages. *)
(* (db.c 150-151, 931)                                                           *)
NoneTwice == fresh => Cardinality(Shown) = Len(seen)
=============================================================================
