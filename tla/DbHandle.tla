------------------------------ MODULE DbHandle ------------------------------
(***************************************************************************)
(* The one database handle of the program and the statements on it (db.c):    *)
(* db_open and db_close, and what every query does, from the check of the      *)
(* handle to the finalizing of its statement. SQLite calls row callbacks and    *)
(* db.c its error callback in between, and those may call db.c again: a thread  *)
(* has a stack of queries. db_connections counts them without a lock.           *)
(***************************************************************************)
EXTENDS Integers, Sequences, FiniteSets

CONSTANTS
    Threads,
    MaxDepth,   \* bound: MaxDepth[n] queries inside each other's callbacks
    MaxDrift    \* bound: a query begins with db_connections at most MaxDrift[n]
                \* from 0, where n threads use the handle

ASSUME ThreadsAssumption == IsFiniteSet(Threads)
ASSUME DepthAssumption ==
    /\ MaxDepth \in [1..Cardinality(Threads) -> Nat]
    /\ MaxDrift \in [1..Cardinality(Threads) -> Nat]

VARIABLES
    crew,            \* the threads of the program that use the handle
    db,              \* "null", "open", or "sick": sqlite3_open_v2 failed
    db_connections,  \* the counter
    stack,           \* stack[t]: the queries of thread t, the innermost last
    raced            \* history: two threads were at the counter at a time

handleVars == <<crew, db, db_connections, stack, raced>>

\* kind: a statement, sqlite3_exec, or the sqlite3_exec that sets up a new handle;
\* at: where the query is; reg: the counter as it was read; failed: res < 0.
Query == [kind : {"stmt", "exec", "setup"},
          at : {"checked", "prepared", "counting", "counted", "stepping", "callback",
                "error", "finalized", "uncounting", "refused", "undone"},
          reg : Int, failed : BOOLEAN]

New(kind, at) == [kind |-> kind, at |-> at, reg |-> 0, failed |-> FALSE]

HandleInit ==
    /\ crew \in SUBSET Threads \ {{}}
    /\ db = "null" /\ db_connections = 0
    /\ stack = [t \in crew |-> <<>>] /\ raced = FALSE

-----------------------------------------------------------------------------
Top(t) == stack[t][Len(stack[t])]
At(t, at) == IF stack[t] = <<>> THEN FALSE ELSE Top(t).at = at

\* Thread t runs code of the application: outside all queries, or in a callback.
InControl(t) == stack[t] # <<>> => Top(t).at \in {"callback", "error", "refused"}

Deeper(t) == Len(stack[t]) < MaxDepth[Cardinality(crew)]

Push(t, q) == stack' = [stack EXCEPT ![t] = Append(@, q)]
Replace(t, q) == stack' = [stack EXCEPT ![t] = Append(SubSeq(@, 1, Len(@) - 1), q)]
Pop(t) == stack' = [stack EXCEPT ![t] = SubSeq(@, 1, Len(@) - 1)]
GoTo(t, at) == Replace(t, [Top(t) EXCEPT !.at = at])

\* A statement that is not finalized; sqlite3_exec has one of its own.
Live(q) == \/ q.kind = "stmt" /\ q.at \in {"prepared", "counting", "stepping", "callback", "error"}
           \/ q.kind # "stmt" /\ q.at \in {"stepping", "callback"}

Idle == \A t \in crew : \A k \in DOMAIN stack[t] : ~Live(stack[t][k])

-----------------------------------------------------------------------------
(* db_open, db_close *)

\* The counter is not further from 0 than the bound.
Drifted == LET n == MaxDrift[Cardinality(crew)] IN db_connections \notin -n..n

\* Opened, and the set-up begins; or not opened, which leaves a handle in db
\* unless there was no memory for one, and is told.
Open(t) ==
    /\ InControl(t) /\ db = "null" /\ Deeper(t)
    /\ \/ ~Drifted /\ db' = "open" /\ Push(t, New("setup", "checked"))
       \/ db' \in {"sick", "null"} /\ Push(t, New("stmt", "refused"))
    /\ UNCHANGED <<crew, db_connections>>

\* Mutant of ClosedBy: the handle is forgotten although SQLite is busy.
ClosedByAll(res) == "null"

ClosedBy(res) == IF res = "ok" THEN "null" ELSE db

\* sqlite3_close is refused while a statement lives; get_error calls back.
Close(t) ==
    /\ InControl(t) /\ db # "null"
    /\ IF Idle THEN db' = ClosedBy("ok") /\ UNCHANGED stack
       ELSE /\ Deeper(t)
            /\ db' = ClosedBy("busy")
            /\ Push(t, New("stmt", "refused"))
    /\ UNCHANGED <<crew, db_connections>>

\* Another thread closed the new handle before db_setup_connection looked at it.
SetUpVoid(t) ==
    /\ At(t, "checked") /\ Top(t).kind = "setup" /\ db = "null"
    /\ GoTo(t, "undone")
    /\ UNCHANGED <<crew, db, db_connections>>

\* The db_close of a db_open whose set-up failed, on the handle there is by now
CloseUndone(t) ==
    /\ At(t, "undone")
    /\ \/ db = "null" /\ db' = db /\ Pop(t)
       \/ db # "null" /\ Idle /\ db' = ClosedBy("ok") /\ Pop(t)
       \/ db # "null" /\ ~Idle /\ db' = ClosedBy("busy") /\ Replace(t, New("stmt", "refused"))
    /\ UNCHANGED <<crew, db_connections>>

-----------------------------------------------------------------------------
(* A query. Without a handle it returns -1 and changes nothing. *)

\* SQLITE_REQUIRED_OPEN holds. Another thread may close the handle after it.
Begin(t) ==
    /\ InControl(t) /\ db # "null" /\ Deeper(t) /\ ~Drifted
    /\ \E kind \in {"stmt", "exec"} : Push(t, New(kind, "checked"))
    /\ UNCHANGED <<crew, db, db_connections>>

\* sqlite3_prepare_v2 on the handle there is now, which refuses any but a good one
Prepare(t) ==
    /\ At(t, "checked") /\ Top(t).kind = "stmt"
    /\ GoTo(t, "refused") \/ (db = "open" /\ GoTo(t, "prepared"))
    /\ UNCHANGED <<crew, db, db_connections>>

\* ++db_connections, after the prepare or before the sqlite3_exec: read, written
CountRead(t) ==
    /\ At(t, "prepared") \/ (At(t, "checked") /\ Top(t).kind # "stmt")
    /\ Replace(t, [Top(t) EXCEPT !.at = "counting", !.reg = db_connections])
    /\ UNCHANGED <<crew, db, db_connections>>

CountWrite(t) ==
    /\ At(t, "counting")
    /\ db_connections' = Top(t).reg + 1
    /\ Replace(t, New(Top(t).kind, IF Top(t).kind = "stmt" THEN "stepping" ELSE "counted"))
    /\ UNCHANGED <<crew, db>>

\* sqlite3_exec prepares its own statement, or fails to.
ExecPrepare(t) ==
    /\ At(t, "counted")
    /\ \/ db = "open" /\ GoTo(t, "stepping")
       \/ Replace(t, [Top(t) EXCEPT !.at = "finalized", !.failed = TRUE])
    /\ UNCHANGED <<crew, db, db_connections>>

\* SQLITE_ROW: a callback gets the row, the set-up has none ...
Row(t) ==
    /\ At(t, "stepping") /\ Top(t).kind # "setup"
    /\ GoTo(t, "callback")
    /\ UNCHANGED <<crew, db, db_connections>>

\* ... and returns.
RowDone(t) ==
    /\ At(t, "callback")
    /\ GoTo(t, "stepping")
    /\ UNCHANGED <<crew, db, db_connections>>

\* Mutant of StepFails: returns at once.
StepFailsReturns(t) ==
    /\ At(t, "stepping")
    /\ GoTo(t, "refused")
    /\ UNCHANGED <<crew, db, db_connections>>

\* Another result: get_error for a statement, which is finalized afterwards;
\* sqlite3_exec has finalized its own, and its error is told after the counting.
StepFails(t) ==
    /\ At(t, "stepping")
    /\ IF Top(t).kind = "stmt" THEN GoTo(t, "error")
       ELSE Replace(t, [Top(t) EXCEPT !.at = "finalized", !.failed = TRUE])
    /\ UNCHANGED <<crew, db, db_connections>>

\* SQLITE_DONE, a callback that wants no more rows, or after get_error.
Finalize(t) ==
    /\ At(t, "stepping") \/ (At(t, "error") /\ Top(t).kind = "stmt")
    /\ GoTo(t, "finalized")
    /\ UNCHANGED <<crew, db, db_connections>>

\* --db_connections
UncountRead(t) ==
    /\ At(t, "finalized")
    /\ Replace(t, [Top(t) EXCEPT !.at = "uncounting", !.reg = db_connections])
    /\ UNCHANGED <<crew, db, db_connections>>

UncountWrite(t) ==
    /\ At(t, "uncounting")
    /\ db_connections' = Top(t).reg - 1
    /\ IF Top(t).failed THEN Replace(t, New(Top(t).kind, "refused")) ELSE Pop(t)
    /\ UNCHANGED <<crew, db>>

\* The error callback of a query that was refused, or of db_close, returns; after
\* that of the set-up, db_open closes the handle.
RefusalDone(t) ==
    /\ At(t, "refused")
    /\ IF Top(t).kind = "setup" THEN GoTo(t, "undone") ELSE Pop(t)
    /\ UNCHANGED <<crew, db, db_connections>>

\* Between the reading and the writing of the counter
Updating(t) == At(t, "counting") \/ At(t, "uncounting")
Race == \E t, u \in crew : t # u /\ Updating(t) /\ Updating(u)

Act(t) ==
    \/ Open(t) \/ Close(t) \/ SetUpVoid(t) \/ CloseUndone(t) \/ Begin(t) \/ Prepare(t)
    \/ CountRead(t) \/ CountWrite(t) \/ ExecPrepare(t) \/ Row(t) \/ RowDone(t) \/ StepFails(t)
    \/ Finalize(t) \/ UncountRead(t) \/ UncountWrite(t) \/ RefusalDone(t)

HandleNext ==
    /\ \E t \in crew : Act(t)
    /\ raced' = (raced \/ Race')

HandleSpec == HandleInit /\ [][HandleNext]_handleVars

-----------------------------------------------------------------------------
\* The queries that were begun and not refused, each as its thread and its depth there
Running ==
    UNION {{t} \X {k \in DOMAIN stack[t] : stack[t][k].at # "refused"} : t \in crew}

(* When the handle is gone no statement of any thread lives on it, though     *)
(* callbacks and other threads may try to close it at any time: it is SQLite's *)
(* refusal that db_close obeys, not the counter. (db.c 393-413)                *)
ClosedIsIdle == db = "null" => Idle

(* Where the application asks, db_connections is the number of the queries of  *)
(* all threads that were begun and not refused, after any nesting of callbacks, *)
(* failures and reopenings, and db_has_connection is 0 exactly when db_close is  *)
(* not refused: as long as no two threads were at the counter at the same         *)
(* moment, for ++ and -- are not atomic. (db.c 196-217, 320-323, 416-503)           *)
CountTells ==
    ~raced /\ (\A t \in crew : InControl(t)) =>
        /\ db_connections = Cardinality(Running)
        /\ db_connections = 0 <=> Idle
=============================================================================
