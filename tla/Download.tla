------------------------------ MODULE Download ------------------------------
(***************************************************************************)
(* api_download and its event handler http_response_handler (web.c 392-556):  *)
(* a body arrives in chunks and goes to memory or to a file, until mongoose    *)
(* reports its end, an error or a closed connection. Mongoose (external) calls *)
(* the handler; it may call it again after running is 0, in the same poll.     *)
(* Body byte k is the number k. A copy beyond the buffer is undefined: the     *)
(* program is then "overrun", and nothing is said of what follows.             *)
(***************************************************************************)
EXTENDS Integers, Sequences

CONSTANTS
    BodyLen,   \* bytes of the body
    Chunks,    \* sizes of a chunk
    Initial,   \* 1024: the first allocation for a body of unknown length
    MaxRuns    \* bound: calls of api_download

\* Mongoose hands out what it has read, be it more than the first allocation.
ASSUME ChunksAssumption ==
    BodyLen \in Nat /\ Chunks \subseteq Nat \ {0} /\ Initial \in Nat

VARIABLES
    pc,          \* the caller: "idle", in the loop: "polling", or "overrun"
    runs,        \* calls so far
    export_file, \* the body goes to a file
    known,       \* body.len is known
    status,      \* what mg_http_status makes of the response, 0 of a broken one
    running, error,
    ptr,         \* buffer.ptr: "null", "live" or "freed"
    size,        \* buffer.size
    mem,         \* buffer.ptr[0 .. used - 1]
    fd,          \* file.fd # NULL
    file,        \* what is at file.path
    short,       \* fwrite or fclose lost bytes in this call (history)
    conn,        \* the connection: "new", "up", "ended", "closing", "gone"
    d,           \* body bytes delivered and deleted from mongoose's buffer
    ret          \* what api_download returned

vars == <<pc, runs, export_file, known, status, running, error, ptr, size, mem,
          fd, file, short, conn, d, ret>>
buffer == <<ptr, size, mem>>
disk == <<fd, file, short>>
args == <<runs, export_file, known, status, ret>>
call == <<pc, args>>

Absent == [there |-> FALSE, bytes |-> <<>>]
Old == [there |-> TRUE, bytes |-> <<0, 0>>]

Init ==
    /\ pc = "idle" /\ runs = 0 /\ export_file = FALSE /\ known = FALSE /\ status = 200
    /\ running = 0 /\ error = 0
    /\ ptr = "null" /\ size = 0 /\ mem = <<>>
    /\ fd = FALSE /\ file \in {Absent, Old} /\ short = FALSE
    /\ conn = "gone" /\ d = 0 /\ ret = 0

-----------------------------------------------------------------------------
(* api_download *)

\* mg_http_connect, then the fields are reset. An error inside mg_http_connect
\* sets error and running before that: only the closing is seen afterwards. It may
\* also return NULL without any event, and the result is not looked at: "gone".
Start ==
    /\ pc = "idle" /\ runs < MaxRuns
    /\ pc' = "polling" /\ runs' = runs + 1
    /\ export_file' \in BOOLEAN /\ known' \in BOOLEAN /\ status' \in {200, 404, 0}
    /\ conn' \in {"new", "closing", "gone"}
    /\ ptr' = "null" /\ size' = 0 /\ mem' = <<>> /\ fd' = FALSE /\ short' = FALSE
    /\ error' = 0 /\ running' = 1
    /\ d' = 0 /\ ret' = 0
    /\ UNCHANGED file

\* Mutant of Leftover: removed only when nothing was written.
LeftoverKept(kept) ==
    IF error # 0 /\ kept = <<>> THEN Absent ELSE [there |-> TRUE, bytes |-> kept]

\* A file that is not the whole body is removed.
Leftover(kept) == IF error # 0 THEN Absent ELSE [there |-> TRUE, bytes |-> kept]

\* fclose writes what fwrite has buffered, as far as the disk takes it; its result
\* is not looked at.
Closed ==
    \E k \in 0..Len(file.bytes) :
       /\ file' = Leftover(SubSeq(file.bytes, 1, k))
       /\ short' = (short \/ k < Len(file.bytes))

Finish ==
    /\ pc = "polling" /\ running = 0
    /\ pc' = "idle"
    /\ IF export_file /\ fd THEN Closed ELSE UNCHANGED <<file, short>>
    /\ conn' = "gone"
    /\ ret' = IF error # 0 THEN -1 ELSE 0
    /\ UNCHANGED <<runs, export_file, known, status, running, error, buffer, fd, d>>

-----------------------------------------------------------------------------
(* http_response_handler *)

\* remove(file.path)
Connected == file' = Absent

EvConnect ==
    /\ pc = "polling" /\ conn = "new"
    /\ conn' = "up"
    /\ Connected
    /\ UNCHANGED <<call, running, error, buffer, fd, short, d>>

\* Mutant of EvClose: the loop is not told.
EvCloseSilent ==
    /\ pc = "polling" /\ conn # "gone"
    /\ conn' = "gone"
    /\ UNCHANGED <<call, running, error, buffer, disk, d>>

EvClose ==
    /\ pc = "polling" /\ conn # "gone"
    /\ conn' = "gone"
    /\ running' = 0
    /\ UNCHANGED <<call, error, buffer, disk, d>>

EvError ==
    /\ pc = "polling" /\ conn \in {"new", "up", "ended"}
    /\ conn' = "closing"
    /\ running' = 0 /\ error' = 1
    /\ UNCHANGED <<call, buffer, disk, d>>

\* A status other than 200 is the error, and 0 is none.
EvStatus ==
    /\ pc = "polling" /\ conn = "up" /\ status # 200
    /\ running' = 0 /\ error' = status
    /\ UNCHANGED <<call, buffer, disk, conn, d>>

\* The chunk of length 0.
EvEnd ==
    /\ pc = "polling" /\ conn = "up" /\ status = 200 /\ d = BodyLen
    /\ conn' = "ended"
    /\ running' = 0
    /\ UNCHANGED <<call, error, buffer, disk, d>>

Bytes(n) == [k \in 1..n |-> d + k]

\* error' and running' after a step that may fail.
Outcome(ok) ==
    IF ok THEN UNCHANGED <<error, running>> ELSE error' = 1 /\ running' = 0

\* fopen(path, "a+b") for the first chunk, then fwrite, which may write less than
\* the chunk; its result is not looked at.
ToFile(n) ==
    /\ \E ok \in IF fd THEN {TRUE} ELSE BOOLEAN, m \in 0..n :
          /\ fd' = ok
          /\ file' = IF ok THEN [there |-> TRUE, bytes |-> file.bytes \o Bytes(m)] ELSE file
          /\ short' = (short \/ (ok /\ m < n))
          /\ Outcome(ok)
    /\ UNCHANGED <<pc, buffer>>

\* Mutant of Grown: by the room that is missing before the last realloc.
GrownShort(n) == size + 3 * (n - 1)

Grown(n) == size + 3 * n

\* malloc for the first chunk, realloc when the next one has no room.
Allocate(n) ==
    \E ok \in IF size = 0 \/ Len(mem) + n > size THEN BOOLEAN ELSE {TRUE} :
       /\ Outcome(ok)
       /\ IF size = 0
          THEN /\ ptr' = IF ok THEN "live" ELSE "null"
               /\ size' = IF known THEN BodyLen ELSE Initial
          ELSE IF Len(mem) + n > size
          THEN /\ ptr' = IF ok THEN "live" ELSE "freed"
               /\ size' = IF ok THEN Grown(n) ELSE 0
          ELSE UNCHANGED <<ptr, size>>

\* The copy is made behind what is used, whether or not it has room there.
ToBuffer(n) ==
    /\ Allocate(n)
    /\ mem' = IF error' = 0 THEN mem \o Bytes(n) ELSE IF size' = 0 THEN <<>> ELSE mem
    /\ pc' = IF Len(mem') > size' THEN "overrun" ELSE pc
    /\ UNCHANGED disk

\* mg_http_delete_chunk: mongoose goes on behind the chunk.
Deleted(n) == IF pc' = "overrun" THEN d ELSE d + n

EvChunk(n) ==
    /\ pc = "polling" /\ conn = "up" /\ status = 200 /\ d + n <= BodyLen
    /\ IF export_file THEN ToFile(n) ELSE ToBuffer(n)
    /\ d' = Deleted(n)
    /\ UNCHANGED <<args, conn>>

Next ==
    \/ Start \/ Finish
    \/ EvConnect \/ EvClose \/ EvError \/ EvStatus \/ EvEnd
    \/ \E n \in Chunks : EvChunk(n)

Spec == Init /\ [][Next]_vars

\* The loop goes on. Nothing in the code ends a connection that neither goes on nor
\* is closed: there is no timeout.
FairSpec == Spec /\ WF_vars(Finish)

-----------------------------------------------------------------------------
(* What is used of the buffer has room in it, and is there when it is used,   *)
(* after any number of reallocations and failures of them. The one copy that   *)
(* may not fit is the first, of a body of unknown length: 1024 bytes are        *)
(* allocated for it whatever its size. (web.c 461-510)                           *)
BufferHolds ==
    /\ Len(mem) > size => ~known /\ d = 0 /\ size = Initial
    /\ mem # <<>> => ptr = "live"

Body(n) == [k \in 1..n |-> k]

\* Bytes of Body(n), each at most once and in order.
InOrder(bytes, n) ==
    /\ \A i \in 1..Len(bytes) : bytes[i] \in 1..n
    /\ \A i, j \in 1..Len(bytes) : i < j => bytes[i] < bytes[j]

(* A download that succeeded after the connection came up gave the caller    *)
(* each delivered byte once and in order, and none of an earlier download at *)
(* the same place, memory and file alike; what a file may lack is what a write *)
(* that failed has lost, for the results of fwrite and fclose are not looked at. *)
(* One that failed once data had arrived leaves no file, neither a part of the  *)
(* body nor the old one. (web.c 408, 441-513, 544-555)                           *)
BodyOrNothing ==
    pc = "idle" /\ runs > 0 /\ d > 0 =>
        /\ ret = 0 /\ ~export_file => mem = Body(d)
        /\ ret = 0 /\ export_file =>
              file.there /\ InOrder(file.bytes, d) /\ (~short => file.bytes = Body(d))
        /\ ret = -1 /\ export_file => file = Absent

(* If connections come to their end, by the peer, by c->is_draining or by an   *)
(* error, a call that has one returns, however it ends; and so does a call      *)
(* whose loop was told to end. A call without one never does. (web.c 530-542)    *)
DownloadReturns ==
    WF_vars(EvClose) =>
        (pc = "polling" /\ (conn # "gone" \/ running = 0) ~> pc # "polling")
=============================================================================
