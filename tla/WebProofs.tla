------------------------------ MODULE WebProofs ------------------------------
(***************************************************************************)
(* The buffer of a download holds what is put into it behind the first chunk,  *)
(* and a download gives the beginning of the body, or nothing: for every body,  *)
(* every size of a chunk and of the first allocation, writes that fail at any    *)
(* place, and any number of downloads. The HTTP                                   *)
(* server answers every request up to its limit, in turn, and none beyond.      *)
(***************************************************************************)
EXTENDS Download, HttpApi, SequenceTheorems, TLAPS

TypeOK ==
    /\ pc \in {"idle", "polling", "overrun"}
    /\ export_file \in BOOLEAN /\ fd \in BOOLEAN /\ short \in BOOLEAN
    /\ d \in Nat /\ size \in Nat /\ mem \in Seq(Nat)
    /\ file \in [there : BOOLEAN, bytes : Seq(Nat)]

\* A buffer that was allocated is there as long as nothing failed, and whoever
\* goes on has had room for every copy.
Room == /\ BufferHolds
        /\ pc # "overrun" => Len(mem) <= size
        /\ error = 0 /\ size > 0 => ptr = "live"

\* The connection came up over an empty place, and nothing was delivered before,
\* nor of a response that is not the file.
Beginning == /\ conn = "new" => d = 0
             /\ conn = "up" /\ d = 0 => file = Absent
             /\ status # 200 => d = 0 /\ size = 0 /\ mem = <<>>

\* As long as nothing failed, what was delivered is where it belongs.
InMemory == pc # "overrun" /\ ~export_file /\ error = 0 => mem = Body(d)
InFile == /\ export_file /\ error = 0 /\ d > 0 =>
                fd /\ file.there /\ InOrder(file.bytes, d) /\ (~short => file.bytes = Body(d))
          /\ export_file /\ d > 0 /\ ~fd => file = Absent

\* What was returned.
Told == pc = "idle" /\ runs > 0 =>
            /\ ret = 0 => error = 0
            /\ ret = -1 /\ export_file /\ d > 0 => file = Absent

DownloadInv == TypeOK /\ Room /\ Beginning /\ InMemory /\ InFile /\ Told

-----------------------------------------------------------------------------
(* The bytes of the body. *)

LEMMA Concat ==
    ASSUME NEW s \in Seq(Nat), NEW t \in Seq(Nat)
    PROVE  /\ s \o t \in Seq(Nat) /\ Len(s \o t) = Len(s) + Len(t)
           /\ Len(s) \in Nat /\ Len(t) \in Nat
           /\ \A i \in 1..Len(s) + Len(t) :
                 (s \o t)[i] = IF i <= Len(s) THEN s[i] ELSE t[i - Len(s)]
<1>1. Len(s) \in Nat /\ Len(t) \in Nat
    BY LenProperties
<1> QED BY <1>1, ConcatProperties

LEMMA BodyBytes ==
    ASSUME d \in Nat, NEW n \in Nat
    PROVE  /\ Body(n) \in Seq(Nat) /\ Len(Body(n)) = n
           /\ \A i \in 1..n : Body(n)[i] = i
           /\ Bytes(n) \in Seq(Nat) /\ Len(Bytes(n)) = n
           /\ \A i \in 1..n : Bytes(n)[i] = d + i
<1>1. Body(n) \in [1..n -> Nat] /\ Bytes(n) \in [1..n -> Nat]
    BY DEF Body, Bytes
<1>2. Body(n) \in Seq(Nat) /\ Bytes(n) \in Seq(Nat)
    BY <1>1, SeqDef
<1>3. Len(Body(n)) = n /\ Len(Bytes(n)) = n
    BY <1>1, <1>2, LenProperties
<1> QED BY <1>2, <1>3 DEF Body, Bytes

LEMMA NoBytes == Body(0) = <<>> /\ Absent.bytes = <<>> /\ <<>> \in Seq(Nat)
                 /\ Absent \in [there : BOOLEAN, bytes : Seq(Nat)]
                 /\ Old \in [there : BOOLEAN, bytes : Seq(Nat)]
<1>1. Body(0) = <<>>
    BY DEF Body
<1>2. <<>> \in Seq(Nat) /\ <<0, 0>> \in Seq(Nat)
    BY EmptySeq
<1> QED BY <1>1, <1>2 DEF Absent, Old

\* The chunk continues what was delivered.
LEMMA ChunkContinues ==
    ASSUME d \in Nat, NEW n \in Nat
    PROVE  Body(d) \o Bytes(n) = Body(d + n)
<1>1. /\ Body(d) \in Seq(Nat) /\ Len(Body(d)) = d
      /\ Bytes(n) \in Seq(Nat) /\ Len(Bytes(n)) = n
      /\ Body(d + n) \in Seq(Nat) /\ Len(Body(d + n)) = d + n
    BY BodyBytes
<1>2. /\ Body(d) \o Bytes(n) \in Seq(Nat)
      /\ Len(Body(d) \o Bytes(n)) = d + n
      /\ \A i \in 1..(d + n) : (Body(d) \o Bytes(n))[i] =
             IF i <= d THEN Body(d)[i] ELSE Bytes(n)[i - d]
    <2> DEFINE s == Body(d)
               t == Bytes(n)
    <2>1. s \in Seq(Nat) /\ t \in Seq(Nat) /\ Len(s) = d /\ Len(t) = n
        BY <1>1
    <2> HIDE DEF s, t
    <2>2. /\ s \o t \in Seq(Nat) /\ Len(s \o t) = d + n
          /\ \A i \in 1..(d + n) : (s \o t)[i] = IF i <= d THEN s[i] ELSE t[i - d]
        BY <2>1, Concat
    <2> QED BY <2>2 DEF s, t
<1>3. \A i \in 1..(d + n) : (Body(d) \o Bytes(n))[i] = Body(d + n)[i]
    <2> TAKE i \in 1..(d + n)
    <2>1. Body(d + n)[i] = i
        BY DEF Body
    <2>2. CASE i <= d
        <3>1. i \in 1..d
            BY <2>2
        <3>2. Body(d)[i] = i
            BY <3>1, BodyBytes
        <3> QED BY <1>2, <2>1, <2>2, <3>2
    <2>3. CASE ~(i <= d)
        <3>1. i - d \in 1..n
            BY <2>3
        <3>2. Bytes(n)[i - d] = d + (i - d)
            BY <3>1, BodyBytes
        <3> QED BY <1>2, <2>1, <2>3, <3>2
    <2> QED BY <2>2, <2>3
<1> QED BY <1>1, <1>2, <1>3, SeqEqual

\* Some of a chunk behind some of what came before is still in order.
LEMMA ChunkInOrder ==
    ASSUME d \in Nat, NEW s \in Seq(Nat), InOrder(s, d), NEW n \in Nat, NEW m \in 0..n
    PROVE  /\ s \o Bytes(m) \in Seq(Nat)
           /\ InOrder(s \o Bytes(m), d + n)
<1> DEFINE t == Bytes(m)
           u == s \o t
<1>1. t \in Seq(Nat) /\ Len(t) = m /\ \A i \in 1..m : t[i] = d + i
    <2>1. m \in Nat
        OBVIOUS
    <2> QED BY <2>1, BodyBytes
<1> HIDE DEF t
<1>2. /\ u \in Seq(Nat) /\ Len(u) = Len(s) + m /\ Len(s) \in Nat
      /\ \A i \in 1..Len(s) + m : u[i] = IF i <= Len(s) THEN s[i] ELSE t[i - Len(s)]
    BY <1>1, Concat
<1>3. ASSUME NEW i \in 1..Len(u), i <= Len(s) PROVE u[i] = s[i] /\ u[i] \in 1..d
    BY <1>2, <1>3 DEF InOrder
<1>4. ASSUME NEW i \in 1..Len(u), ~(i <= Len(s)) PROVE u[i] = d + (i - Len(s))
    BY <1>1, <1>2, <1>4
<1>5. \A i \in 1..Len(u) : u[i] \in 1..(d + n)
    BY <1>2, <1>3, <1>4
<1>6. ASSUME NEW i \in 1..Len(u), NEW j \in 1..Len(u), i < j PROVE u[i] < u[j]
    <2>1. CASE j <= Len(s)
        BY <1>2, <1>3, <1>6, <2>1 DEF InOrder
    <2>2. CASE ~(j <= Len(s)) /\ i <= Len(s)
        BY <1>2, <1>3, <1>4, <2>2
    <2>3. CASE ~(j <= Len(s)) /\ ~(i <= Len(s))
        BY <1>2, <1>4, <1>6, <2>3
    <2> QED BY <1>2, <2>1, <2>2, <2>3
<1> HIDE DEF u
<1>7. InOrder(u, d + n)
    BY <1>5, <1>6 DEF InOrder
<1> QED BY <1>2, <1>7 DEF u, t

\* What fclose leaves of it is in order too.
LEMMA BeginningInOrder ==
    ASSUME d \in Nat, NEW s \in Seq(Nat), NEW k \in 0..Len(s)
    PROVE  /\ SubSeq(s, 1, k) \in Seq(Nat)
           /\ InOrder(s, d) => InOrder(SubSeq(s, 1, k), d)
           /\ k = Len(s) => SubSeq(s, 1, k) = s
<1> DEFINE u == SubSeq(s, 1, k)
<1>1. Len(s) \in Nat
    BY LenProperties
<1>2. u \in Seq(Nat) /\ Len(u) = k /\ \A i \in 1..k : u[i] = s[i]
    BY <1>1, SubSeqProperties
<1> HIDE DEF u
<1>3. ASSUME InOrder(s, d) PROVE InOrder(u, d)
    <2>1. \A i \in 1..Len(s) : s[i] \in 1..d
        BY <1>3 DEF InOrder
    <2>2. \A i, j \in 1..Len(s) : i < j => s[i] < s[j]
        BY <1>3 DEF InOrder
    <2>3. \A i \in 1..k : i \in 1..Len(s)
        BY <1>1
    <2> QED BY <1>2, <2>1, <2>2, <2>3 DEF InOrder
<1>4. k = Len(s) => u = s
    BY <1>1, <1>2, SeqEqual
<1> QED BY <1>2, <1>3, <1>4 DEF u

\* An empty buffer has no bytes.
LEMMA EmptyBuffer == ASSUME TypeOK, Room, pc # "overrun", size = 0 PROVE mem = <<>>
<1>1. Len(mem) \in Nat /\ Len(mem) <= 0
    BY LenProperties DEF TypeOK, Room
<1> QED BY <1>1, EmptySeq DEF TypeOK

-----------------------------------------------------------------------------
(* A chunk. *)

LEMMA ChunkToBuffer ==
    ASSUME DownloadInv, NEW n \in Chunks, EvChunk(n), ~export_file
    PROVE  DownloadInv'
<1> USE DEF DownloadInv, TypeOK
<1>1. /\ n \in Nat \ {0} /\ Initial \in Nat /\ BodyLen \in Nat
      /\ d + n <= BodyLen /\ d' = IF pc' = "overrun" THEN d ELSE d + n
      /\ UNCHANGED <<export_file, known, status, fd, file, short, conn, runs, ret>>
      /\ Allocate(n) /\ pc = "polling" /\ conn = "up" /\ status = 200
      /\ mem' = IF error' = 0 THEN mem \o Bytes(n) ELSE IF size' = 0 THEN <<>> ELSE mem
      /\ pc' = IF Len(mem') > size' THEN "overrun" ELSE pc
    BY ChunksAssumption DEF EvChunk, ToBuffer, args, disk, Deleted
<1>2. /\ Bytes(n) \in Seq(Nat) /\ mem \o Bytes(n) \in Seq(Nat)
      /\ Len(mem \o Bytes(n)) = Len(mem) + n /\ Len(mem) \in Nat
      /\ Len(<<>>) = 0 /\ <<>> \in Seq(Nat) /\ Len(mem) <= size
    <2>1. Bytes(n) \in Seq(Nat) /\ Len(Bytes(n)) = n
        BY <1>1, BodyBytes
    <2> QED BY <1>1, <2>1, Concat, EmptySeq DEF Room
<1>3. error' = 0 => error = 0
    BY <1>1 DEF Allocate, Outcome
<1>4. PICK ok \in IF size = 0 \/ Len(mem) + n > size THEN BOOLEAN ELSE {TRUE} :
        /\ IF ok THEN UNCHANGED <<error, running>> ELSE error' = 1 /\ running' = 0
        /\ IF size = 0
           THEN /\ ptr' = IF ok THEN "live" ELSE "null"
                /\ size' = IF known THEN BodyLen ELSE Initial
           ELSE IF Len(mem) + n > size
           THEN /\ ptr' = IF ok THEN "live" ELSE "freed"
                /\ size' = IF ok THEN size + 3 * n ELSE 0
           ELSE UNCHANGED <<ptr, size>>
    BY <1>1 DEF Allocate, Outcome, Grown
<1>5. size = 0 => mem = <<>> /\ (error = 0 => d = 0)
    <2>1. Len(Body(d)) = d
        BY BodyBytes
    <2> QED BY <1>1, <1>2, <2>1, EmptyBuffer DEF InMemory
<1>6. TypeOK' /\ Room'
    <2> USE DEF Room, BufferHolds
    <2>1. CASE size = 0
        BY <1>1, <1>2, <1>3, <1>4, <1>5, <2>1
    <2>2. CASE size # 0 /\ Len(mem) + n > size
        BY <1>1, <1>2, <1>4, <2>2
    <2>3. CASE size # 0 /\ ~(Len(mem) + n > size)
        BY <1>1, <1>2, <1>4, <2>3
    <2> QED BY <2>1, <2>2, <2>3
<1>7. InMemory'
    BY <1>1, <1>3, ChunkContinues DEF InMemory, Body
<1>8. Beginning' /\ InFile' /\ Told'
    BY <1>1 DEF Beginning, InFile, Told
<1> QED BY <1>6, <1>7, <1>8

LEMMA ChunkToFile ==
    ASSUME DownloadInv, NEW n \in Chunks, EvChunk(n), export_file
    PROVE  DownloadInv'
<1> USE DEF DownloadInv, TypeOK
<1>1. /\ n \in Nat \ {0}
      /\ UNCHANGED <<pc, export_file, known, status, conn, runs, ret, ptr, size, mem>>
      /\ pc = "polling" /\ conn = "up" /\ status = 200
      /\ d' = d + n
    BY ChunksAssumption DEF EvChunk, ToFile, args, Deleted, buffer
<1>2. PICK ok \in BOOLEAN, m \in 0..n :
          /\ fd => ok
          /\ fd' = ok
          /\ file' = IF ok THEN [there |-> TRUE, bytes |-> file.bytes \o Bytes(m)] ELSE file
          /\ short' = (short \/ (ok /\ m < n))
          /\ IF ok THEN UNCHANGED <<error, running>> ELSE error' = 1 /\ running' = 0
    BY DEF EvChunk, ToFile, Outcome
<1>3. file.bytes \in Seq(Nat) /\ file.bytes \o Bytes(m) \in Seq(Nat) /\ m \in Nat
    <2>1. Bytes(m) \in Seq(Nat) /\ file.bytes \in Seq(Nat) /\ m \in Nat
        BY <1>1, BodyBytes
    <2> QED BY <2>1, Concat
<1>4. TypeOK' /\ Room'
    <2>1. file' \in [there : BOOLEAN, bytes : Seq(Nat)]
        BY <1>2, <1>3
    <2> QED BY <1>1, <1>2, <2>1 DEF Room, BufferHolds
<1>5. ASSUME error = 0, ok
      PROVE  InOrder(file.bytes \o Bytes(m), d + n) /\ (~short' => file.bytes \o Bytes(m) = Body(d + n))
    <2>1. InOrder(file.bytes, d) /\ (~short => file.bytes = Body(d))
        <3>1. CASE d > 0
            BY <1>5, <3>1 DEF InFile
        <3>2. CASE ~(d > 0)
            <4>1. d = 0 /\ file.bytes = <<>> /\ Body(d) = <<>> /\ Len(<<>>) = 0
                BY <1>1, <3>2, NoBytes, EmptySeq DEF Beginning
            <4> QED BY <4>1 DEF InOrder
        <3> QED BY <3>1, <3>2
    <2>2. InOrder(file.bytes \o Bytes(m), d + n)
        BY <1>1, <1>2, <1>3, <2>1, ChunkInOrder
    <2>3. ~short' => m = n /\ ~short
        <3>1. ~short' => ~short /\ ~(m < n)
            BY <1>2, <1>5, Zenon
        <3>2. ~(m < n) => m = n
            BY <1>1, <1>2
        <3> QED BY <3>1, <3>2
    <2> QED BY <1>1, <2>1, <2>2, <2>3, ChunkContinues
<1>6. InFile'
    <2>1. CASE ok
        BY <1>1, <1>2, <1>5, <2>1 DEF InFile, InOrder, Body
    <2>2. CASE ~ok
        <3>1. ~fd /\ file' = file /\ error' # 0
            BY <1>2, <2>2
        <3>2. file = Absent
            BY <1>1, <3>1 DEF InFile, Beginning
        <3> QED BY <3>1, <3>2 DEF InFile, Absent
    <2> QED BY <1>2, <2>1, <2>2
<1> QED BY <1>1, <1>4, <1>6 DEF Beginning, InMemory, Told

-----------------------------------------------------------------------------
LEMMA DownloadInitial == Init => DownloadInv
<1> SUFFICES ASSUME Init PROVE DownloadInv
    OBVIOUS
<1>1. TypeOK
    BY NoBytes DEF Init, TypeOK
<1>2. Room /\ InMemory
    BY NoBytes, EmptySeq DEF Init, Room, BufferHolds, InMemory
<1>3. Beginning /\ InFile /\ Told
    BY DEF Init, Beginning, InFile, Told
<1> QED BY <1>1, <1>2, <1>3 DEF DownloadInv

LEMMA DownloadFinishes ==
    ASSUME DownloadInv, Finish
    PROVE  DownloadInv'
<1> USE DEF DownloadInv, TypeOK
<1>1. /\ UNCHANGED <<export_file, known, status, error, fd, d, mem, size, ptr>>
      /\ pc = "polling" /\ pc' = "idle" /\ conn' = "gone"
      /\ ret' = IF error # 0 THEN -1 ELSE 0
      /\ IF export_file /\ fd THEN Closed ELSE UNCHANGED <<file, short>>
    BY DEF Finish, buffer
<1>2. TypeOK' /\ (error = 0 => InFile') /\ (error # 0 /\ export_file /\ d > 0 => file' = Absent)
    <2>1. CASE export_file /\ fd
        <3>1. file.bytes \in Seq(Nat)
            OBVIOUS
        <3>2. PICK k \in 0..Len(file.bytes) :
                 /\ file' = Leftover(SubSeq(file.bytes, 1, k))
                 /\ short' = (short \/ k < Len(file.bytes))
            BY <1>1, <2>1 DEF Closed
        <3> DEFINE kept == SubSeq(file.bytes, 1, k)
        <3>3. /\ kept \in Seq(Nat) /\ (InOrder(file.bytes, d) => InOrder(kept, d))
              /\ Len(file.bytes) \in Nat /\ (k = Len(file.bytes) => kept = file.bytes)
            BY <3>1, BeginningInOrder, LenProperties
        <3>4. file' = IF error # 0 THEN Absent ELSE [there |-> TRUE, bytes |-> kept]
            BY <3>2 DEF Leftover
        <3> HIDE DEF kept
        <3>5. TypeOK'
            <4>1. file' \in [there : BOOLEAN, bytes : Seq(Nat)]
                BY <3>3, <3>4, NoBytes
            <4>2. short' \in BOOLEAN
                BY <3>2
            <4> QED BY <1>1, <4>1, <4>2
        <3>6. ASSUME error = 0 PROVE InFile'
            <4>1. file'.bytes = kept /\ file'.there
                BY <3>4, <3>6
            <4>2. ~short' => ~short /\ k = Len(file.bytes)
                <5>1. ~short' => ~short /\ ~(k < Len(file.bytes))
                    BY <3>2, Zenon
                <5>2. ~(k < Len(file.bytes)) => k = Len(file.bytes)
                    BY <3>3
                <5> QED BY <5>1, <5>2
            <4>3. d > 0 => InOrder(file.bytes, d) /\ (~short => file.bytes = Body(d))
                BY <2>1, <3>6 DEF InFile
            <4>4. d > 0 => InOrder(kept, d) /\ (~short' => kept = Body(d))
                BY <3>3, <4>2, <4>3
            <4> QED BY <1>1, <2>1, <4>1, <4>4 DEF InFile, InOrder, Body
        <3> QED BY <3>4, <3>5, <3>6
    <2>2. CASE ~(export_file /\ fd)
        BY <1>1, <2>2 DEF InFile, InOrder, Body
    <2> QED BY <2>1, <2>2
<1>3. Room' /\ Beginning' /\ InMemory'
    BY <1>1, NoBytes DEF Room, BufferHolds, Beginning, InMemory, Body
<1>4. InFile' /\ Told'
    BY <1>1, <1>2 DEF InFile, Told, Absent
<1> QED BY <1>2, <1>3, <1>4

LEMMA DownloadStep ==
    ASSUME DownloadInv, Next
    PROVE  DownloadInv'
<1> USE DEF DownloadInv, TypeOK
<1>1. CASE Start
    <2>1. TypeOK'
        BY <1>1, EmptySeq DEF Start
    <2>2. Room'
        BY <1>1, EmptySeq DEF Start, Room, BufferHolds
    <2>3. InMemory'
        BY <1>1, NoBytes DEF Start, InMemory, Body
    <2>4. Beginning' /\ InFile' /\ Told'
        BY <1>1 DEF Start, Beginning, InFile, Told
    <2> QED BY <2>1, <2>2, <2>3, <2>4
<1>2. CASE Finish
    BY <1>2, DownloadFinishes
<1>3. CASE EvConnect
    BY <1>3, NoBytes DEF EvConnect, Connected, call, args, buffer,
                Room, BufferHolds, Beginning, InMemory, InFile, Told, Body, InOrder, Absent
<1>4. CASE EvClose \/ EvEnd \/ EvError
    <2>1. /\ UNCHANGED <<pc, export_file, known, status, fd, d, mem, size, ptr, file, short>>
          /\ pc = "polling" /\ (error' = error \/ error' = 1)
          /\ conn' \in {"gone", "ended", "closing"}
        BY <1>4 DEF EvClose, EvEnd, EvError, call, args, buffer, disk
    <2> QED BY <2>1 DEF Room, BufferHolds, Beginning, InMemory, InFile, Told, Body, InOrder, Absent
<1>5. CASE EvStatus
    <2>1. /\ UNCHANGED <<pc, export_file, known, status, fd, d, mem, size, ptr, file, short, conn>>
          /\ pc = "polling" /\ status # 200
        BY <1>5 DEF EvStatus, call, args, buffer, disk
    <2>2. d = 0 /\ size = 0 /\ mem = <<>> /\ Body(0) = <<>>
        BY <2>1, NoBytes DEF Beginning
    <2> QED BY <2>1, <2>2 DEF Room, BufferHolds, Beginning, InMemory, InFile, Told, Body, InOrder, Absent
<1>6. ASSUME NEW n \in Chunks, EvChunk(n) PROVE DownloadInv'
    BY <1>6, ChunkToBuffer, ChunkToFile
<1> QED BY <1>1, <1>2, <1>3, <1>4, <1>5, <1>6 DEF Next

LEMMA DownloadInvariant == Spec => []DownloadInv
<1>1. Init => DownloadInv
    BY DownloadInitial
<1>2. DownloadInv /\ [Next]_vars => DownloadInv'
    <2>1. ASSUME DownloadInv, UNCHANGED vars PROVE DownloadInv'
        BY <2>1 DEF DownloadInv, TypeOK, Room, BufferHolds, Beginning, InMemory, InFile, Told,
                    Body, InOrder, Absent, vars, buffer, disk, args
    <2> QED BY <2>1, DownloadStep
<1> QED BY <1>1, <1>2, PTL DEF Spec

(* The used part of the buffer fits what is allocated, but for the first copy  *)
(* of a body of unknown length, and is never the freed block of a realloc that   *)
(* failed, whatever the sizes of the chunks. (web.c 461-510)                       *)
THEOREM DownloadFits == Spec => []BufferHolds
<1>1. DownloadInv => BufferHolds
    BY DEF DownloadInv, Room
<1> QED BY <1>1, DownloadInvariant, PTL

(* A download that succeeded delivered each byte once and in order to memory,   *)
(* and to the file what the disk took of them, in order; one that failed leaves  *)
(* no part of it. (web.c 408-555)                                                  *)
THEOREM DownloadDelivers == Spec => []BodyOrNothing
<1>1. DownloadInv => BodyOrNothing
    BY DEF DownloadInv, TypeOK, InMemory, InFile, Told, BodyOrNothing
<1> QED BY <1>1, DownloadInvariant, PTL
-----------------------------------------------------------------------------
(* The HTTP server. *)

ApiTypeOK ==
    /\ phase \in {"poll", "parse", "closed", "gone"}
    /\ stream \in Seq(Request) /\ taken \in Nat /\ taken <= Len(stream)
    /\ unread \in Nat /\ recv \in Nat /\ unsent \in Nat
    /\ replies \in Seq({200, 400, 401, 404})

\* What the three marks say of a connection: only a buffer that is too full
\* closes it at once, and only a refused request lets it drain.
Marked == /\ is_full => is_closing
          /\ phase \in {"poll", "parse"} /\ is_closing => is_full
          /\ is_draining => is_full \/ replies # <<>>

ApiInv == ApiTypeOK /\ Marked /\ AnsweredInTurn

LEMMA RequestSent ==
    ASSUME ApiTypeOK, taken < Len(stream)
    PROVE  stream[taken + 1] \in Request
<1>1. Len(stream) \in Nat /\ taken + 1 \in 1..Len(stream)
    BY LenProperties DEF ApiTypeOK
<1> QED BY <1>1, ElementOfSeq DEF ApiTypeOK

LEMMA ApiInitial == ApiInit => ApiInv
<1> SUFFICES ASSUME ApiInit PROVE ApiInv
    OBVIOUS
<1>1. ApiTypeOK
    BY EmptySeq DEF ApiInit, ApiTypeOK
<1>2. Marked
    BY DEF ApiInit, Marked
<1>3. AnsweredInTurn
    BY EmptySeq DEF ApiInit, AnsweredInTurn
<1> QED BY <1>1, <1>2, <1>3 DEF ApiInv

\* A request that is answered: its answer is the next one.
LEMMA RequestAnswered ==
    ASSUME ApiInv, EvHttpMsg, ~is_closing
    PROVE  ApiInv'
<1> DEFINE q == stream[taken + 1]
           answer == Verdict(q)
<1>1. /\ taken < Len(stream) /\ q.size <= recv /\ recv' = recv - q.size
      /\ taken' = taken + 1 /\ phase = "parse"
      /\ UNCHANGED <<running_flag, phase, stream, unread, is_full, is_closing>>
      /\ replies' = Append(replies, answer) /\ unsent' = unsent + 1
      /\ is_draining' = (is_draining \/ answer # 200)
    BY DEF EvHttpMsg, Ignored, Refuse
<1>2. q.size \in Nat /\ answer \in {200, 400, 401, 404}
    BY <1>1, RequestSent DEF Request, Verdict, ApiInv
<1> HIDE DEF q
<1>3. /\ replies' \in Seq({200, 400, 401, 404}) /\ Len(replies) \in Nat
      /\ Len(replies') = Len(replies) + 1 /\ replies'[Len(replies) + 1] = answer
      /\ \A k \in 1..Len(replies) : replies'[k] = replies[k]
      /\ DOMAIN replies' = 1..(Len(replies) + 1) /\ DOMAIN replies = 1..Len(replies)
      /\ replies' # <<>>
    <2> HIDE DEF answer
    <2>1. replies \in Seq({200, 400, 401, 404})
        BY DEF ApiInv, ApiTypeOK
    <2> QED BY <1>1, <1>2, <2>1, AppendProperties, LenProperties, EmptySeq
<1> HIDE DEF answer
<1>4. ApiTypeOK'
    <2>1. recv - q.size \in Nat /\ taken + 1 \in Nat /\ unsent + 1 \in Nat /\ taken + 1 <= Len(stream)
        <3>1. Len(stream) \in Nat
            BY LenProperties DEF ApiInv, ApiTypeOK
        <3> QED BY <1>1, <1>2, <3>1 DEF ApiInv, ApiTypeOK
    <2> QED BY <1>1, <1>3, <2>1 DEF ApiInv, ApiTypeOK
<1>5. ~is_full /\ Len(replies) = taken
    BY <1>1 DEF ApiInv, Marked, AnsweredInTurn
<1>6. Marked'
    BY <1>1, <1>3 DEF ApiInv, Marked
<1>7. AnsweredInTurn'
    <2>1. Len(replies') = taken'
        BY <1>1, <1>3, <1>5
    <2>2. ASSUME NEW k \in DOMAIN replies' PROVE replies'[k] = Verdict(stream'[k])
        <3>1. CASE k = Len(replies) + 1
            BY <1>1, <1>3, <1>5, <3>1 DEF q, answer
        <3>2. CASE k # Len(replies) + 1
            <4>1. k \in 1..Len(replies)
                BY <1>3, <3>2
            <4> QED BY <1>1, <1>3, <4>1 DEF ApiInv, AnsweredInTurn
        <3> QED BY <3>1, <3>2
    <2> QED BY <1>1, <1>3, <2>1, <2>2, taken' \in Nat DEF AnsweredInTurn, ApiTypeOK
<1> QED BY <1>4, <1>6, <1>7 DEF ApiInv

LEMMA ApiStep ==
    ASSUME ApiInv, [ApiNext]_apiVars
    PROVE  ApiInv'
<1> USE DEF ApiInv
<1>1. ASSUME NEW n \in 1..ReadMax, EvRead(n) PROVE ApiInv'
    <2>1. unread' \in Nat /\ recv' \in Nat
        BY <1>1, SizesAssumption DEF EvRead, ApiTypeOK
    <2>2. is_full' \/ UNCHANGED marks
        BY <1>1 DEF EvRead
    <2> QED BY <1>1, <2>1, <2>2 DEF EvRead, marks, answers, ApiTypeOK, Marked, AnsweredInTurn
<1>2. CASE EvHttpMsg /\ ~is_closing
    BY <1>2, RequestAnswered
<1>3. CASE EvHttpMsg /\ is_closing
    <2>1. /\ taken < Len(stream) /\ taken' = taken + 1 /\ phase = "parse" /\ is_full
          /\ recv' = recv - stream[taken + 1].size /\ stream[taken + 1].size <= recv
          /\ UNCHANGED <<running_flag, phase, stream, unread, is_full, is_closing, is_draining,
                         replies, unsent>>
        BY <1>3 DEF EvHttpMsg, Ignored, answers, Marked
    <2>2. stream[taken + 1].size \in Nat
        BY <2>1, RequestSent DEF Request
    <2>3. recv' \in Nat /\ taken' \in Nat /\ taken' <= Len(stream')
        <3>1. Len(stream) \in Nat
            BY LenProperties DEF ApiTypeOK
        <3> QED BY <2>1, <2>2, <3>1 DEF ApiTypeOK
    <2>4. Len(replies) <= taken'
        BY <2>1, LenProperties DEF ApiTypeOK, AnsweredInTurn
    <2> QED BY <2>1, <2>3, <2>4 DEF ApiTypeOK, Marked, AnsweredInTurn
<1>4. CASE ParseEnd \/ Stop \/ ClientLeaves
    BY <1>4 DEF ParseEnd, Stop, ClientLeaves, marks, answers, ApiTypeOK, Marked, AnsweredInTurn
<1>5. CASE Write
    BY <1>5 DEF Write, marks, ApiTypeOK, Marked, AnsweredInTurn
<1>6. CASE CloseConn
    <2>1. ~is_full => unsent = 0 /\ replies # <<>>
        BY <1>6 DEF CloseConn, Marked
    <2> QED BY <1>6, <2>1 DEF CloseConn, answers, ApiTypeOK, Marked, AnsweredInTurn
<1>7. ASSUME NEW q \in Requests, Send(q) PROVE ApiInv'
    <2>1. q \in Request /\ q.size \in Nat
        BY RequestsAssumption DEF Request
    <2>2. /\ stream' \in Seq(Request) /\ Len(stream') = Len(stream) + 1 /\ Len(stream) \in Nat
          /\ \A k \in 1..Len(stream) : stream'[k] = stream[k]
        BY <1>7, <2>1, AppendProperties, LenProperties DEF Send, ApiTypeOK
    <2>3. UNCHANGED <<phase, running_flag, recv, taken, is_closing, is_draining, is_full, replies, unsent>>
        BY <1>7 DEF Send, marks, answers
    <2>4. \A k \in DOMAIN replies : k \in 1..Len(stream)
        BY <2>2, LenProperties DEF ApiTypeOK, AnsweredInTurn
    <2>5. ApiTypeOK'
        BY <1>7, <2>1, <2>2, <2>3 DEF Send, ApiTypeOK
    <2> QED BY <2>2, <2>3, <2>4, <2>5 DEF Marked, AnsweredInTurn
<1>8. CASE UNCHANGED apiVars
    BY <1>8 DEF apiVars, ApiTypeOK, Marked, AnsweredInTurn
<1> QED BY <1>1, <1>2, <1>3, <1>4, <1>5, <1>6, <1>7, <1>8 DEF ApiNext

LEMMA ApiInvariant == ApiSpec => []ApiInv
  BY ApiInitial, ApiStep, PTL DEF ApiSpec

(* Up to the limit every request is answered, once and in turn, and in writing *)
(* before the server closes on its own: for every limit, size of a read and      *)
(* sequence of requests. (web.c 148-230)                                           *)
THEOREM ApiAnswers == ApiSpec => []AnsweredInTurn
<1>1. ApiInv => AnsweredInTurn
    BY DEF ApiInv
<1> QED BY <1>1, ApiInvariant, PTL

(* A connection whose buffer was too full is not read, answered or given to a  *)
(* handler again. (web.c 148-156)                                                 *)
THEOREM ApiStopsAtLimit == ApiSpec => NothingBeyondLimit
<1>1. ApiInv /\ [ApiNext]_apiVars
          => [is_full => replies' = replies /\ handled' = handled /\ recv' <= recv]_apiVars
    <2> SUFFICES ASSUME ApiInv, ApiNext, is_full
                 PROVE  replies' = replies /\ handled' = handled /\ recv' <= recv
        OBVIOUS
    <2>1. recv \in Nat /\ is_closing
        BY DEF ApiInv, ApiTypeOK, Marked
    <2>2. ASSUME NEW n \in 1..ReadMax, EvRead(n) PROVE FALSE
        BY <2>2 DEF EvRead
    <2>3. CASE EvHttpMsg
        <3>1. /\ taken < Len(stream) /\ recv' = recv - stream[taken + 1].size
              /\ replies' = replies /\ handled' = handled
            BY <2>1, <2>3 DEF EvHttpMsg, Ignored, answers
        <3>2. stream[taken + 1].size \in Nat
            BY <3>1, RequestSent DEF Request, ApiInv
        <3> QED BY <2>1, <3>1, <3>2
    <2>4. CASE ParseEnd \/ Write \/ CloseConn \/ Stop \/ ClientLeaves
        <3>1. replies' = replies /\ handled' = handled /\ recv' = recv
            BY <2>4 DEF ParseEnd, Write, CloseConn, Stop, ClientLeaves, answers
        <3> QED BY <2>1, <3>1
    <2>5. ASSUME NEW q \in Requests, Send(q)
          PROVE  replies' = replies /\ handled' = handled /\ recv' <= recv
        BY <2>1, <2>5 DEF Send, answers
    <2> QED BY <2>2, <2>3, <2>4, <2>5 DEF ApiNext
<1> QED BY <1>1, ApiInvariant, PTL DEF ApiSpec, NothingBeyondLimit
=============================================================================
