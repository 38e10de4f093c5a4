----------------------------- MODULE IsoBuffer -----------------------------
(***************************************************************************)
(* The cursor over an ISO 8583 message (iso_buffer.c, from iso_init to        *)
(* iso_get_bcdstr): a program packs items one behind the other, then rewinds  *)
(* the cursor and gets them back. An item that does not fit is dropped and a  *)
(* get at the end refused, each without a word to the caller.                 *)
(***************************************************************************)
EXTENDS Integers, Sequences

CONSTANTS
    N,          \* ISO_BUFFER_LENGTH
    LongRange,  \* how many values a long has
    Items,      \* the items a program packs
    MaxOffers   \* bound: items offered

\* A byte or word is a number, mem its bytes, bcd its digits (ascii2bcd done).
Item == [kind : {"byte", "word"}, data : Nat]
        \cup [kind : {"mem"}, data : Seq(0..255)]
        \cup [kind : {"bcd"}, data : Seq(0..15)]

ASSUME LengthAssumption == N \in Nat \ {0}
ASSUME LongAssumption == LongRange \in Nat \ {0}
ASSUME ItemsAssumption == Items \subseteq Item

VARIABLES
    buffer,   \* buffer[0] .. buffer[N - 1]
    index,    \* the cursor
    phase,    \* "pack", then "get"
    offered,  \* how many items were given to the packing functions
    asked,    \* history: the bytes of all of them
    lost,     \* history: one that has bytes was dropped
    taken,    \* history: those that were stored, and the index they were stored at
    next,     \* how many of them have been got back
    got       \* the last get: which function, and what it returned

bufferVars == <<buffer, index, phase, offered, asked, lost, taken, next, got>>
packed == <<offered, asked, lost, taken>>

Nothing == [by |-> "none", value |-> <<>>]

-----------------------------------------------------------------------------
(* What the items look like in the buffer. *)

\* (value & 0xFF00) >> 8, then value & 0xFF
WordBytes(v) == <<(v \div 256) % 256, v % 256>>

\* Two digits a byte; of an odd number the first has a byte of its own.
BcdBytes(d) ==
    LET odd == Len(d) % 2 IN
        [k \in 1..(Len(d) + 1) \div 2 |->
            IF k = 1 /\ odd = 1 THEN d[1] ELSE d[2*k - 1 - odd] * 16 + d[2*k - odd]]

Bytes(item) == CASE item.kind = "byte" -> <<item.data % 256>>
                 [] item.kind = "word" -> WordBytes(item.data)
                 [] item.kind = "mem"  -> item.data
                 [] item.kind = "bcd"  -> BcdBytes(item.data)

\* What hexify makes of bytes: the two digits of each.
Hexify(bytes) ==
    [k \in 1..2 * Len(bytes) |->
        LET b == bytes[(k + 1) \div 2] IN IF k % 2 = 1 THEN b \div 16 ELSE b % 16]

\* iso_get_word: res <<= 8 between two bytes
Word(bytes) == bytes[1] * 256 + bytes[2]

\* The long whose bits are those of n.
Signed(n) == IF n < LongRange \div 2 THEN n ELSE n - LongRange

\* res <<= 8; res += the next byte, in a long, whose highest byte is lost where it
\* is full. f[k] is the result after k bytes.
Number(bytes) ==
    LET f[k \in 0..Len(bytes)] ==
            IF k = 0 THEN 0 ELSE (f[k - 1] * 256 + bytes[k]) % LongRange
    IN  Signed(f[Len(bytes)])

-----------------------------------------------------------------------------
(* iso_init and the packing functions *)

BufferInit ==
    /\ buffer = [k \in 0..N-1 |-> 0]
    /\ index = 0
    /\ phase = "pack"
    /\ offered = 0 /\ asked = 0 /\ lost = FALSE /\ taken = <<>>
    /\ next = 0
    /\ got = Nothing

Put(bytes) ==
    /\ buffer' = [k \in 0..N-1 |-> IF k \in index..index + Len(bytes) - 1
                                   THEN bytes[k - index + 1] ELSE buffer[k]]
    /\ index' = index + Len(bytes)

\* Mutant of RoomFor: one byte too many.
RoomForOneMore(len) == index <= N - len + 1

\* The test of iso_pack_byte, iso_pack_word and iso_pack_mem.
RoomFor(len) == index <= N - len

\* Mutant of RoomForBcd: room for the digits, not for their bytes.
RoomForBcdTight(len) == index < N - 2 * len

\* That of iso_pack_strbcd, of its bytes.
RoomForBcd(len) == index < N - len

Offer(item, room) ==
    /\ phase = "pack"
    /\ offered < MaxOffers
    /\ offered' = offered + 1
    /\ asked' = asked + Len(Bytes(item))
    /\ IF room /\ Len(Bytes(item)) > 0
       THEN /\ Put(Bytes(item))
            /\ taken' = Append(taken, [item |-> item, at |-> index])
            /\ UNCHANGED lost
       ELSE /\ lost' = (lost \/ Len(Bytes(item)) > 0)
            /\ UNCHANGED <<buffer, index, taken>>
    /\ UNCHANGED <<phase, next, got>>

PackByte == \E item \in Items : item.kind = "byte" /\ Offer(item, RoomFor(1))
PackWord == \E item \in Items : item.kind = "word" /\ Offer(item, RoomFor(2))
PackMem  == \E item \in Items : item.kind = "mem" /\ Offer(item, RoomFor(Len(item.data)))
PackBcd  == \E item \in Items :
                item.kind = "bcd" /\ Offer(item, RoomForBcd((Len(item.data) + 1) \div 2))

\* The message is complete; the reader starts at its first byte.
Rewind ==
    /\ phase = "pack"
    /\ phase' = "get"
    /\ index' = 0
    /\ UNCHANGED <<buffer, packed, next, got>>

-----------------------------------------------------------------------------
(* The getting functions: item by item, as they were packed. *)

Ahead(len) == [k \in 1..len |-> buffer[index + k - 1]]

\* A get of len bytes by a function that returns `value`, `refusal` without room.
Get(by, len, room, value, refusal) ==
    /\ next' = next + 1
    /\ IF room
       THEN index' = index + len /\ got' = [by |-> by, value |-> value]
       ELSE index' = index /\ got' = [by |-> by, value |-> refusal]
    /\ UNCHANGED <<buffer, phase, packed>>

\* The next item to get back is one of kind k, of len bytes.
Due(k, len) ==
    /\ phase = "get" /\ next < Len(taken)
    /\ taken[next + 1].item.kind = k /\ Len(Bytes(taken[next + 1].item)) = len

\* The test of iso_get_waste, iso_get_int_bytes and iso_get_word, which refuses
\* the last len bytes; iso_get_byte, iso_get_mem and iso_get_bcdstr give them.
InsideBy(len) == index < N - len

GetByte == Due("byte", 1) /\ Get("byte", 1, index < N, Ahead(1), <<0>>)
GetWord == Due("word", 2) /\ Get("word", 2, InsideBy(2), <<Word(Ahead(2))>>, <<0>>)
GetMem(len) == Due("mem", len) /\ Get("mem", len, index <= N - len, Ahead(len), <<>>)
GetWaste(len) == Due("mem", len) /\ Get("waste", len, InsideBy(len), <<0>>, <<-1>>)
GetIntBytes(len) ==
    Due("mem", len) /\ Get("int", len, InsideBy(len), <<Number(Ahead(len))>>, <<0>>)
GetBcdStr(len) ==
    Due("bcd", len) /\ Get("bcd", len, index <= N - len, Hexify(Ahead(len)), <<>>)

BufferNext ==
    \/ PackByte \/ PackWord \/ PackMem \/ PackBcd \/ Rewind
    \/ GetByte \/ GetWord
    \/ \E len \in 1..N : GetMem(len) \/ GetWaste(len) \/ GetIntBytes(len) \/ GetBcdStr(len)

BufferSpec == BufferInit /\ [][BufferNext]_bufferVars

-----------------------------------------------------------------------------
(* Every variable has its type; the cursor is inside the buffer or at its end. *)
BufferTypeOK ==
    /\ buffer \in [0..N-1 -> 0..255]
    /\ index \in 0..N
    /\ phase \in {"pack", "get"}
    /\ next \in 0..Len(taken)

(* While everything offered leaves the last byte free, nothing is dropped,   *)
(* however the items follow each other. (iso_buffer.c 271-307)               *)
NothingLost == asked < N => ~lost

\* What a function must make of an item.
Expected(by, item) ==
    CASE by = "byte"  -> <<item.data % 256>>
      [] by = "word"  -> <<item.data % 65536>>
      [] by = "mem"   -> item.data
      [] by = "waste" -> <<0>>
      [] by = "int"   -> <<Number(item.data)>>
      [] by = "bcd"   -> IF Len(item.data) % 2 = 0 THEN item.data ELSE <<0>> \o item.data

\* Where the k-th item stored ends.
End(k) == IF k = 0 THEN 0 ELSE taken[k].at + Len(Bytes(taken[k].item))

(* What is got is what was packed, and the cursor is where the packing of    *)
(* the item ended, whatever was packed and dropped before; only the item     *)
(* that ends at the last byte of the buffer can be refused.                  *)
(* (iso_buffer.c 266-391)                                                    *)
RoundTrip ==
    next > 0 /\ (next < Len(taken) \/ End(Len(taken)) < N) =>
        /\ got.value = Expected(got.by, taken[next].item)
        /\ index = End(next)

(* The two together: what fits is kept, and what was kept comes back.         *)
(* (iso_buffer.c 266-391)                                                     *)
PackedComesBack == NothingLost /\ RoundTrip
=============================================================================
