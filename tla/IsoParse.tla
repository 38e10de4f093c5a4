------------------------------ MODULE IsoParse ------------------------------
(***************************************************************************)
(* The check of a received ISO 8583 message against a table of field         *)
(* definitions (iso_buffer.c, iso_get_buffer and iso_test_buffer): message    *)
(* type, bitmap, then the fields the bitmaps name, one loop iteration each.   *)
(***************************************************************************)
EXTENDS Integers, Sequences

CONSTANTS
    IsoLen, Tpdu,   \* bytes before the message type: length and TPDU
    Defs,           \* Defs[i]: the definition at index i, field i - 1
    Messages        \* what was composed, and what iso_test_buffer is given of it

\* A definition: LEN_FIX is 0, LEN_1L .. LEN_4L are 1 .. 4.
FieldDef == [len_var : 0..4, len_type : {"NONE", "BYTE", "BCD"},
             max_len : Nat, field_type : {"NONE", "BYTE", "BCD"}]

ASSUME HeaderAssumption == IsoLen \in Nat /\ Tpdu \in Nat
ASSUME DefsAssumption == Defs \in [0..129 -> FieldDef]
\* The bitmaps: 8 bytes each, as the 16 bytes of `bitmap` have room for.
ASSUME BitmapAssumption ==
    \A n \in {1, 2} : Defs[n].len_var = 0 /\ Defs[n].field_type = "BYTE"
                     /\ Defs[n].max_len = 8

VARIABLES
    sent,     \* the message somebody composed from the table, see Composed
    buf,      \* the message received; len is its length
    count,    \* bytes accounted for
    i,        \* the loop variable
    bitmap,   \* the 16 bytes of both bitmaps
    result    \* Unknown, then what iso_test_buffer returns

vars == <<sent, buf, count, i, bitmap, result>>

Unknown == -2

-----------------------------------------------------------------------------
(* iso_get_buffer: how many bytes a field takes, -1 if it does not fit.      *)

\* (n + 1) >> 1: the bytes n BCD digits take.
Halved(n) == (n + 1) \div 2

\* Two BCD digits; a nibble above 9 counts for what it is.
Digits(b) == (b \div 16) * 10 + (b % 16)

\* The number in one or two length bytes.
Declared(def, b, n) ==
    IF def.len_type = "BCD"
    THEN IF n = 1 THEN Digits(b[1]) ELSE Digits(b[1]) * 100 + Digits(b[2])
    ELSE IF n = 1 THEN b[1] ELSE b[1] * 256 + b[2]

\* Mutant of Fits: forgets the length bytes.
FitsContent(need, lenBytes, left) == need - lenBytes <= left

Fits(need, lenBytes, left) == need <= left

ContentBytes(def, n) == IF def.field_type = "BCD" THEN Halved(n) ELSE n

\* b is what is left of the message.
FieldBytes(def, b) ==
    LET lenBytes == Halved(def.len_var)
        need     == lenBytes +
                    ContentBytes(def, IF def.len_var = 0 THEN def.max_len
                                      ELSE Declared(def, b, lenBytes))
    IN  IF \/ def.len_var = 0 /\ def.field_type = "NONE"
           \/ def.len_var # 0 /\ (lenBytes > Len(b) \/ def.len_type = "NONE")
        THEN -1
        ELSE IF Fits(need, lenBytes, Len(b)) THEN need ELSE -1

-----------------------------------------------------------------------------
(* The reference: what a message composed from the table looks like. c.fields   *)
(* are its fields, c.size[k] are the digits or bytes of that of definition k,   *)
(* and c.at[k] is where it begins.                                              *)

\* ISO_HAS_FIELD(bitmap, f)
HasField(m, f) == (m[((f - 1) \div 8) + 1] \div 2^(7 - ((f - 1) % 8))) % 2 = 1

BcdByte(n) == (n \div 10) * 16 + (n % 10)

\* How a length is told: two digits a byte, or a binary number.
LengthBytes(def, n) ==
    IF def.len_var = 0 THEN <<>>
    ELSE IF def.len_type = "BCD"
    THEN IF def.len_var <= 2 THEN <<BcdByte(n)>> ELSE <<BcdByte(n \div 100), BcdByte(n % 100)>>
    ELSE IF def.len_var <= 2 THEN <<n>> ELSE <<n \div 256, n % 256>>

FieldLength(def, n) ==
    Len(LengthBytes(def, n)) + (IF def.field_type = "BCD" THEN (n + 1) \div 2 ELSE n)

\* One more than its length bytes can tell
Capacity(def) == IF def.len_type = "BCD" THEN (IF def.len_var <= 2 THEN 100 ELSE 10000)
                                         ELSE (IF def.len_var <= 2 THEN 256 ELSE 65536)

\* A field of that definition may have the size n.
MayHave(def, n) ==
    \/ def.len_var = 0 /\ def.field_type # "NONE" /\ n = def.max_len
    \/ def.len_var # 0 /\ def.len_type # "NONE" /\ n < Capacity(def)

\* Bit 1 announces the second bitmap.
Bits(fields) == fields \cup {f \in {1} : \E g \in fields : g > 64}

\* The message type, the bitmap and the fields: the definitions a message uses
Uses(c) == {0, 1} \cup {f + 1 : f \in Bits(c.fields)}

\* Its two bitmaps
Map(c) == [k \in 1..16 |-> IF k <= 8 THEN c.bytes[c.at[1] + k]
                           ELSE IF 1 \in Bits(c.fields) THEN c.bytes[c.at[2] + k - 8] ELSE 0]

\* The bitmaps name its fields.
Names(c) == \A f \in 1..128 : f \in Bits(c.fields) <=> HasField(Map(c), f)

\* Definition k has its length bytes and its content, if it is used.
Placed(c, k) ==
    IF k \in Uses(c)
    THEN /\ MayHave(Defs[k], c.size[k])
         /\ c.at[k + 1] = c.at[k] + FieldLength(Defs[k], c.size[k])
         /\ c.at[k + 1] <= Len(c.bytes)
         /\ \A j \in DOMAIN LengthBytes(Defs[k], c.size[k]) :
               c.bytes[c.at[k] + j] = LengthBytes(Defs[k], c.size[k])[j]
    ELSE c.at[k + 1] = c.at[k]

Composed(c) ==
    /\ c.bytes \in Seq(0..255) /\ c.fields \subseteq 2..128
    /\ c.size \in [0..129 -> Nat] /\ c.at \in [0..130 -> Nat]
    /\ c.at[0] = IsoLen + Tpdu /\ c.at[130] = Len(c.bytes)
    /\ Names(c) /\ \A k \in 0..129 : Placed(c, k)

\* Messages are given with what was composed; that has not to be alike.
ASSUME MessagesAssumption ==
    \A m \in Messages : m.buf \in Seq(0..255) /\ Composed(m.sent)

-----------------------------------------------------------------------------
(* iso_test_buffer *)

NoBitmap == [n \in 1..16 |-> 0]

\* memcpy(bitmap + at, bytes, their number)
Overlay(m, at, bytes) ==
    [n \in 1..16 |-> IF n \in at+1..at+Len(bytes) THEN bytes[n - at] ELSE m[n]]

Rest == SubSeq(buf, count + 1, Len(buf))

\* The last index the loop visits.
LastIndex == 128

Init ==
    /\ \E m \in Messages : sent = m.sent /\ buf = m.buf
    /\ count = IsoLen + Tpdu
    /\ i = 0
    /\ bitmap = NoBitmap
    /\ result = IF IsoLen >= Len(buf) \/ IsoLen + Tpdu > Len(buf) THEN -1 ELSE Unknown

\* Mutant of Present: field i at index i.
PresentShifted == IF i <= 1 THEN TRUE ELSE HasField(bitmap, i)

Present == IF i <= 1 THEN TRUE ELSE HasField(bitmap, i - 1)

Running == result = Unknown /\ i <= LastIndex

SkipField ==
    /\ Running /\ ~Present
    /\ i' = i + 1
    /\ UNCHANGED <<sent, buf, count, bitmap, result>>

BadField ==
    /\ Running /\ Present
    /\ FieldBytes(Defs[i], Rest) < 0
    /\ result' = -1
    /\ UNCHANGED <<sent, buf, count, i, bitmap>>

TakeField ==
    /\ Running /\ Present
    /\ LET temp == FieldBytes(Defs[i], Rest) IN
          /\ temp >= 0
          /\ count' = count + temp
          /\ bitmap' = IF i \in {1, 2}
                       THEN Overlay(bitmap, IF i = 1 THEN 0 ELSE 8,
                                    SubSeq(Rest, 1, temp))
                       ELSE bitmap
    /\ i' = i + 1
    /\ UNCHANGED <<sent, buf, result>>

Return ==
    /\ result = Unknown /\ i > LastIndex
    /\ result' = count
    /\ UNCHANGED <<sent, buf, count, i, bitmap>>

Next == SkipField \/ BadField \/ TakeField \/ Return

Spec == Init /\ [][Next]_vars

Done == result # Unknown

-----------------------------------------------------------------------------
(* Every variable has its type. *)
TypeOK ==
    /\ buf \in Seq(0..255)
    /\ count \in Nat
    /\ i \in 0..129
    /\ bitmap \in [1..16 -> 0..255]
    /\ result \in Nat \cup {-1, Unknown}

(* The parser never accounts for more bytes than were received, so it reads  *)
(* none behind them, and what it returns lies within the message.            *)
(* (iso_buffer.c 176-179, 212, 223-233, 246-249)                             *)
InBounds == result # -1 => count <= Len(buf) /\ result <= Len(buf)

\* s begins with t
Begins(s, t) == Len(t) <= Len(s) /\ \A k \in 1..Len(t) : s[k] = t[k]

(* A message composed from the table is accepted and measured to its last     *)
(* byte, whatever follows it; with any of its bytes missing it is rejected: no  *)
(* length byte, bitmap or field is read short. Field 128 is apart: the loop     *)
(* never comes to it. (iso_buffer.c 153-264)                                    *)
MeasuresExactly ==
    Done /\ 128 \notin sent.fields =>
       /\ Begins(buf, sent.bytes) => result = Len(sent.bytes)
       /\ Len(buf) < Len(sent.bytes) /\ Begins(sent.bytes, buf) => result = -1
=============================================================================
