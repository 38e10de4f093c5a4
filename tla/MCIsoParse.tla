----------------------------- MODULE MCIsoParse -----------------------------
(***************************************************************************)
(* IsoParse over the table iso_hypercom, on messages composed field by field *)
(* from that table, whole, cut anywhere and with bytes behind them, and on   *)
(* messages whose length bytes are not decimal.                              *)
(***************************************************************************)
EXTENDS IsoParse, FiniteSets
LOCAL INSTANCE SequencesExt

CONSTANT Fields     \* the fields messages are composed of, at most two each

H == INSTANCE IsoHypercom
MCDefs  == H!iso_hypercom
MCIsoLen == H!hypercom_len
MCTpdu  == H!hypercom_tpdu

-----------------------------------------------------------------------------
(* How a message with given fields and lengths is composed.                   *)

Filler == 153
Bytes(n) == [k \in 1..n |-> Filler]

Prefix(l, n) == CASE l = 0 -> <<>>
                  [] l \in {1, 2} -> <<BcdByte(n)>>
                  [] l \in {3, 4} -> <<BcdByte(n \div 100), BcdByte(n % 100)>>

\* Field f with n digits or bytes.
Encode(f, n) ==
    LET def == MCDefs[f + 1] IN
        Prefix(def.len_var, n) \o
        Bytes(IF def.field_type = "BCD" THEN (n + 1) \div 2 ELSE n)

\* The bitmap bytes for the fields fs; bit 1 announces the second eight.
BitmapByte(fs, k) ==
    LET bit(n) == IF 8 * (k - 1) + n \in Bits(fs) THEN 2^(8 - n) ELSE 0
    IN  bit(1) + bit(2) + bit(3) + bit(4) + bit(5) + bit(6) + bit(7) + bit(8)
Bitmaps(fs) == [k \in 1..(IF \E f \in fs : f > 64 THEN 16 ELSE 8) |-> BitmapByte(fs, k)]

Lengths(f) == LET def == MCDefs[f + 1] IN
              IF def.len_var = 0 THEN {def.max_len}
              ELSE {0, 3, IF def.max_len > 99 THEN 100 ELSE def.max_len}

Cases == UNION {[fs -> UNION {Lengths(f) : f \in fs}] :
                    fs \in {s \in SUBSET Fields : Cardinality(s) <= 2}}
WellFormed == {c \in Cases : \A f \in DOMAIN c : c[f] \in Lengths(f)}

\* The part of a message before definition k: type, bitmaps, fields.
Before(c, k) ==
    LET order == SetToSortSeq({f \in DOMAIN c : f + 1 < k}, LAMBDA a, b : a < b)
        maps  == Bitmaps(DOMAIN c)
    IN  (IF k = 0 THEN <<>> ELSE <<2, 0>>)
        \o (IF k < 2 THEN <<>> ELSE IF k = 2 THEN SubSeq(maps, 1, 8) ELSE maps)
        \o FlattenSeq([n \in DOMAIN order |-> Encode(order[n], c[order[n]])])

Encoded == [c \in WellFormed |-> Before(c, 131)]

Composition(c) ==
    [bytes |-> Encoded[c], fields |-> DOMAIN c,
     size  |-> [k \in 0..129 |-> IF k - 1 \in DOMAIN c THEN c[k - 1] ELSE MCDefs[k].max_len],
     at    |-> [k \in 0..130 |-> Len(Before(c, k))]]

\* Cut in the header, the bitmap, before and in the last bytes.
Cuts(m) == {n \in 0..Len(m) : n <= 12 \/ n >= Len(m) - 3 \/ n % 7 = 0} \ {Len(m)}

\* Field 2 with length bytes that are no decimal digits, or behind the end.
Strange == {<<2, 0>> \o Bitmaps({2}) \o <<b>> \o Bytes(n) :
                b \in {10, 160, 170, 250, 255}, n \in {0, 1, 6, 10, 82, 83}}

Received(c) ==
    LET m == Encoded[c]
    IN  {m, m \o <<255, 255>>} \cup {SubSeq(m, 1, n) : n \in Cuts(m)}
        \cup (IF DOMAIN c = {2} THEN Strange ELSE {})

MCMessages ==
    UNION {LET s == Composition(c) IN {[sent |-> s, buf |-> b] : b \in Received(c)} :
              c \in WellFormed}

-----------------------------------------------------------------------------
(* The table has a definition of field 128, at index 129 (iso_buffer.c 19,   *)
(* 149): a message that has the field is measured with it.                   *)
CountsField128 ==
    Done /\ 128 \in sent.fields /\ buf = sent.bytes => result = Len(buf)
=============================================================================
