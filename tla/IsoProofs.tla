----------------------------- MODULE IsoProofs ------------------------------
(*****************************************************************************)
(* Proofs about IsoParse, for every table of definitions and every message,  *)
(* and about IsoBuffer, for every length of the buffer and every items.      *)
(*****************************************************************************)
EXTENDS IsoParse, IsoBuffer, SequenceTheorems, TLAPS

-----------------------------------------------------------------------------
(* The parser: the size of one field. *)

LEMMA HalvedBound ==
    ASSUME NEW n \in Nat
    PROVE  Halved(n) \in Nat /\ (n \in 1..4 => Halved(n) \in {1, 2})
  BY SMT DEF Halved

\* The number in the length bytes is a number, if the bytes are there.
LEMMA DeclaredNat ==
    ASSUME NEW def \in FieldDef, NEW b \in Seq(0..255),
           def.len_var # 0, Halved(def.len_var) <= Len(b)
    PROVE  Declared(def, b, Halved(def.len_var)) \in Nat
  <1> DEFINE n == Halved(def.len_var)
  <1>1. def.len_var \in 1..4
    <2>1. def.len_var \in 0..4
      BY DEF FieldDef
    <2> QED BY <2>1
  <1>2. n \in {1, 2}
    <2>1. def.len_var \in Nat
      BY <1>1
    <2> QED BY <1>1, <2>1, HalvedBound
  <1>3. Len(b) \in Nat /\ \A k \in 1..Len(b) : b[k] \in 0..255
    BY LenProperties, ElementOfSeq
  <1> HIDE DEF n
  <1>4. n <= Len(b)
    BY DEF n
  <1>5. b[1] \in 0..255 /\ (n = 2 => b[2] \in 0..255)
    BY <1>2, <1>3, <1>4
  <1>6. \A c \in 0..255 : c \in Nat /\ Digits(c) \in Nat
    BY SMT DEF Digits
  <1>7. Declared(def, b, n) \in Nat
    <2>1. CASE n = 1
      <3>1. Digits(b[1]) \in Nat /\ b[1] \in Nat
        BY <1>5, <1>6, Zenon
      <3> QED BY <2>1, <3>1, Zenon DEF Declared
    <2>2. CASE n = 2
      <3>1. /\ Digits(b[1]) \in Nat /\ Digits(b[2]) \in Nat
            /\ b[1] \in Nat /\ b[2] \in Nat
        BY <1>5, <1>6, <2>2, Zenon
      <3>2. Digits(b[1]) * 100 + Digits(b[2]) \in Nat /\ b[1] * 256 + b[2] \in Nat
        <4>1. \A x, y \in Nat : x * 100 + y \in Nat
          BY SMT
        <4>2. \A x, y \in Nat : x * 256 + y \in Nat
          BY SMT
        <4>3. Digits(b[1]) * 100 + Digits(b[2]) \in Nat
          BY <3>1, <4>1, Zenon
        <4>4. b[1] * 256 + b[2] \in Nat
          BY <3>1, <4>2, Zenon
        <4> QED BY <4>3, <4>4, Zenon
      <3>3. n # 1
        BY <2>2
      <3> QED BY <3>2, <3>3, Zenon DEF Declared
    <2> QED BY <1>2, <2>1, <2>2
  <1> QED BY <1>7 DEF n

\* A field is rejected or lies within what is left of the message.
LEMMA FieldFits ==
    ASSUME NEW def \in FieldDef, NEW b \in Seq(0..255)
    PROVE  FieldBytes(def, b) \in {-1} \cup 0..Len(b)
  <1> DEFINE lenBytes == Halved(def.len_var)
             content  == IF def.len_var = 0 THEN def.max_len
                         ELSE Declared(def, b, lenBytes)
             need     == lenBytes + ContentBytes(def, content)
             bad      == \/ def.len_var = 0 /\ def.field_type = "NONE"
                         \/ def.len_var # 0 /\ (lenBytes > Len(b) \/ def.len_type = "NONE")
  <1>1. lenBytes \in Nat /\ Len(b) \in Nat
    <2>1. def.len_var \in Nat
      BY DEF FieldDef
    <2> QED BY <2>1, HalvedBound, LenProperties
  <1>2. FieldBytes(def, b) = IF bad THEN -1
                             ELSE IF need <= Len(b) THEN need ELSE -1
    BY DEF FieldBytes, Fits
  <1>3. ASSUME ~bad PROVE need \in Nat
    <2>1. content \in Nat
      BY <1>1, <1>3, DeclaredNat DEF FieldDef
    <2>2. ContentBytes(def, content) \in Nat
      BY <2>1, HalvedBound DEF ContentBytes
    <2> QED BY <1>1, <2>2
  <1> HIDE DEF need, bad
  <1> QED BY <1>1, <1>2, <1>3

-----------------------------------------------------------------------------
(* A field as it was composed. *)

\* b begins, as far as it goes, with the length bytes of a field of n digits or bytes.
Tells(def, b, n) ==
    \A j \in DOMAIN LengthBytes(def, n) : j <= Len(b) => b[j] = LengthBytes(def, n)[j]

\* Two decimal digits are read back from the byte that holds them.
LEMMA DigitsOfByte ==
    ASSUME NEW n \in 0..99
    PROVE  BcdByte(n) \in 0..255 /\ Digits(BcdByte(n)) = n
  <1> DEFINE q == n \div 10
             r == n % 10
  <1>1. q \in 0..9 /\ r \in 0..9 /\ n = q * 10 + r
    BY SMT
  <1> HIDE DEF q, r
  <1>2. (q * 16 + r) \div 16 = q /\ (q * 16 + r) % 16 = r /\ q * 16 + r \in 0..255
    BY <1>1, SMT
  <1>3. BcdByte(n) = q * 16 + r
    BY DEF BcdByte, q, r
  <1> QED BY <1>1, <1>2, <1>3 DEF Digits

\* What is composed of a number in two places is read back from them.
LEMMA PlacesOfNumber ==
    ASSUME NEW n \in Nat
    PROVE  /\ n < 10000 => n \div 100 \in 0..99 /\ n % 100 \in 0..99
           /\ n < 65536 => n \div 256 \in 0..255 /\ n % 256 \in 0..255
           /\ (n \div 100) * 100 + (n % 100) = n /\ (n \div 256) * 256 + (n % 256) = n
  BY SMT

\* The length bytes are as many as the code looks for.
LEMMA LengthBytesCount ==
    ASSUME NEW def \in FieldDef, NEW n \in Nat, MayHave(def, n)
    PROVE  /\ Len(LengthBytes(def, n)) = Halved(def.len_var)
           /\ DOMAIN LengthBytes(def, n) = 1..Halved(def.len_var)
           /\ Halved(def.len_var) \in 0..2
  <1>1. def.len_var \in 0..4
    BY DEF FieldDef
  <1>2. CASE def.len_var = 0
    <2>1. LengthBytes(def, n) = <<>> /\ Halved(def.len_var) = 0
      BY <1>2 DEF LengthBytes, Halved
    <2> QED BY <2>1, EmptySeq
  <1>3. CASE def.len_var \in {1, 2}
    <2>1. Halved(def.len_var) = 1
      BY <1>3 DEF Halved
    <2>2. \E x : LengthBytes(def, n) = <<x>>
      BY <1>3 DEF LengthBytes
    <2> QED BY <2>1, <2>2
  <1>4. CASE def.len_var \in {3, 4}
    <2>1. Halved(def.len_var) = 2
      BY <1>4 DEF Halved
    <2>2. \E x, y : LengthBytes(def, n) = <<x, y>>
      BY <1>4 DEF LengthBytes
    <2> QED BY <2>1, <2>2
  <1> QED BY <1>1, <1>2, <1>3, <1>4

\* The code reads the size from the length bytes that tell it.
LEMMA DeclaredIsTold ==
    ASSUME NEW def \in FieldDef, NEW b \in Seq(0..255), NEW n \in Nat,
           MayHave(def, n), Tells(def, b, n),
           def.len_var # 0, Halved(def.len_var) <= Len(b)
    PROVE  Declared(def, b, Halved(def.len_var)) = n
  <1> DEFINE h == Halved(def.len_var)
  <1>1. /\ def.len_var \in 1..4 /\ def.len_type \in {"BYTE", "BCD"}
        /\ DOMAIN LengthBytes(def, n) = 1..h
    <2>1. def.len_var \in 0..4 /\ def.len_type \in {"NONE", "BYTE", "BCD"}
      BY DEF FieldDef
    <2> QED BY <2>1, LengthBytesCount DEF MayHave
  <1>2. \A j \in 1..h : b[j] = LengthBytes(def, n)[j]
    <2>1. Len(b) \in Nat /\ h \in Nat
      BY <1>1, LenProperties, LengthBytesCount
    <2> QED BY <1>1, <2>1 DEF Tells
  <1>3. CASE def.len_var \in {1, 2}
    <2>1. h = 1
      BY <1>3 DEF Halved
    <2>2. CASE def.len_type = "BCD"
      <3>1. LengthBytes(def, n) = <<BcdByte(n)>> /\ n \in 0..99
        BY <1>3, <2>2 DEF LengthBytes, MayHave, Capacity
      <3>2. b[1] = BcdByte(n)
        BY <1>2, <2>1, <3>1
      <3> QED BY <2>1, <2>2, <3>1, <3>2, DigitsOfByte DEF Declared
    <2>3. CASE def.len_type # "BCD"
      <3>1. LengthBytes(def, n) = <<n>>
        BY <1>3, <2>3 DEF LengthBytes
      <3>2. b[1] = n
        BY <1>2, <2>1, <3>1
      <3> QED BY <2>1, <2>3, <3>2 DEF Declared
    <2> QED BY <2>2, <2>3
  <1>4. CASE def.len_var \in {3, 4}
    <2>1. h = 2 /\ h # 1
      BY <1>4 DEF Halved
    <2>2. CASE def.len_type = "BCD"
      <3> DEFINE p == n \div 100
                 q == n % 100
      <3>1. LengthBytes(def, n) = <<BcdByte(p), BcdByte(q)>> /\ n < 10000
        BY <1>4, <2>2 DEF LengthBytes, MayHave, Capacity
      <3>2. p \in 0..99 /\ q \in 0..99 /\ p * 100 + q = n
        BY <3>1, PlacesOfNumber
      <3> HIDE DEF p, q
      <3>3. b[1] = BcdByte(p) /\ b[2] = BcdByte(q)
        BY <1>2, <2>1, <3>1
      <3>4. Digits(b[1]) = p /\ Digits(b[2]) = q
        BY <3>2, <3>3, DigitsOfByte
      <3>5. Declared(def, b, h) = Digits(b[1]) * 100 + Digits(b[2])
        BY <2>1, <2>2, Zenon DEF Declared
      <3> QED BY <3>2, <3>4, <3>5
    <2>3. CASE def.len_type # "BCD"
      <3> DEFINE p == n \div 256
                 q == n % 256
      <3>1. LengthBytes(def, n) = <<p, q>>
        BY <1>4, <2>3 DEF LengthBytes
      <3>2. p * 256 + q = n
        BY PlacesOfNumber
      <3> HIDE DEF p, q
      <3>3. b[1] = p /\ b[2] = q
        BY <1>2, <2>1, <3>1
      <3>4. Declared(def, b, h) = b[1] * 256 + b[2]
        BY <2>1, <2>3, Zenon DEF Declared
      <3> QED BY <3>2, <3>3, <3>4
    <2> QED BY <2>2, <2>3
  <1> QED BY <1>1, <1>3, <1>4

\* A composed field is taken whole if it is whole, and else rejected.
LEMMA FieldMeasured ==
    ASSUME NEW def \in FieldDef, NEW b \in Seq(0..255), NEW n \in Nat,
           MayHave(def, n), Tells(def, b, n)
    PROVE  /\ FieldLength(def, n) \in Nat
           /\ FieldBytes(def, b) = IF FieldLength(def, n) <= Len(b)
                                   THEN FieldLength(def, n) ELSE -1
  <1> DEFINE h    == Halved(def.len_var)
             size == ContentBytes(def, n)
  <1>1. h \in Nat /\ Len(b) \in Nat /\ size \in Nat
    BY LenProperties, LengthBytesCount, HalvedBound DEF ContentBytes
  <1>2. FieldLength(def, n) = h + size
    BY LengthBytesCount DEF FieldLength, ContentBytes, Halved
  <1>3. CASE def.len_var = 0
    <2>1. def.field_type # "NONE" /\ n = def.max_len
      BY <1>3 DEF MayHave
    <2>2. FieldBytes(def, b) = IF h + size <= Len(b) THEN h + size ELSE -1
      BY <1>3, <2>1 DEF FieldBytes, Fits
    <2> HIDE DEF h, size
    <2> QED BY <1>1, <1>2, <2>2
  <1>4. CASE def.len_var # 0 /\ h <= Len(b)
    <2>1. Declared(def, b, h) = n /\ def.len_type # "NONE"
      BY <1>4, DeclaredIsTold DEF MayHave
    <2>2. ~(h > Len(b))
      BY <1>1, <1>4
    <2>3. FieldBytes(def, b) = IF h + size <= Len(b) THEN h + size ELSE -1
      BY <1>4, <2>1, <2>2 DEF FieldBytes, Fits
    <2> HIDE DEF h, size
    <2> QED BY <1>1, <1>2, <2>3
  <1>5. CASE def.len_var # 0 /\ h > Len(b)
    <2>1. FieldBytes(def, b) = -1
      BY <1>5 DEF FieldBytes
    <2> HIDE DEF h, size
    <2>2. ~(h + size <= Len(b))
      BY <1>1, <1>5
    <2> QED BY <1>1, <1>2, <2>1, <2>2
  <1> HIDE DEF h
  <1> QED BY <1>1, <1>3, <1>4, <1>5

-----------------------------------------------------------------------------
(* The loop. *)

BoundsInv == Composed(sent) /\ TypeOK /\ InBounds

\* What is left of a sequence.
LEMMA SuffixProperties ==
    ASSUME NEW S, NEW s \in Seq(S), NEW a \in Nat, a <= Len(s)
    PROVE  /\ SubSeq(s, a + 1, Len(s)) \in Seq(S)
           /\ Len(SubSeq(s, a + 1, Len(s))) = Len(s) - a
           /\ \A j \in 1..(Len(s) - a) : SubSeq(s, a + 1, Len(s))[j] = s[a + j]
  <1>1. Len(s) \in Nat
    BY LenProperties
  <1>2. \A k \in 1..Len(s) : s[k] \in S
    BY ElementOfSeq
  <1>3. \A k \in (a + 1)..Len(s) : s[k] \in S
    BY <1>1, <1>2
  <1> QED BY <1>1, <1>3, SubSeqProperties

LEMMA RestOfMessage ==
    ASSUME buf \in Seq(0..255), count \in Nat, count <= Len(buf)
    PROVE  /\ Rest \in Seq(0..255) /\ Len(Rest) = Len(buf) - count
           /\ \A j \in 1..Len(Rest) : Rest[j] = buf[count + j]
  <1>1. /\ Rest \in Seq(0..255) /\ Len(Rest) = Len(buf) - count
        /\ \A j \in 1..(Len(buf) - count) : Rest[j] = buf[count + j]
    BY SuffixProperties, Zenon DEF Rest
  <1> QED BY <1>1, Zenon

\* Copying bytes into the bitmap leaves bytes there.
LEMMA OverlayTypes ==
    ASSUME NEW S, NEW m \in [1..16 -> S], NEW at \in Nat, NEW bytes \in Seq(S)
    PROVE  Overlay(m, at, bytes) \in [1..16 -> S]
  <1>1. Len(bytes) \in Nat
    BY LenProperties
  <1>2. \A k \in 1..Len(bytes) : bytes[k] \in S
    BY ElementOfSeq
  <1>3. \A n \in 1..16 : n \in at+1..at+Len(bytes) => bytes[n - at] \in S
    <2>1. \A n \in 1..16 : n \in at+1..at+Len(bytes) => n - at \in 1..Len(bytes)
      BY <1>1
    <2> QED BY ONLY <1>2, <2>1
  <1>4. \A n \in 1..16 : m[n] \in S
    OBVIOUS
  <1> QED BY ONLY <1>3, <1>4 DEF Overlay

LEMMA BoundsStart == Init => BoundsInv
  <1> SUFFICES ASSUME Init PROVE BoundsInv
    OBVIOUS
  <1>1. Composed(sent) /\ buf \in Seq(0..255) /\ Len(buf) \in Nat /\ count \in Nat
    BY MessagesAssumption, HeaderAssumption, LenProperties DEF Init
  <1>2. bitmap \in [1..16 -> 0..255]
    BY DEF Init, NoBitmap
  <1>3. i = 0 /\ result \in {-1, Unknown} /\ (result # -1 => count <= Len(buf))
    <2>1. /\ count = IsoLen + Tpdu /\ i = 0
          /\ result = IF IsoLen >= Len(buf) \/ IsoLen + Tpdu > Len(buf) THEN -1 ELSE Unknown
      BY DEF Init
    <2> QED BY <1>1, <2>1, HeaderAssumption DEF Unknown
  <1>4. TypeOK
    BY <1>1, <1>2, <1>3 DEF TypeOK
  <1>5. InBounds
    BY <1>1, <1>3 DEF InBounds, Unknown
  <1> QED BY <1>1, <1>4, <1>5 DEF BoundsInv

LEMMA BoundsKept == BoundsInv /\ [Next]_vars => BoundsInv'
  <1> SUFFICES ASSUME BoundsInv, [Next]_vars PROVE BoundsInv'
    OBVIOUS
  <1>1. /\ Composed(sent) /\ buf \in Seq(0..255) /\ Len(buf) \in Nat
        /\ count \in Nat /\ i \in 0..129 /\ bitmap \in [1..16 -> 0..255]
        /\ result \in Nat \cup {-1, Unknown}
        /\ result # -1 => count <= Len(buf) /\ result <= Len(buf)
    BY LenProperties DEF BoundsInv, TypeOK, InBounds
  <1>2. CASE SkipField
    <2>1. /\ UNCHANGED <<sent, buf, count, bitmap, result>> /\ i' = i + 1
          /\ i <= 128
      BY <1>2 DEF SkipField, Running, LastIndex
    <2> QED BY <1>1, <2>1 DEF BoundsInv, TypeOK, InBounds
  <1>3. CASE BadField
    BY <1>1, <1>3 DEF BadField, BoundsInv, TypeOK, InBounds
  <1>4. CASE TakeField
    <2> DEFINE temp  == FieldBytes(Defs[i], Rest)
               bytes == SubSeq(Rest, 1, temp)
    <2>1. result = Unknown /\ i \in 0..128 /\ count <= Len(buf)
      BY <1>1, <1>4 DEF TakeField, Running, LastIndex, Unknown
    <2>2. Rest \in Seq(0..255) /\ Len(Rest) = Len(buf) - count
      BY <1>1, <2>1, RestOfMessage
    <2>3. Defs[i] \in FieldDef
      <3>1. i \in 0..129
        BY <2>1
      <3> QED BY ONLY <3>1, DefsAssumption
    <2>4. temp \in {-1} \cup 0..Len(Rest)
      BY <2>2, <2>3, FieldFits
    <2>5. /\ temp >= 0 /\ count' = count + temp /\ UNCHANGED <<sent, buf, result>>
          /\ i' = i + 1
          /\ bitmap' = IF i \in {1, 2} THEN Overlay(bitmap, IF i = 1 THEN 0 ELSE 8, bytes)
                       ELSE bitmap
      BY <1>4 DEF TakeField
    <2> HIDE DEF temp
    <2>6. bytes \in Seq(0..255)
      <3>1. Len(Rest) \in Nat /\ temp \in 0..Len(Rest)
        BY <1>1, <2>1, <2>2, <2>4, <2>5
      <3>2. \A k \in 1..Len(Rest) : Rest[k] \in 0..255
        BY <2>2, ElementOfSeq
      <3>3. \A k \in 1..temp : Rest[k] \in 0..255
        BY <3>1, <3>2
      <3> QED BY <3>1, <3>3, SubSeqProperties
    <2> HIDE DEF bytes
    <2>7. bitmap' \in [1..16 -> 0..255]
      <3>1. CASE i = 1
        <4>1. bitmap' = Overlay(bitmap, 0, bytes) /\ 0 \in Nat
          BY <2>5, <3>1
        <4> QED BY <1>1, <2>6, <4>1, OverlayTypes, Zenon
      <3>2. CASE i = 2
        <4>1. bitmap' = Overlay(bitmap, 8, bytes) /\ 8 \in Nat
          BY <2>5, <3>2
        <4> QED BY <1>1, <2>6, <4>1, OverlayTypes, Zenon
      <3>3. CASE i \notin {1, 2}
        BY <1>1, <2>5, <3>3
      <3> QED BY <3>1, <3>2, <3>3
    <2>8. count' \in Nat /\ count' <= Len(buf) /\ i' \in 0..129
      BY <1>1, <2>1, <2>2, <2>4, <2>5
    <2>9. TypeOK'
      <3>1. buf' \in Seq(0..255) /\ result' \in Nat \cup {-1, Unknown}
        BY <1>1, <2>5, Zenon
      <3> QED BY <2>7, <2>8, <3>1, Zenon DEF TypeOK
    <2>10. InBounds'
      BY <1>1, <2>1, <2>5, <2>8 DEF InBounds, Unknown
    <2> QED BY <1>1, <2>5, <2>9, <2>10 DEF BoundsInv
  <1>5. CASE Return
    BY <1>1, <1>5 DEF Return, BoundsInv, TypeOK, InBounds, Unknown
  <1>6. CASE UNCHANGED vars
    BY <1>1, <1>6 DEF vars, BoundsInv, TypeOK, InBounds
  <1> QED BY <1>2, <1>3, <1>4, <1>5, <1>6 DEF Next

(* Every variable of the parser keeps its type: the bitmaps stay 16 bytes, the  *)
(* index a number. (iso_buffer.c 205-261)                                       *)
THEOREM ParserTypes == Spec => []TypeOK
  <1>1. BoundsInv => TypeOK
    BY DEF BoundsInv
  <1> QED BY <1>1, BoundsStart, BoundsKept, PTL DEF Spec

(* The parser accounts for no more bytes than it was given, whatever the     *)
(* table and the message. (iso_buffer.c 153-264)                             *)
THEOREM ParserStaysInside == Spec => []InBounds
  <1>1. Init => BoundsInv
    BY BoundsStart
  <1>2. BoundsInv /\ [Next]_vars => BoundsInv'
    BY BoundsKept
  <1>3. BoundsInv => InBounds
    BY DEF BoundsInv
  <1> QED BY <1>1, <1>2, <1>3, PTL DEF Spec

-----------------------------------------------------------------------------
(* What is received of a message that was composed. *)

\* Neither has a byte the other contradicts: one is the beginning of the other.
Alike(s, t) == \A k \in 1..Len(s) : k <= Len(t) => s[k] = t[k]

\* The bitmaps as they are known before definition n.
MapAt(c, n) == [k \in 1..16 |-> IF (k <= 8 /\ n < 2) \/ (k > 8 /\ n < 3) THEN 0 ELSE Map(c)[k]]

\* The cursor is where the next definition begins, and the end is found.
Follows(c) ==
    /\ result = Unknown => count = c.at[i] /\ bitmap = MapAt(c, i)
    /\ result \in Nat => result = Len(c.bytes) /\ Len(c.bytes) <= Len(buf)
    /\ result = -1 => Len(buf) < Len(c.bytes)

MeasureInv ==
    /\ BoundsInv
    /\ Alike(buf, sent.bytes) /\ 128 \notin sent.fields => Follows(sent)

LEMMA ComposedTypes ==
    ASSUME NEW c, Composed(c)
    PROVE  /\ c.bytes \in Seq(0..255) /\ Len(c.bytes) \in Nat
           /\ c.at[0] = IsoLen + Tpdu /\ c.at[130] = Len(c.bytes)
           /\ \A k \in 0..130 : c.at[k] \in Nat
           /\ \A k \in 0..129 : c.size[k] \in Nat
  <1>1. /\ c.bytes \in Seq(0..255)
        /\ c.size \in [0..129 -> Nat] /\ c.at \in [0..130 -> Nat]
        /\ c.at[0] = IsoLen + Tpdu /\ c.at[130] = Len(c.bytes)
    BY Zenon DEF Composed
  <1>2. Len(c.bytes) \in Nat
    <2>1. c.bytes \in Seq(0..255)
      BY <1>1
    <2> QED BY ONLY <2>1, LenProperties
  <1>3. \A at \in [0..130 -> Nat] : \A k \in 0..130 : at[k] \in Nat
    OBVIOUS
  <1>4. \A size \in [0..129 -> Nat] : \A k \in 0..129 : size[k] \in Nat
    OBVIOUS
  <1> QED BY ONLY <1>1, <1>2, <1>3, <1>4, Zenon

LEMMA ComposedPlaced ==
    ASSUME NEW c, Composed(c) PROVE \A k \in 0..129 : Placed(c, k)
  BY Zenon DEF Composed

LEMMA UsedField ==
    ASSUME NEW c, Composed(c), NEW k \in 0..129, k \in Uses(c)
    PROVE  /\ MayHave(Defs[k], c.size[k])
           /\ c.at[k + 1] = c.at[k] + FieldLength(Defs[k], c.size[k])
           /\ c.at[k + 1] <= Len(c.bytes)
           /\ \A j \in DOMAIN LengthBytes(Defs[k], c.size[k]) :
                 c.bytes[c.at[k] + j] = LengthBytes(Defs[k], c.size[k])[j]
  <1>1. Placed(c, k)
    BY ComposedPlaced, Zenon
  <1> QED BY <1>1, Zenon DEF Placed

LEMMA UnusedField ==
    ASSUME NEW c, Composed(c), NEW k \in 0..129, k \notin Uses(c)
    PROVE  c.at[k + 1] = c.at[k]
  <1>1. Placed(c, k)
    BY ComposedPlaced, Zenon
  <1> QED BY <1>1, Zenon DEF Placed

\* Definition k is used if field k - 1 is named.
LEMMA UsesNamed ==
    ASSUME NEW c, Composed(c), NEW k \in 2..129
    PROVE  /\ k \in Uses(c) <=> (k - 1) \in Bits(c.fields)
           /\ k # 2 /\ k \in Uses(c) => (k - 1) \in c.fields
  <1>1. c.fields \subseteq 2..128
    BY Zenon DEF Composed
  <1>2. \A g \in Bits(c.fields) : g \in Int /\ (g # 1 => g \in c.fields)
    BY <1>1, SMT DEF Bits
  <1>3. k \in Uses(c) <=> \E g \in Bits(c.fields) : k = g + 1
    BY SMT DEF Uses
  <1> QED BY <1>2, <1>3, SMT

\* A bitmap takes eight bytes.
LEMMA BitmapTakesEight ==
    ASSUME NEW c, Composed(c), NEW k \in {1, 2}, k \in Uses(c)
    PROVE  c.at[k + 1] = c.at[k] + 8 /\ FieldLength(Defs[k], c.size[k]) = 8
  <1>1. /\ Defs[k].len_var = 0 /\ Defs[k].field_type = "BYTE" /\ Defs[k].max_len = 8
    BY BitmapAssumption
  <1>2. c.size[k] = 8
    <2>1. k \in 0..129
      OBVIOUS
    <2>2. MayHave(Defs[k], c.size[k])
      BY <2>1, UsedField, Zenon
    <2>3. \A def, n : def.len_var = 0 /\ MayHave(def, n) => n = def.max_len
      BY Zenon DEF MayHave
    <2>4. c.size[k] = Defs[k].max_len
      BY <1>1, <2>2, <2>3, Zenon
    <2> QED BY ONLY <1>1, <2>4
  <1>3. Len(LengthBytes(Defs[k], c.size[k])) = 0
    BY <1>1, EmptySeq DEF LengthBytes
  <1>4. FieldLength(Defs[k], c.size[k]) = 8
    BY <1>1, <1>2, <1>3 DEF FieldLength
  <1> QED BY <1>4, UsedField

\* The loop looks for a field exactly where one was composed.
LEMMA PresentIsUsed ==
    ASSUME NEW c, Composed(c), i \in 0..128, bitmap = MapAt(c, i)
    PROVE  Present <=> i \in Uses(c)
  <1>1. CASE i <= 1
    BY <1>1 DEF Present, Uses
  <1>2. CASE i > 1
    <2> DEFINE f == i - 1
               p == ((f - 1) \div 8) + 1
    <2>1. f \in 1..127 /\ p \in 1..16 /\ (i = 2 => p = 1)
      BY <1>2, SMT
    <2>2. bitmap[p] = Map(c)[p]
      <3> HIDE DEF p
      <3>1. bitmap[p] = IF (p <= 8 /\ i < 2) \/ (p > 8 /\ i < 3) THEN 0 ELSE Map(c)[p]
        BY <2>1 DEF MapAt
      <3> QED BY <1>2, <2>1, <3>1
    <2>3. HasField(bitmap, f) <=> HasField(Map(c), f)
      BY <2>2 DEF HasField
    <2>4. HasField(Map(c), f) <=> f \in Bits(c.fields)
      <3>1. Names(c)
        BY Zenon DEF Composed
      <3>2. f \in 1..128
        BY <2>1
      <3> QED BY <3>1, <3>2, Zenon DEF Names
    <2>5. f \in Bits(c.fields) <=> i \in Uses(c)
      BY <1>2, UsesNamed
    <2> QED BY <1>2, <2>3, <2>4, <2>5 DEF Present
  <1> QED BY <1>1, <1>2

\* A message that has no field 128 ends where the loop ends.
LEMMA EndsAtLast ==
    ASSUME NEW c, Composed(c), 128 \notin c.fields
    PROVE  c.at[129] = Len(c.bytes)
  <1>1. 129 \notin Uses(c)
    BY UsesNamed
  <1>2. c.at[130] = c.at[129]
    BY <1>1, UnusedField
  <1> QED BY <1>2, ComposedTypes

\* The loop at definition i of what was composed as c.
AtField(c) ==
    /\ Composed(c) /\ buf \in Seq(0..255) /\ Alike(buf, c.bytes)
    /\ i \in 0..128 /\ i \in Uses(c) /\ count = c.at[i] /\ count <= Len(buf)

LEMMA AtFieldRest ==
    ASSUME NEW c, AtField(c)
    PROVE  /\ count \in Nat /\ Len(buf) \in Nat /\ Len(c.bytes) \in Nat
           /\ Rest \in Seq(0..255) /\ Len(Rest) = Len(buf) - count
           /\ \A j \in 1..Len(Rest) : count + j <= Len(c.bytes) => Rest[j] = c.bytes[count + j]
  <1>1. /\ Composed(c) /\ buf \in Seq(0..255) /\ Alike(buf, c.bytes)
        /\ i \in 0..128 /\ count = c.at[i] /\ count <= Len(buf)
    BY Zenon DEF AtField
  <1>2. c.bytes \in Seq(0..255) /\ Len(c.bytes) \in Nat /\ \A k \in 0..130 : c.at[k] \in Nat
    BY <1>1, ComposedTypes, Zenon
  <1>3. i \in 0..130
    BY <1>1
  <1>4. count \in Nat /\ Len(buf) \in Nat
    BY <1>1, <1>2, <1>3, LenProperties, Zenon
  <1>5. /\ Rest \in Seq(0..255) /\ Len(Rest) = Len(buf) - count
        /\ \A j \in 1..Len(Rest) : Rest[j] = buf[count + j]
    BY <1>1, <1>4, RestOfMessage, Zenon
  <1>6. \A j \in 1..Len(Rest) : count + j <= Len(c.bytes) => Rest[j] = c.bytes[count + j]
    <2>1. \A j \in 1..Len(Rest) : count + j \in 1..Len(buf)
      BY ONLY <1>1, <1>4, <1>5
    <2>2. \A k \in 1..Len(buf) : k <= Len(c.bytes) => buf[k] = c.bytes[k]
      BY <1>1, Zenon DEF Alike
    <2> QED BY ONLY <1>5, <2>1, <2>2
  <1> QED BY <1>2, <1>4, <1>5, <1>6, Zenon

\* The code takes what was composed, or finds it cut.
LEMMA StepMeasures ==
    ASSUME NEW c, AtField(c)
    PROVE  /\ c.at[i + 1] - count \in Nat
           /\ FieldBytes(Defs[i], Rest) =
                IF c.at[i + 1] <= Len(buf) THEN c.at[i + 1] - count ELSE -1
  <1> DEFINE n == c.size[i]
             def == Defs[i]
             len == FieldLength(def, n)
             bytes == LengthBytes(def, n)
  <1>1. Composed(c) /\ i \in 0..129 /\ i \in Uses(c) /\ count = c.at[i]
    <2>1. Composed(c) /\ i \in 0..128 /\ i \in Uses(c) /\ count = c.at[i]
      BY Zenon DEF AtField
    <2> QED BY <2>1
  <1>2. def \in FieldDef /\ n \in Nat
    BY <1>1, ComposedTypes, DefsAssumption
  <1>3. /\ MayHave(def, n) /\ c.at[i + 1] = count + len /\ count + len <= Len(c.bytes)
        /\ \A j \in DOMAIN bytes : c.bytes[count + j] = bytes[j]
    <2>1. /\ MayHave(def, n) /\ c.at[i + 1] = c.at[i] + len
          /\ c.at[i + 1] <= Len(c.bytes)
          /\ \A j \in DOMAIN bytes : c.bytes[c.at[i] + j] = bytes[j]
      BY <1>1, UsedField, Zenon
    <2> HIDE DEF n, def, len, bytes
    <2> QED BY <1>1, <2>1
  <1>4. /\ count \in Nat /\ Len(buf) \in Nat /\ Len(c.bytes) \in Nat
        /\ Rest \in Seq(0..255) /\ Len(Rest) = Len(buf) - count
        /\ \A j \in 1..Len(Rest) : count + j <= Len(c.bytes) => Rest[j] = c.bytes[count + j]
    BY AtFieldRest, Zenon
  <1>5. /\ Len(bytes) \in 0..2 /\ DOMAIN bytes = 1..Len(bytes)
    BY <1>2, <1>3, LengthBytesCount
  <1>6. Len(bytes) <= len /\ len \in Nat
    <2>1. (n + 1) \div 2 \in Nat
      BY <1>2
    <2>2. len = Len(bytes) + (IF def.field_type = "BCD" THEN (n + 1) \div 2 ELSE n)
      BY DEF FieldLength
    <2> HIDE DEF n, def, len, bytes
    <2> QED BY <1>2, <1>5, <2>1, <2>2
  <1>7. Tells(def, Rest, n)
    <2> SUFFICES ASSUME NEW j \in DOMAIN bytes, j <= Len(Rest)
                 PROVE  Rest[j] = bytes[j]
      BY Zenon DEF Tells
    <2> HIDE DEF n, def, len, bytes
    <2>1. j \in 1..Len(Rest) /\ count + j <= Len(c.bytes)
      BY <1>3, <1>4, <1>5, <1>6
    <2> QED BY <1>3, <1>4, <2>1
  <1>8. FieldBytes(def, Rest) = IF len <= Len(Rest) THEN len ELSE -1
    BY <1>2, <1>3, <1>4, <1>7, FieldMeasured, Zenon
  <1> HIDE DEF len, def, n
  <1>9. /\ c.at[i + 1] - count = len /\ len \in Nat
        /\ len <= Len(Rest) <=> c.at[i + 1] <= Len(buf)
    BY <1>3, <1>4, <1>6
  <1>10. FieldBytes(def, Rest) = IF c.at[i + 1] <= Len(buf) THEN c.at[i + 1] - count ELSE -1
    BY <1>8, <1>9, Zenon
  <1> QED BY <1>9, <1>10 DEF def

\* The bitmap that is copied is the one that was composed.
LEMMA OverlayKnown ==
    ASSUME NEW c, AtField(c), i \in {1, 2}, count + 8 <= Len(buf),
           bitmap = MapAt(c, i)
    PROVE  Overlay(bitmap, IF i = 1 THEN 0 ELSE 8, SubSeq(Rest, 1, 8)) = MapAt(c, i + 1)
  <1> DEFINE bytes == SubSeq(Rest, 1, 8)
  <1>1. Composed(c) /\ i \in Uses(c) /\ count = c.at[i]
    BY Zenon DEF AtField
  <1>2. /\ count \in Nat /\ Len(buf) \in Nat /\ Len(c.bytes) \in Nat
        /\ Rest \in Seq(0..255) /\ Len(Rest) = Len(buf) - count
        /\ \A j \in 1..Len(Rest) : count + j <= Len(c.bytes) => Rest[j] = c.bytes[count + j]
    BY AtFieldRest, Zenon
  <1>3. count + 8 <= Len(c.bytes)
    BY <1>1, BitmapTakesEight, UsedField
  <1>4. 8 <= Len(Rest) /\ Len(Rest) \in Nat
    BY <1>2
  <1>5. Len(bytes) = 8 /\ \A j \in 1..8 : bytes[j] = Rest[j]
    <2>1. \A k \in 1..Len(Rest) : Rest[k] \in 0..255
      BY <1>2, ElementOfSeq
    <2>2. \A k \in 1..8 : k \in 1..Len(Rest)
      BY <1>4
    <2>3. \A k \in 1..8 : Rest[k] \in 0..255
      BY <2>1, <2>2, Zenon
    <2> QED BY <2>3, SubSeqProperties
  <1>6. \A j \in 1..8 : bytes[j] = c.bytes[count + j]
    <2> HIDE DEF bytes
    <2>1. \A j \in 1..8 : j \in 1..Len(Rest) /\ count + j <= Len(c.bytes)
      BY <1>2, <1>3, <1>4
    <2> QED BY <1>2, <1>5, <2>1, Zenon
  <1> HIDE DEF bytes
  <1>7. \A k \in 1..16 : bitmap[k] = IF (k <= 8 /\ i < 2) \/ (k > 8 /\ i < 3)
                                     THEN 0 ELSE Map(c)[k]
    BY DEF MapAt
  <1>8. CASE i = 1
    <2>1. Overlay(bitmap, 0, bytes) =
            [k \in 1..16 |-> IF k \in 1..8 THEN bytes[k] ELSE bitmap[k]]
      BY <1>5 DEF Overlay
    <2>2. \A k \in 1..8 : Map(c)[k] = bytes[k]
      <3>1. \A k \in 1..8 : Map(c)[k] = c.bytes[c.at[1] + k]
        BY DEF Map
      <3> QED BY <1>1, <1>6, <1>8, <3>1
    <2>3. MapAt(c, 2) = [k \in 1..16 |-> IF k \in 1..8 THEN Map(c)[k] ELSE 0]
      BY DEF MapAt
    <2>4. \A k \in 9..16 : bitmap[k] = 0
      BY <1>7, <1>8
    <2>5. Overlay(bitmap, 0, bytes) = MapAt(c, 2)
      BY ONLY <2>1, <2>2, <2>3, <2>4
    <2> QED BY <1>8, <2>5 DEF bytes
  <1>9. CASE i = 2
    <2>1. Overlay(bitmap, 8, bytes) =
            [k \in 1..16 |-> IF k \in 9..16 THEN bytes[k - 8] ELSE bitmap[k]]
      BY <1>5 DEF Overlay
    <2>2. \A k \in 9..16 : Map(c)[k] = bytes[k - 8]
      <3>1. 1 \in Bits(c.fields)
        BY <1>1, <1>9, UsesNamed
      <3>2. \A k \in 9..16 : Map(c)[k] = c.bytes[c.at[2] + k - 8]
        BY <3>1 DEF Map
      <3>3. \A k \in 9..16 : k - 8 \in 1..8 /\ count + k - 8 = count + (k - 8)
        BY <1>2
      <3> QED BY <1>1, <1>6, <1>9, <3>2, <3>3
    <2>3. MapAt(c, 3) = [k \in 1..16 |-> Map(c)[k]]
      BY DEF MapAt
    <2>4. \A k \in 1..8 : bitmap[k] = Map(c)[k]
      BY <1>7, <1>9
    <2>5. Overlay(bitmap, 8, bytes) = MapAt(c, 3)
      BY ONLY <2>1, <2>2, <2>3, <2>4
    <2> QED BY <1>9, <2>5 DEF bytes
  <1> QED BY <1>8, <1>9

LEMMA MeasureStep ==
    ASSUME MeasureInv, BoundsInv', [Next]_vars
    PROVE  MeasureInv'
  <1> SUFFICES ASSUME Alike(buf, sent.bytes), 128 \notin sent.fields, sent' = sent, buf' = buf
               PROVE  Follows(sent)'
    BY DEF MeasureInv, Next, SkipField, BadField, TakeField, Return, vars
  <1> DEFINE c == sent
  <1>1. Composed(c) /\ buf \in Seq(0..255) /\ i \in 0..129 /\ (result = Unknown => count <= Len(buf))
    BY DEF MeasureInv, BoundsInv, TypeOK, InBounds, Unknown
  <1>0. /\ Len(buf) \in Nat /\ Len(c.bytes) \in Nat
        /\ \A k \in 0..130 : c.at[k] \in Nat
    <2>1. Len(buf) \in Nat
      BY <1>1, LenProperties
    <2> QED BY <1>1, <2>1, ComposedTypes, Zenon
  <1>2. Follows(c)
    BY DEF MeasureInv
  <1>3. ASSUME Running PROVE count = c.at[i] /\ bitmap = MapAt(c, i) /\ i \in 0..128
    BY <1>1, <1>2, <1>3 DEF Follows, Running, LastIndex
  <1>4. ASSUME Running PROVE Present <=> i \in Uses(c)
    BY <1>1, <1>3, <1>4, PresentIsUsed
  <1>5. ASSUME Running, Present PROVE AtField(c)
    BY <1>1, <1>3, <1>4, <1>5 DEF AtField, Running
  <1>6. CASE SkipField
    <2>1. /\ Running /\ ~Present
          /\ i' = i + 1 /\ count' = count /\ bitmap' = bitmap /\ result' = result
      BY <1>6 DEF SkipField
    <2>2. c.at[i + 1] = c.at[i]
      BY <1>1, <1>3, <1>4, <2>1, UnusedField
    <2>3. MapAt(c, i + 1) = MapAt(c, i)
      <3>1. i \notin {0, 1}
        BY <1>4, <2>1 DEF Uses
      <3>2. CASE i > 2
        BY <1>3, <2>1, <3>2 DEF MapAt
      <3>3. CASE i = 2
        <4>1. 1 \notin Bits(c.fields)
          <5>1. 2 \notin Uses(c)
            BY <1>4, <2>1, <3>3
          <5>2. 2 \in Uses(c) <=> (2 - 1) \in Bits(c.fields)
            <6>1. 2 \in 2..129
              OBVIOUS
            <6> QED BY <1>1, <6>1, UsesNamed, Zenon
          <5> QED BY ONLY <5>1, <5>2
        <4>2. \A k \in 9..16 : Map(c)[k] = 0
          BY <4>1 DEF Map
        <4> QED BY <3>3, <4>2 DEF MapAt
      <3> QED BY <1>3, <2>1, <3>1, <3>2, <3>3
    <2>4. result' = Unknown /\ result' \notin Nat /\ result' # -1
      BY <2>1 DEF Running, Unknown
    <2> QED BY <1>3, <2>1, <2>2, <2>3, <2>4 DEF Follows
  <1>7. CASE BadField
    <2>1. Running /\ Present /\ FieldBytes(Defs[i], Rest) < 0 /\ result' = -1
      BY <1>7 DEF BadField
    <2>2. /\ c.at[i + 1] - count \in Nat
          /\ FieldBytes(Defs[i], Rest) =
               IF c.at[i + 1] <= Len(buf) THEN c.at[i + 1] - count ELSE -1
      BY <1>5, <2>1, StepMeasures
    <2>3. ~(c.at[i + 1] <= Len(buf))
      BY <2>1, <2>2
    <2>4. c.at[i + 1] <= Len(c.bytes) /\ i + 1 \in 0..130
      <3>1. i \in 0..129 /\ i + 1 \in 0..130 /\ i \in Uses(c)
        BY <1>3, <1>4, <2>1
      <3>2. c.at[i + 1] <= Len(c.bytes)
        BY <1>1, <3>1, UsedField, Zenon
      <3> QED BY <3>1, <3>2
    <2>5. c.at[i + 1] \in Nat
      BY <1>0, <2>4, Zenon
    <2>6. Len(buf) < Len(c.bytes)
      <3>1. \A x, y, z \in Nat : ~(x <= y) /\ x <= z => y < z
        OBVIOUS
      <3> QED BY <1>0, <2>3, <2>4, <2>5, <3>1, Zenon
    <2> QED BY <2>1, <2>6 DEF Follows, Unknown
  <1>8. CASE TakeField
    <2> DEFINE temp == FieldBytes(Defs[i], Rest)
    <2>1. /\ Running /\ Present /\ temp >= 0
          /\ count' = count + temp /\ i' = i + 1 /\ result' = result
          /\ bitmap' = IF i \in {1, 2}
                       THEN Overlay(bitmap, IF i = 1 THEN 0 ELSE 8, SubSeq(Rest, 1, temp))
                       ELSE bitmap
      BY <1>8 DEF TakeField
    <2>2. /\ c.at[i + 1] - count \in Nat
          /\ temp = IF c.at[i + 1] <= Len(buf) THEN c.at[i + 1] - count ELSE -1
      BY <1>5, <2>1, StepMeasures
    <2> HIDE DEF temp
    <2>3. temp = c.at[i + 1] - count /\ c.at[i + 1] <= Len(buf)
      BY <2>1, <2>2
    <2>4. i + 1 \in 0..130 /\ i \in 0..130
      BY <1>3, <2>1
    <2>5. count \in Nat /\ c.at[i + 1] \in Nat
      BY ONLY <1>0, <1>3, <2>1, <2>4
    <2>6. count' = c.at[i + 1]
      BY <2>1, <2>3, <2>5
    <2>7. bitmap' = MapAt(c, i + 1)
      <3>1. CASE i \in {1, 2}
        <4>1. c.at[i + 1] = c.at[i] + 8
          BY <1>1, <1>4, <2>1, <3>1, BitmapTakesEight
        <4>2. temp = 8 /\ count + 8 <= Len(buf)
          BY <1>3, <2>1, <2>3, <2>5, <4>1
        <4> QED BY <1>3, <1>5, <2>1, <3>1, <4>2, OverlayKnown
      <3>2. CASE i \notin {1, 2}
        <4>1. i = 0 \/ i > 2
          BY <1>3, <2>1, <3>2
        <4>2. MapAt(c, i + 1) = MapAt(c, i)
          BY <1>3, <2>1, <4>1 DEF MapAt
        <4> QED BY <1>3, <2>1, <3>2, <4>2
      <3> QED BY <3>1, <3>2
    <2>8. result' = Unknown /\ result' \notin Nat /\ result' # -1
      BY <2>1 DEF Running, Unknown
    <2> QED BY <2>1, <2>6, <2>7, <2>8 DEF Follows
  <1>9. CASE Return
    <2>1. result = Unknown /\ i = 129 /\ result' = count
      BY <1>1, <1>9 DEF Return, LastIndex
    <2>2. count = Len(c.bytes)
      BY <1>1, <1>2, <2>1, EndsAtLast DEF Follows
    <2>3. Len(c.bytes) \in Nat /\ Len(c.bytes) <= Len(buf)
      BY <1>1, <2>1, <2>2, ComposedTypes
    <2> QED BY <2>1, <2>2, <2>3 DEF Follows, Unknown
  <1>10. CASE UNCHANGED vars
    BY <1>2, <1>10 DEF Follows, vars
  <1> QED BY <1>6, <1>7, <1>8, <1>9, <1>10 DEF Next

LEMMA MeasureStarts ==
    ASSUME Init, BoundsInv
    PROVE  MeasureInv
  <1> SUFFICES ASSUME Alike(buf, sent.bytes) PROVE Follows(sent)
    BY DEF MeasureInv
  <1> DEFINE c == sent
  <1>1. /\ Composed(c) /\ count = IsoLen + Tpdu /\ i = 0
        /\ bitmap = NoBitmap
        /\ result = IF IsoLen >= Len(buf) \/ IsoLen + Tpdu > Len(buf) THEN -1 ELSE Unknown
    BY DEF BoundsInv, Init
  <1>2. count = c.at[0] /\ Len(c.bytes) \in Nat
    BY <1>1, ComposedTypes
  <1>3. bitmap = MapAt(c, 0)
    BY <1>1 DEF NoBitmap, MapAt
  <1>4. IsoLen + Tpdu + 8 <= Len(c.bytes)
    <2>1. 0 \in Uses(c) /\ 1 \in Uses(c)
      BY DEF Uses
    <2>2. /\ MayHave(Defs[0], c.size[0])
          /\ c.at[0 + 1] = c.at[0] + FieldLength(Defs[0], c.size[0])
      <3>1. 0 \in 0..129
        OBVIOUS
      <3> QED BY <1>1, <2>1, <3>1, UsedField, Zenon
    <2>3. FieldLength(Defs[0], c.size[0]) \in Nat
      <3>1. Defs[0] \in FieldDef /\ c.size[0] \in Nat
        <4>1. 0 \in 0..129
          OBVIOUS
        <4>2. c.size[0] \in Nat
          BY <1>1, <4>1, ComposedTypes, Zenon
        <4>3. Defs[0] \in FieldDef
          BY <4>1, DefsAssumption
        <4> QED BY <4>2, <4>3
      <3>2. Tells(Defs[0], <<>>, c.size[0]) /\ <<>> \in Seq(0..255)
        <4>1. Len(<<>>) = 0 /\ <<>> \in Seq(0..255)
          BY EmptySeq
        <4>2. DOMAIN LengthBytes(Defs[0], c.size[0]) = 1..Halved(Defs[0].len_var)
              /\ Halved(Defs[0].len_var) \in 0..2
          BY <2>2, <3>1, LengthBytesCount
        <4>3. \A j \in DOMAIN LengthBytes(Defs[0], c.size[0]) : ~(j <= 0)
          BY <4>2
        <4> QED BY <4>1, <4>3 DEF Tells
      <3> QED BY <2>2, <3>1, <3>2, FieldMeasured
    <2>4. c.at[1 + 1] = c.at[1] + 8 /\ c.at[1 + 1] <= Len(c.bytes)
      <3>1. 1 \in {1, 2} /\ 1 \in 0..129
        OBVIOUS
      <3> QED BY <1>1, <2>1, <3>1, BitmapTakesEight, UsedField, Zenon
    <2>5. c.at[0] = IsoLen + Tpdu /\ c.at[0 + 1] = c.at[1]
      BY <1>1, ComposedTypes
    <2>6. IsoLen \in Nat /\ Tpdu \in Nat
      BY HeaderAssumption
    <2> HIDE DEF c
    <2> QED BY ONLY <1>2, <2>2, <2>3, <2>4, <2>5, <2>6
  <1>5. ASSUME result = -1 PROVE Len(buf) < Len(c.bytes)
    <2>1. Len(buf) \in Nat /\ IsoLen \in Nat /\ Tpdu \in Nat
      BY LenProperties, HeaderAssumption DEF BoundsInv, TypeOK
    <2> HIDE DEF c
    <2> QED BY <1>1, <1>2, <1>4, <1>5, <2>1 DEF Unknown
  <1>6. result \notin Nat
    BY <1>1 DEF Unknown
  <1> QED BY <1>1, <1>2, <1>3, <1>5, <1>6 DEF Follows

LEMMA MeasureTells == MeasureInv => MeasuresExactly
  <1> SUFFICES ASSUME MeasureInv, Done, 128 \notin sent.fields
               PROVE  /\ Begins(buf, sent.bytes) => result = Len(sent.bytes)
                      /\ Len(buf) < Len(sent.bytes) /\ Begins(sent.bytes, buf) => result = -1
    BY Zenon DEF MeasuresExactly
  <1> DEFINE c == sent
  <1>1. /\ Len(buf) \in Nat /\ Len(c.bytes) \in Nat
        /\ result \in Nat \/ result = -1
    <2>1. Composed(c) /\ buf \in Seq(0..255) /\ result \in {-1, Unknown} \cup Nat
      BY DEF MeasureInv, BoundsInv, TypeOK
    <2>2. Len(buf) \in Nat /\ Len(c.bytes) \in Nat
      BY <2>1, LenProperties, ComposedTypes, Zenon
    <2> QED BY <2>1, <2>2 DEF Done
  <1>2. Alike(buf, c.bytes) => /\ result \in Nat => result = Len(c.bytes) /\ Len(c.bytes) <= Len(buf)
                               /\ result = -1 => Len(buf) < Len(c.bytes)
    BY DEF MeasureInv, Follows
  <1>3. ASSUME Begins(buf, c.bytes) PROVE result = Len(c.bytes)
    <2>1. Len(c.bytes) <= Len(buf) /\ \A k \in 1..Len(c.bytes) : buf[k] = c.bytes[k]
      BY <1>3, Zenon DEF Begins
    <2>2. Alike(buf, c.bytes)
      BY <1>1, <2>1 DEF Alike
    <2> HIDE DEF c
    <2> QED BY <1>1, <1>2, <2>1, <2>2
  <1>4. ASSUME Len(buf) < Len(c.bytes), Begins(c.bytes, buf) PROVE result = -1
    <2>1. \A k \in 1..Len(buf) : c.bytes[k] = buf[k]
      BY <1>4, Zenon DEF Begins
    <2>2. Alike(buf, c.bytes)
      BY <1>1, <2>1 DEF Alike
    <2> HIDE DEF c
    <2> QED BY <1>1, <1>2, <1>4, <2>2
  <1> QED BY <1>3, <1>4

(* Whatever the table, a message composed from it is accepted and measured to   *)
(* its last byte, whatever follows, and rejected with any byte missing.         *)
(* (iso_buffer.c 153-264)                                                       *)
THEOREM ParserMeasures == Spec => []MeasuresExactly
  <1>1. Init => MeasureInv
    BY BoundsStart, MeasureStarts
  <1>2. MeasureInv /\ [Next]_vars => MeasureInv'
    <2> SUFFICES ASSUME MeasureInv, [Next]_vars PROVE MeasureInv'
      OBVIOUS
    <2>1. BoundsInv'
      BY BoundsKept DEF MeasureInv
    <2> QED BY <2>1, MeasureStep
  <1>3. MeasureInv => MeasuresExactly
    BY MeasureTells
  <1> QED BY <1>1, <1>2, <1>3, PTL DEF Spec

-----------------------------------------------------------------------------
(* The buffer: the bytes of an item, as many as the guards count. *)

LEMMA WordIsTwoBytes ==
    ASSUME NEW v \in Nat
    PROVE  WordBytes(v) \in Seq(0..255) /\ Len(WordBytes(v)) = 2
  <1>1. (v \div 256) % 256 \in 0..255 /\ v % 256 \in 0..255
    BY SMT
  <1> QED BY <1>1 DEF WordBytes

LEMMA DigitsAreBytes ==
    ASSUME NEW d \in Seq(0..15)
    PROVE  BcdBytes(d) \in Seq(0..255) /\ Len(BcdBytes(d)) = (Len(d) + 1) \div 2
  <1> DEFINE odd == Len(d) % 2
             m   == (Len(d) + 1) \div 2
             b(k) == IF k = 1 /\ odd = 1 THEN d[1]
                     ELSE d[2*k - 1 - odd] * 16 + d[2*k - odd]
  <1>1. Len(d) \in Nat /\ \A k \in 1..Len(d) : d[k] \in 0..15
    BY LenProperties, ElementOfSeq
  <1>2. odd \in {0, 1} /\ m \in Nat /\ 2 * m = Len(d) + odd
    BY <1>1, SMT
  <1> HIDE DEF odd, m
  <1>3. ASSUME NEW k \in 1..m PROVE b(k) \in 0..255
    <2>1. CASE k = 1 /\ odd = 1
      <3>1. 1 \in 1..Len(d)
        BY <1>1, <1>2, <2>1
      <3>2. d[1] \in 0..15
        BY <1>1, <3>1
      <3> QED BY <2>1, <3>2
    <2>2. CASE ~(k = 1 /\ odd = 1)
      <3>1. 2*k - 1 - odd \in 1..Len(d) /\ 2*k - odd \in 1..Len(d)
        BY <1>1, <1>2, <2>2
      <3>2. d[2*k - 1 - odd] \in 0..15 /\ d[2*k - odd] \in 0..15
        BY <1>1, <3>1
      <3>3. \A x, y \in 0..15 : x * 16 + y \in 0..255
        BY SMT
      <3>4. d[2*k - 1 - odd] * 16 + d[2*k - odd] \in 0..255
        BY <3>2, <3>3
      <3> QED BY <2>2, <3>4
    <2> QED BY <2>1, <2>2
  <1> HIDE DEF b
  <1>4. BcdBytes(d) = [k \in 1..m |-> b(k)]
    BY DEF BcdBytes, b, m, odd
  <1>5. [k \in 1..m |-> b(k)] \in Seq(0..255) /\ Len([k \in 1..m |-> b(k)]) = m
    BY <1>2, <1>3, IsASeq
  <1> QED BY <1>4, <1>5 DEF m

\* The length the guards of the packing functions use.
Size(item) == CASE item.kind = "byte" -> 1
                [] item.kind = "word" -> 2
                [] item.kind = "mem"  -> Len(item.data)
                [] item.kind = "bcd"  -> (Len(item.data) + 1) \div 2

LEMMA ItemBytes ==
    ASSUME NEW item \in Item
    PROVE  Bytes(item) \in Seq(0..255) /\ Len(Bytes(item)) = Size(item)
  <1>1. CASE item.kind = "byte"
    <2>1. item.data \in Nat
      BY <1>1 DEF Item
    <2>2. item.data % 256 \in 0..255
      BY <2>1, SMT
    <2>3. <<item.data % 256>> \in Seq(0..255) /\ Len(<<item.data % 256>>) = 1
      BY <2>2
    <2> QED BY <1>1, <2>3 DEF Bytes, Size
  <1>2. CASE item.kind = "word"
    <2>1. item.data \in Nat
      BY <1>2 DEF Item
    <2> QED BY <1>2, <2>1, WordIsTwoBytes DEF Bytes, Size
  <1>3. CASE item.kind = "mem"
    <2>1. item.data \in Seq(0..255)
      BY <1>3 DEF Item
    <2> QED BY <1>3, <2>1 DEF Bytes, Size
  <1>4. CASE item.kind = "bcd"
    <2>1. item.data \in Seq(0..15)
      BY <1>4 DEF Item
    <2> QED BY <1>4, <2>1, DigitsAreBytes DEF Bytes, Size
  <1>5. item.kind \in {"byte", "word", "mem", "bcd"}
    BY DEF Item
  <1> QED BY <1>1, <1>2, <1>3, <1>4, <1>5

-----------------------------------------------------------------------------
(* What the getting functions make of those bytes. *)

LEMMA ByByte ==
    ASSUME NEW v \in Nat
    PROVE  v = (v \div 256) * 256 + (v % 256) /\ v \div 256 \in Nat /\ v % 256 \in 0..255
  BY SMT

LEMMA LowWord ==
    ASSUME NEW a \in Nat, NEW x \in Nat, x < 65536 PROVE (65536 * a + x) % 65536 = x
  BY SMT

LEMMA WordComesBack ==
    ASSUME NEW v \in Nat PROVE Word(WordBytes(v)) = v % 65536
  <1>1. v = (v \div 256) * 256 + (v % 256) /\ v \div 256 \in Nat /\ v % 256 \in 0..255
    BY ByByte
  <1>2. PICK q \in Nat, r \in 0..255 : q = v \div 256 /\ r = v % 256
    BY <1>1
  <1>3. q = (q \div 256) * 256 + (q % 256) /\ q \div 256 \in Nat /\ q % 256 \in 0..255
    BY ByByte
  <1>4. PICK a \in Nat, c \in 0..255 : a = q \div 256 /\ c = q % 256
    BY <1>3
  <1>5. v = q * 256 + r /\ q = a * 256 + c
    BY <1>1, <1>2, <1>3, <1>4
  <1>6. /\ v = 65536 * a + (c * 256 + r)
        /\ c * 256 + r \in Nat /\ c * 256 + r < 65536
    <2>1. c * 256 + r \in Nat
      BY ONLY TRUE
    <2>2. c * 256 + r < 65536
      BY ONLY TRUE
    <2>3. (a * 256 + c) * 256 + r = 65536 * a + (c * 256 + r)
      BY ONLY TRUE
    <2>4. v = 65536 * a + (c * 256 + r)
      BY ONLY <1>5, <2>3
    <2> QED BY ONLY <2>1, <2>2, <2>4
  <1>7. v % 65536 = c * 256 + r
    BY <1>6, LowWord
  <1> QED BY <1>2, <1>4, <1>7 DEF Word, WordBytes

\* The two digits of a byte.
LEMMA Nibbles ==
    ASSUME NEW x \in 0..15, NEW y \in 0..15
    PROVE  /\ (x * 16 + y) \div 16 = x /\ (x * 16 + y) % 16 = y
           /\ y \div 16 = 0 /\ y % 16 = y
  BY SMT

LEMMA DigitsComeBack ==
    ASSUME NEW d \in Seq(0..15)
    PROVE  Hexify(BcdBytes(d)) = IF Len(d) % 2 = 0 THEN d ELSE <<0>> \o d
  <1> DEFINE odd == Len(d) % 2
             m   == (Len(d) + 1) \div 2
             b   == BcdBytes(d)
             e   == IF odd = 0 THEN d ELSE <<0>> \o d
             h   == Hexify(b)
  <1>1. Len(d) \in Nat /\ \A k \in 1..Len(d) : d[k] \in 0..15
    BY LenProperties, ElementOfSeq
  <1>2. odd \in {0, 1} /\ m \in Nat /\ 2 * m = Len(d) + odd
    BY <1>1, SMT
  <1>3. /\ Len(b) = m
        /\ \A j \in 1..m : b[j] = IF j = 1 /\ odd = 1 THEN d[1]
                                  ELSE d[2*j - 1 - odd] * 16 + d[2*j - odd]
    BY DigitsAreBytes DEF BcdBytes
  <1>4. /\ e \in Seq(0..15) /\ Len(e) = 2 * m
        /\ \A k \in 1..(2 * m) : e[k] = IF k <= odd THEN 0 ELSE d[k - odd]
    <2> HIDE DEF m
    <2>1. CASE odd = 0
      <3>1. e = d /\ Len(d) = 2 * m
        BY <1>1, <1>2, <2>1
      <3>2. \A k \in 1..(2 * m) : ~(k <= odd) /\ k - odd = k
        BY <1>2, <2>1
      <3> HIDE DEF e
      <3> QED BY <3>1, <3>2
    <2>2. CASE odd # 0
      <3>1. odd = 1 /\ e = <<0>> \o d
        BY <1>2, <2>2
      <3>2. <<0>> \in Seq(0..15) /\ Len(<<0>>) = 1 /\ <<0>>[1] = 0
        OBVIOUS
      <3>3. /\ <<0>> \o d \in Seq(0..15) /\ Len(<<0>> \o d) = 1 + Len(d)
            /\ \A k \in 1..(1 + Len(d)) :
                  (<<0>> \o d)[k] = IF k <= 1 THEN <<0>>[k] ELSE d[k - 1]
        BY <3>2, ConcatProperties
      <3> HIDE DEF e, odd
      <3>4. 2 * m = 1 + Len(d)
        BY <1>1, <1>2, <3>1
      <3>5. ASSUME NEW k \in 1..(2 * m) PROVE e[k] = IF k <= odd THEN 0 ELSE d[k - odd]
        <4>1. k \in 1..(1 + Len(d)) /\ (k <= 1 => k = 1)
          BY <3>4, <1>1
        <4> QED BY <3>1, <3>2, <3>3, <4>1
      <3> QED BY <3>1, <3>3, <3>4, <3>5
    <2> QED BY <2>1, <2>2
  <1>5. /\ h = [k \in 1..(2 * m) |->
                  IF k % 2 = 1 THEN b[(k + 1) \div 2] \div 16 ELSE b[(k + 1) \div 2] % 16]
    BY <1>3 DEF Hexify
  <1> HIDE DEF odd, m, b, e, h
  <1>6. ASSUME NEW k \in 1..(2 * m) PROVE h[k] = e[k]
    <2> DEFINE j == (k + 1) \div 2
    <2>1. j \in 1..m /\ (k % 2 = 1 => k = 2 * j - 1) /\ (k % 2 # 1 => k = 2 * j)
      BY <1>2, SMT
    <2>2. h[k] = IF k % 2 = 1 THEN b[j] \div 16 ELSE b[j] % 16
      BY <1>5
    <2> HIDE DEF j
    <2>3. CASE j = 1 /\ odd = 1
      <3>1. b[j] = d[1] /\ d[1] \in 0..15
        <4>1. 1 \in 1..Len(d)
          BY <1>1, <1>2, <2>1, <2>3
        <4> QED BY <1>1, <1>3, <2>1, <2>3, <4>1
      <3>2. d[1] \div 16 = 0 /\ d[1] % 16 = d[1]
        BY <3>1, Nibbles
      <3>3. /\ k % 2 = 1 => k <= odd
            /\ k % 2 # 1 => ~(k <= odd) /\ k - odd = 1
        BY <2>1, <2>3
      <3> QED BY <1>4, <2>2, <3>1, <3>2, <3>3
    <2>4. CASE ~(j = 1 /\ odd = 1)
      <3>1. 2*j - 1 - odd \in 1..Len(d) /\ 2*j - odd \in 1..Len(d)
        BY <1>1, <1>2, <2>1, <2>4
      <3> DEFINE x == d[2*j - 1 - odd]
                 y == d[2*j - odd]
      <3>2. x \in 0..15 /\ y \in 0..15
        BY <1>1, <3>1
      <3>3. b[j] = x * 16 + y
        BY <1>3, <2>1, <2>4
      <3>4. ~(k <= odd)
        BY <1>2, <2>1, <2>4
      <3>5. e[k] = d[k - odd]
        BY <1>4, <3>4
      <3>6. /\ k % 2 = 1 => d[k - odd] = x
            /\ k % 2 # 1 => d[k - odd] = y
        <4>1. k % 2 = 1 => k - odd = 2*j - 1 - odd
          BY <1>2, <2>1
        <4>2. k % 2 # 1 => k - odd = 2*j - odd
          BY <1>2, <2>1
        <4> QED BY <4>1, <4>2
      <3> HIDE DEF x, y
      <3>7. (x * 16 + y) \div 16 = x /\ (x * 16 + y) % 16 = y
        BY <3>2, Nibbles
      <3> QED BY <2>2, <3>3, <3>5, <3>6, <3>7
    <2> QED BY <2>3, <2>4
  <1>7. h = e
    <2>1. e = [k \in 1..(2 * m) |-> e[k]]
      BY <1>4, LenProperties
    <2> QED BY <1>5, <1>6, <2>1
  <1> QED BY <1>7 DEF h, e, b, odd

-----------------------------------------------------------------------------
(* The buffer: the items stored, one behind the other.                       *)

Slot == [item : Item, at : Nat]

\* The bytes of a slot, and where they end.
Of(slot) == Bytes(slot.item)
Stop(slot) == slot.at + Len(Of(slot))

\* Where the k-th of the slots t ends.
EndIn(t, k) == IF k = 0 THEN 0 ELSE Stop(t[k])

\* The slots t are in b from its beginning on, none of them empty.
Laid(b, t) ==
    \A k \in 1..Len(t) :
        /\ t[k].at = EndIn(t, k - 1)
        /\ EndIn(t, k) <= EndIn(t, Len(t))
        /\ k < Len(t) => EndIn(t, k) < EndIn(t, Len(t))
        /\ \A j \in 1..Len(Of(t[k])) : b[t[k].at + j - 1] = Of(t[k])[j]

LEMMA SlotBytes ==
    ASSUME NEW slot \in Slot
    PROVE  /\ slot.item \in Item /\ slot.at \in Nat
           /\ Of(slot) \in Seq(0..255) /\ Len(Of(slot)) = Size(slot.item)
           /\ Len(Of(slot)) \in Nat /\ Stop(slot) \in Nat
  <1>1. slot.item \in Item /\ slot.at \in Nat
    BY DEF Slot
  <1>2. Of(slot) \in Seq(0..255) /\ Len(Of(slot)) = Size(slot.item)
    BY <1>1, ItemBytes DEF Of
  <1>3. Len(Of(slot)) \in Nat
    BY <1>2, LenProperties
  <1> QED BY <1>1, <1>2, <1>3 DEF Stop

LEMMA EndIsNat ==
    ASSUME NEW t \in Seq(Slot), NEW k \in 0..Len(t)
    PROVE  EndIn(t, k) \in Nat
  <1>1. k # 0 => t[k] \in Slot
    BY LenProperties, ElementOfSeq
  <1> QED BY <1>1, SlotBytes DEF EndIn

\* What storing bytes at l makes of b.
With(b, l, bytes) ==
    [k \in 0..N-1 |-> IF k \in l..l + Len(bytes) - 1 THEN bytes[k - l + 1] ELSE b[k]]

LEMMA LaidMore ==
    ASSUME NEW b, NEW t \in Seq(Slot), Laid(b, t), NEW slot \in Slot,
           slot.at = EndIn(t, Len(t)), Len(Of(slot)) > 0, Stop(slot) <= N
    PROVE  /\ Laid(With(b, slot.at, Of(slot)), Append(t, slot))
           /\ EndIn(Append(t, slot), Len(t) + 1) = Stop(slot)
           /\ \A k \in 0..Len(t) : EndIn(Append(t, slot), k) = EndIn(t, k)
  <1> DEFINE u == Append(t, slot)
             c == With(b, slot.at, Of(slot))
  <1> PICK n \in Nat : n = Len(t)
    BY LenProperties
  <1>1. /\ u \in Seq(Slot) /\ Len(u) = n + 1 /\ u[n + 1] = slot
        /\ \A k \in 1..n : u[k] = t[k] /\ t[k] \in Slot
    BY AppendProperties, ElementOfSeq
  <1> HIDE DEF u
  <1>2. \A k \in 0..n : EndIn(u, k) = EndIn(t, k) /\ EndIn(t, k) \in Nat
    <2>1. \A k \in 0..n : EndIn(t, k) \in Nat
      BY EndIsNat
    <2>2. \A k \in 0..n : k # 0 => k \in 1..n
      OBVIOUS
    <2> QED BY <1>1, <2>1, <2>2 DEF EndIn
  <1>3. EndIn(u, n + 1) = Stop(slot)
    BY <1>1 DEF EndIn
  <1> DEFINE l == slot.at
             len == Len(Of(slot))
  <1>4. /\ l \in Nat /\ len \in Nat /\ len > 0 /\ Stop(slot) = l + len /\ l = EndIn(t, n)
        /\ l + len <= N /\ N \in Nat
    BY SlotBytes, LengthAssumption DEF Stop
  <1>5. /\ \A k \in 0..(l - 1) : c[k] = b[k]
        /\ \A j \in 1..len : c[l + j - 1] = Of(slot)[j]
    <2>1. c = [k \in 0..N-1 |-> IF k \in l..l + len - 1 THEN Of(slot)[k - l + 1] ELSE b[k]]
      BY DEF With
    <2> HIDE DEF l, len, c
    <2>2. ASSUME NEW k \in 0..(l - 1) PROVE c[k] = b[k]
      <3>1. k \in 0..N-1 /\ k \notin l..l + len - 1
        BY <1>4
      <3> QED BY <2>1, <3>1
    <2>3. ASSUME NEW j \in 1..len PROVE c[l + j - 1] = Of(slot)[j]
      <3>1. l + j - 1 \in 0..N-1 /\ l + j - 1 \in l..l + len - 1 /\ (l + j - 1) - l + 1 = j
        BY <1>4
      <3> QED BY <2>1, <3>1
    <2> QED BY <2>2, <2>3
  <1> HIDE DEF l, len, c
  <1>6. ASSUME NEW k \in 1..n
        PROVE  /\ u[k].at = EndIn(u, k - 1)
               /\ EndIn(u, k) < EndIn(u, n + 1)
               /\ \A j \in 1..Len(Of(u[k])) : c[u[k].at + j - 1] = Of(u[k])[j]
    <2>1. k \in 0..n /\ k - 1 \in 0..n /\ u[k] = t[k] /\ t[k] \in Slot
      BY <1>1
    <2>2. /\ t[k].at = EndIn(t, k - 1)
          /\ EndIn(t, k) <= EndIn(t, n)
          /\ \A j \in 1..Len(Of(t[k])) : b[t[k].at + j - 1] = Of(t[k])[j]
      BY DEF Laid
    <2>3. EndIn(t, k) < l + len
      BY <1>2, <1>4, <2>1, <2>2
    <2>4. ASSUME NEW j \in 1..Len(Of(t[k])) PROVE c[t[k].at + j - 1] = Of(t[k])[j]
      <3>1. t[k].at \in Nat /\ Len(Of(t[k])) \in Nat /\ EndIn(t, k) = t[k].at + Len(Of(t[k]))
        BY <2>1, SlotBytes DEF EndIn, Stop
      <3>2. t[k].at + j - 1 \in 0..(l - 1)
        BY <1>4, <2>2, <3>1
      <3> QED BY <1>5, <2>2, <3>2
    <2> QED BY <1>2, <1>3, <1>4, <2>1, <2>2, <2>3, <2>4
  <1>7. /\ u[n + 1].at = EndIn(u, n)
        /\ \A j \in 1..Len(Of(u[n + 1])) : c[u[n + 1].at + j - 1] = Of(u[n + 1])[j]
    <2>1. n \in 0..n
      OBVIOUS
    <2> QED BY <1>1, <1>2, <1>4, <1>5, <2>1 DEF l, len
  <1>8. ASSUME NEW k \in 1..Len(u)
        PROVE  /\ u[k].at = EndIn(u, k - 1)
               /\ EndIn(u, k) <= EndIn(u, Len(u))
               /\ k < Len(u) => EndIn(u, k) < EndIn(u, Len(u))
               /\ \A j \in 1..Len(Of(u[k])) : c[u[k].at + j - 1] = Of(u[k])[j]
    <2>1. CASE k = n + 1
      <3>1. EndIn(u, n + 1) <= EndIn(u, n + 1) /\ ~(n + 1 < n + 1) /\ (n + 1) - 1 = n
        BY <1>3, <1>4
      <3> QED BY <1>1, <1>7, <2>1, <3>1
    <2>2. CASE k # n + 1
      <3>1. k \in 1..n /\ k \in 0..n
        BY <1>1, <2>2
      <3>2. EndIn(u, k) \in Nat /\ EndIn(u, n + 1) \in Nat
        BY <1>2, <1>3, <1>4, <3>1
      <3>3. EndIn(u, k) < EndIn(u, n + 1)
        BY <1>6, <3>1
      <3>4. EndIn(u, k) <= EndIn(u, n + 1)
        BY <3>2, <3>3
      <3> QED BY <1>1, <1>6, <3>1, <3>3, <3>4
    <2> QED BY <2>1, <2>2
  <1>9. Laid(c, u)
    BY <1>8 DEF Laid
  <1> QED BY <1>2, <1>3, <1>9 DEF c, l, u

-----------------------------------------------------------------------------
(* The inductive invariant. *)

LEMMA EndsAgree == \A k : End(k) = EndIn(taken, k)
  BY DEF End, EndIn, Stop, Of

\* What is stored is in the buffer, item behind item.
Stored ==
    /\ BufferTypeOK
    /\ taken \in Seq(Slot)
    /\ Laid(buffer, taken)
    /\ EndIn(taken, Len(taken)) <= N

\* While packing the cursor is where the last item ended, and no further than
\* what was asked for.
Packing ==
    /\ asked \in Nat
    /\ NothingLost
    /\ phase = "pack" => next = 0 /\ index = EndIn(taken, Len(taken)) /\ index <= asked

\* No item but one that ends at the end of the buffer is refused.
Readable == next < Len(taken) \/ EndIn(taken, Len(taken)) < N

\* While getting it is where the last item got ended.
Getting ==
    /\ phase = "get" /\ Readable => index = EndIn(taken, next)
    /\ RoundTrip

BufferInv == Stored /\ Packing /\ Getting

LEMMA StoredTypes ==
    ASSUME Stored
    PROVE  /\ N \in Nat /\ index \in Nat /\ index <= N /\ buffer \in [0..N-1 -> 0..255]
           /\ taken \in Seq(Slot) /\ Len(taken) \in Nat
           /\ next \in Nat /\ next <= Len(taken) /\ phase \in {"pack", "get"}
           /\ EndIn(taken, Len(taken)) \in Nat
           /\ \A k \in 1..Len(taken) : taken[k] \in Slot
  <1>1. /\ N \in Nat /\ index \in 0..N /\ buffer \in [0..N-1 -> 0..255]
        /\ taken \in Seq(Slot) /\ next \in 0..Len(taken) /\ phase \in {"pack", "get"}
    BY LengthAssumption DEF Stored, BufferTypeOK
  <1>2. Len(taken) \in Nat /\ \A k \in 1..Len(taken) : taken[k] \in Slot
    BY <1>1, LenProperties, ElementOfSeq
  <1>3. EndIn(taken, Len(taken)) \in Nat
    <2>1. Len(taken) \in 0..Len(taken)
      BY <1>2
    <2> QED BY <1>1, <2>1, EndIsNat
  <1>4. index \in Nat /\ index <= N /\ next \in Nat /\ next <= Len(taken)
    BY <1>1, <1>2
  <1> QED BY <1>1, <1>2, <1>3, <1>4

LEMMA RoomIsBoolean ==
    \A len : RoomFor(len) \in BOOLEAN /\ RoomForBcd(len) \in BOOLEAN
  BY DEF RoomFor, RoomForBcd

\* An item is stored only where all its bytes have room, and dropped only where
\* they would have reached the last byte.
LEMMA OfferKeeps ==
    ASSUME BufferInv, NEW item \in Items, NEW room \in BOOLEAN,
           Offer(item, room), room => index <= N - Size(item),
           ~room => index >= N - Size(item)
    PROVE  BufferInv'
  <1> DEFINE bytes == Bytes(item)
             slot  == [item |-> item, at |-> index]
  <1>0. Stored /\ Packing /\ Getting
    BY DEF BufferInv
  <1>1. item \in Item
    BY ItemsAssumption
  <1>2. bytes \in Seq(0..255) /\ Len(bytes) = Size(item) /\ Len(bytes) \in Nat
    BY <1>1, ItemBytes, LenProperties
  <1>3. /\ N \in Nat /\ index \in Nat /\ index <= N /\ buffer \in [0..N-1 -> 0..255]
        /\ taken \in Seq(Slot) /\ Len(taken) \in Nat
    BY <1>0, StoredTypes
  <1>4. /\ phase = "pack" /\ next = 0 /\ index = EndIn(taken, Len(taken))
        /\ asked \in Nat /\ index <= asked /\ (asked < N => ~lost)
    BY <1>0 DEF Packing, NothingLost, Offer
  <1>5. /\ phase' = "pack" /\ next' = 0 /\ got' = got
        /\ asked' = asked + Len(bytes)
    BY <1>4 DEF Offer
  <1> HIDE DEF bytes
  <1>6. asked' \in Nat
    BY <1>2, <1>4, <1>5
  <1>7. Getting'
    BY <1>5 DEF Getting, RoundTrip
  <1>8. CASE room /\ Len(bytes) > 0
    <2>1. /\ index' = index + Len(bytes) /\ taken' = Append(taken, slot)
          /\ buffer' = With(buffer, index, bytes) /\ lost' = lost
      BY <1>8, Zenon DEF Offer, Put, With, bytes
    <2>2. slot \in Slot /\ slot.at = index /\ Of(slot) = bytes
      BY <1>1, <1>3 DEF Slot, Of, bytes
    <2> HIDE DEF slot
    <2>3. Stop(slot) = index + Len(bytes) /\ index + Len(bytes) <= N
      <3>1. Stop(slot) = index + Len(bytes)
        BY <2>2 DEF Stop
      <3>2. index <= N - Len(bytes)
        BY <1>2, <1>8, Zenon
      <3> QED BY <1>2, <1>3, <3>1, <3>2
    <2>4. Laid(buffer, taken)
      BY <1>0 DEF Stored
    <2>5. /\ Laid(buffer', taken')
          /\ EndIn(taken', Len(taken) + 1) = Stop(slot)
      <3>1. slot.at = EndIn(taken, Len(taken)) /\ Len(Of(slot)) > 0 /\ Stop(slot) <= N
        BY <1>4, <1>8, <2>2, <2>3
      <3>2. /\ Laid(With(buffer, slot.at, Of(slot)), Append(taken, slot))
            /\ EndIn(Append(taken, slot), Len(taken) + 1) = Stop(slot)
        BY ONLY <1>3, <2>2, <2>4, <3>1, LaidMore
      <3> QED BY <2>1, <2>2, <3>2
    <2>6. taken' \in Seq(Slot) /\ Len(taken') = Len(taken) + 1
      BY <1>3, <2>1, <2>2, AppendProperties
    <2>7. index' = EndIn(taken', Len(taken')) /\ index' \in 0..N /\ index' <= asked'
      BY <1>2, <1>3, <1>4, <1>5, <2>1, <2>3, <2>5, <2>6
    <2>8. buffer' \in [0..N-1 -> 0..255]
      <3>1. \A k \in 1..Len(bytes) : bytes[k] \in 0..255
        BY <1>2, ElementOfSeq
      <3>2. \A k \in 0..N-1 : (IF k \in index..index + Len(bytes) - 1
                              THEN bytes[k - index + 1] ELSE buffer[k]) \in 0..255
        <4> TAKE k \in 0..N-1
        <4>1. buffer[k] \in 0..255
          BY <1>3
        <4>2. ASSUME k \in index..index + Len(bytes) - 1 PROVE bytes[k - index + 1] \in 0..255
          <5>1. k - index + 1 \in 1..Len(bytes)
            BY <1>2, <1>3, <4>2
          <5> QED BY <3>1, <5>1
        <4> QED BY <4>1, <4>2
      <3> QED BY <2>1, <3>2, Zenon DEF With
    <2>9. BufferTypeOK'
      <3>1. next' \in 0..Len(taken')
        BY <1>3, <1>5, <2>6
      <3> QED BY <1>5, <2>7, <2>8, <3>1 DEF BufferTypeOK
    <2>10. Stored'
      <3>1. EndIn(taken', Len(taken')) <= N
        BY <1>3, <2>7
      <3> QED BY <2>5, <2>6, <2>9, <3>1 DEF Stored
    <2>11. Packing'
      <3>1. asked' < N => ~lost'
        BY <1>2, <1>3, <1>4, <1>5, <2>1
      <3> QED BY <1>5, <1>6, <2>7, <3>1 DEF Packing, NothingLost
    <2> QED BY <1>7, <2>10, <2>11 DEF BufferInv
  <1>9. CASE ~(room /\ Len(bytes) > 0)
    <2>1. /\ buffer' = buffer /\ index' = index /\ taken' = taken
          /\ lost' = (lost \/ Len(bytes) > 0)
      BY <1>9, Zenon DEF Offer, bytes
    <2>2. Stored'
      <3>1. BufferTypeOK /\ Laid(buffer, taken) /\ EndIn(taken, Len(taken)) <= N
        BY <1>0 DEF Stored
      <3>2. BufferTypeOK'
        BY <1>4, <1>5, <2>1, <3>1 DEF BufferTypeOK
      <3> QED BY <1>3, <2>1, <3>1, <3>2 DEF Stored
    <2>3. asked' < N => ~lost'
      <3>1. asked' < N => ~(Len(bytes) > 0)
        BY <1>2, <1>3, <1>4, <1>5, <1>9
      <3>2. asked' < N => asked < N
        BY <1>2, <1>3, <1>4, <1>5
      <3> QED BY <1>4, <2>1, <3>1, <3>2, Zenon
    <2>4. index' = EndIn(taken', Len(taken')) /\ index' <= asked'
      BY <1>2, <1>3, <1>4, <1>5, <2>1
    <2>5. Packing'
      BY <1>5, <1>6, <2>3, <2>4 DEF Packing, NothingLost
    <2> QED BY <1>7, <2>2, <2>5 DEF BufferInv
  <1> QED BY <1>8, <1>9

\* The item that is due is ahead of the cursor, and ends inside the buffer.
LEMMA DueIsAhead ==
    ASSUME BufferInv, NEW kind, NEW len, Due(kind, len)
    PROVE  /\ phase = "get" /\ next < Len(taken) /\ len \in Nat
           /\ taken[next + 1] \in Slot /\ taken[next + 1].item.kind = kind
           /\ Of(taken[next + 1]) \in Seq(0..255) /\ Len(Of(taken[next + 1])) = len
           /\ Ahead(len) = Of(taken[next + 1])
           /\ EndIn(taken, next + 1) = index + len
           /\ index + len <= N
           /\ next + 1 < Len(taken) => index + len < N
           /\ EndIn(taken, Len(taken)) < N => index + len < N
  <1>0. Stored /\ Packing /\ Getting
    BY DEF BufferInv
  <1>1. /\ N \in Nat /\ index \in Nat /\ taken \in Seq(Slot) /\ Len(taken) \in Nat
        /\ next \in Nat /\ EndIn(taken, Len(taken)) \in Nat
        /\ \A k \in 1..Len(taken) : taken[k] \in Slot
    BY <1>0, StoredTypes
  <1>2. phase = "get" /\ next < Len(taken) /\ taken[next + 1].item.kind = kind
        /\ Len(Of(taken[next + 1])) = len
    BY DEF Due, Of
  <1> DEFINE slot == taken[next + 1]
  <1>3. next + 1 \in 1..Len(taken) /\ (next + 1) - 1 = next
    BY <1>1, <1>2
  <1>4. slot \in Slot
    BY <1>1, <1>3
  <1>5. slot.at \in Nat /\ Of(slot) \in Seq(0..255) /\ Len(Of(slot)) \in Nat
    BY <1>4, SlotBytes
  <1>6. index = EndIn(taken, next)
    BY <1>0, <1>2 DEF Getting, Readable
  <1>7. /\ slot.at = EndIn(taken, next)
        /\ EndIn(taken, next + 1) <= EndIn(taken, Len(taken))
        /\ next + 1 < Len(taken) => EndIn(taken, next + 1) < EndIn(taken, Len(taken))
        /\ \A j \in 1..Len(Of(slot)) : buffer[slot.at + j - 1] = Of(slot)[j]
        /\ EndIn(taken, Len(taken)) <= N
    BY <1>0, <1>3 DEF Stored, Laid
  <1>8. EndIn(taken, next + 1) = slot.at + Len(Of(slot))
    BY <1>1 DEF EndIn, Stop
  <1>9. Ahead(len) = Of(slot)
    <2>1. Ahead(len) = [k \in 1..len |-> Of(slot)[k]]
      BY <1>2, <1>6, <1>7 DEF Ahead
    <2>2. Of(slot) = [k \in 1..Len(Of(slot)) |-> Of(slot)[k]]
      BY <1>5, LenProperties
    <2> QED BY <1>2, <2>1, <2>2
  <1> HIDE DEF slot
  <1>10. /\ EndIn(taken, next + 1) = index + len /\ len \in Nat
         /\ index + len <= N
         /\ next + 1 < Len(taken) => index + len < N
         /\ EndIn(taken, Len(taken)) < N => index + len < N
    BY <1>1, <1>2, <1>5, <1>6, <1>7, <1>8 DEF slot
  <1> QED BY <1>2, <1>4, <1>5, <1>9, <1>10 DEF slot

\* A get that takes what is ahead, unless that ends at the end of the buffer,
\* and makes of it what it must.
LEMMA GetKeeps ==
    ASSUME BufferInv, NEW kind, NEW len, Due(kind, len),
           NEW room \in BOOLEAN, NEW by, NEW value, NEW refusal,
           Get(by, len, room, value, refusal),
           index + len < N => room,
           value = Expected(by, taken[next + 1].item)
    PROVE  BufferInv'
  <1>0. Stored /\ Packing /\ Getting
    BY DEF BufferInv
  <1>1. /\ N \in Nat /\ index \in Nat /\ index <= N /\ Len(taken) \in Nat
        /\ next \in Nat /\ EndIn(taken, Len(taken)) \in Nat
    BY <1>0, StoredTypes
  <1>2. /\ phase = "get" /\ next < Len(taken) /\ len \in Nat
        /\ EndIn(taken, next + 1) = index + len
        /\ index + len <= N
        /\ next + 1 < Len(taken) => index + len < N
        /\ EndIn(taken, Len(taken)) < N => index + len < N
    BY DueIsAhead
  <1>3. /\ next' = next + 1 /\ phase' = "get" /\ buffer' = buffer
        /\ taken' = taken /\ asked' = asked /\ lost' = lost
    BY <1>2 DEF Get, packed
  <1>4. index' = index \/ index' = index + len
    BY DEF Get
  <1>5. room => index' = index + len /\ got' = [by |-> by, value |-> value]
    BY DEF Get
  <1>6. Stored'
    <2>1. BufferTypeOK /\ taken \in Seq(Slot) /\ Laid(buffer, taken) /\ EndIn(taken, Len(taken)) <= N
      BY <1>0 DEF Stored
    <2>2. index' \in 0..N /\ next' \in 0..Len(taken)
      BY <1>1, <1>2, <1>3, <1>4
    <2>3. BufferTypeOK'
      BY <1>3, <2>1, <2>2 DEF BufferTypeOK
    <2> QED BY <1>3, <2>1, <2>3 DEF Stored
  <1>7. Packing'
    BY <1>0, <1>3 DEF Packing, NothingLost
  <1>8. ASSUME Readable' PROVE room
    <2>1. next + 1 < Len(taken) \/ EndIn(taken, Len(taken)) < N
      BY <1>3, <1>8 DEF Readable
    <2> QED BY <1>2, <2>1
  <1>9. Readable' => index' = EndIn(taken', next')
    BY <1>2, <1>3, <1>5, <1>8
  <1>10. RoundTrip'
    <2> SUFFICES ASSUME next' < Len(taken') \/ End(Len(taken))' < N
                 PROVE  got'.value = Expected(got'.by, taken'[next'].item) /\ index' = End(next)'
      BY <1>3 DEF RoundTrip
    <2>1. \A k : End(k)' = EndIn(taken', k)
      BY DEF End, EndIn, Stop, Of
    <2>2. Readable'
      BY <1>3, <2>1 DEF Readable
    <2>3. room
      BY <1>8, <2>2
    <2>4. index' = End(next)'
      BY <1>2, <1>3, <1>5, <2>1, <2>3
    <2>5. got'.value = value /\ got'.by = by /\ taken'[next'].item = taken[next + 1].item
      BY <1>3, <1>5, <2>3
    <2> QED BY <2>4, <2>5
  <1>11. Getting'
    BY <1>9, <1>10 DEF Getting
  <1> QED BY <1>6, <1>7, <1>11 DEF BufferInv

\* What a slot's item holds, by its kind.
LEMMA SlotData ==
    ASSUME NEW slot \in Slot
    PROVE  /\ slot.item.kind \in {"byte", "word"} => slot.item.data \in Nat
           /\ slot.item.kind = "mem" => slot.item.data \in Seq(0..255)
           /\ slot.item.kind = "bcd" => slot.item.data \in Seq(0..15)
  BY DEF Slot, Item

\* What is expected of digits: a zero in front of an odd number of them.
LEMMA DigitsExpected ==
    ASSUME NEW item
    PROVE  Expected("bcd", item) =
               IF Len(item.data) % 2 = 0 THEN item.data ELSE <<0>> \o item.data
  BY DEF Expected

LEMMA BufferInvStep == BufferInv /\ [BufferNext]_bufferVars => BufferInv'
  <1> SUFFICES ASSUME BufferInv, [BufferNext]_bufferVars PROVE BufferInv'
    OBVIOUS
  <1>0. N \in Nat /\ index \in Nat /\ index <= N
    BY StoredTypes DEF BufferInv
  <1> DEFINE slot == taken[next + 1]
  <1>1. CASE PackByte
    <2>1. PICK item \in Items : item.kind = "byte" /\ Offer(item, RoomFor(1))
      BY <1>1 DEF PackByte
    <2>2. /\ RoomFor(1) => index <= N - Size(item)
          /\ ~RoomFor(1) => index >= N - Size(item)
      BY <1>0, <2>1 DEF RoomFor, Size
    <2> QED BY <2>1, <2>2, RoomIsBoolean, OfferKeeps, Zenon
  <1>2. CASE PackWord
    <2>1. PICK item \in Items : item.kind = "word" /\ Offer(item, RoomFor(2))
      BY <1>2 DEF PackWord
    <2>2. /\ RoomFor(2) => index <= N - Size(item)
          /\ ~RoomFor(2) => index >= N - Size(item)
      BY <1>0, <2>1 DEF RoomFor, Size
    <2> QED BY <2>1, <2>2, RoomIsBoolean, OfferKeeps, Zenon
  <1>3. CASE PackMem
    <2>1. PICK item \in Items : item.kind = "mem" /\ Offer(item, RoomFor(Len(item.data)))
      BY <1>3 DEF PackMem
    <2>2. Size(item) = Len(item.data) /\ Size(item) \in Nat
      <3>1. item \in Item
        BY ItemsAssumption
      <3> QED BY <2>1, <3>1, ItemBytes, LenProperties DEF Size
    <2>3. /\ RoomFor(Len(item.data)) => index <= N - Size(item)
          /\ ~RoomFor(Len(item.data)) => index >= N - Size(item)
      BY <1>0, <2>2 DEF RoomFor
    <2> QED BY <2>1, <2>3, RoomIsBoolean, OfferKeeps, Zenon
  <1>4. CASE PackBcd
    <2>1. PICK item \in Items :
             item.kind = "bcd" /\ Offer(item, RoomForBcd((Len(item.data) + 1) \div 2))
      BY <1>4 DEF PackBcd
    <2> DEFINE m == (Len(item.data) + 1) \div 2
    <2>2. Size(item) = m
      BY <2>1 DEF Size
    <2>3. m \in Nat
      <3>1. item \in Item
        BY ItemsAssumption
      <3> QED BY <2>2, <3>1, ItemBytes, LenProperties
    <2> HIDE DEF m
    <2>4. /\ RoomForBcd(m) => index <= N - Size(item)
          /\ ~RoomForBcd(m) => index >= N - Size(item)
      BY <1>0, <2>2, <2>3 DEF RoomForBcd
    <2>5. Offer(item, RoomForBcd(m))
      BY <2>1 DEF m
    <2> QED BY <2>4, <2>5, RoomIsBoolean, OfferKeeps, Zenon
  <1>5. CASE Rewind
    <2>1. Stored /\ Packing /\ phase = "pack" /\ next = 0
      BY <1>5 DEF BufferInv, Packing, Rewind
    <2>2. /\ phase' = "get" /\ index' = 0 /\ buffer' = buffer /\ taken' = taken
          /\ next' = 0 /\ asked' = asked /\ lost' = lost
      BY <1>5, <2>1 DEF Rewind, packed
    <2>3. 0 \in 0..N
      BY <1>0
    <2>4. Stored'
      BY <2>1, <2>2, <2>3 DEF Stored, BufferTypeOK
    <2>5. Packing'
      BY <2>1, <2>2 DEF Packing, NothingLost
    <2>6. Getting'
      BY <2>2 DEF Getting, RoundTrip, EndIn
    <2> QED BY <2>4, <2>5, <2>6 DEF BufferInv
  <1>6. CASE GetByte
    <2>1. Due("byte", 1) /\ Get("byte", 1, index < N, Ahead(1), <<0>>)
      BY <1>6 DEF GetByte
    <2>2. slot \in Slot /\ slot.item.kind = "byte" /\ Ahead(1) = Of(slot)
      BY <2>1, DueIsAhead
    <2>3. Ahead(1) = Expected("byte", slot.item)
      BY <2>2 DEF Of, Bytes, Expected
    <2>4. (index + 1 < N => index < N) /\ (index < N) \in BOOLEAN
      BY <1>0
    <2> QED BY <2>1, <2>3, <2>4, GetKeeps, Zenon
  <1>7. CASE GetWord
    <2>1. Due("word", 2) /\ Get("word", 2, InsideBy(2), <<Word(Ahead(2))>>, <<0>>)
      BY <1>7 DEF GetWord
    <2>2. slot \in Slot /\ slot.item.kind = "word" /\ Ahead(2) = Of(slot)
      BY <2>1, DueIsAhead
    <2>3. Ahead(2) = WordBytes(slot.item.data)
      BY <2>2 DEF Of, Bytes
    <2>4. Word(Ahead(2)) = slot.item.data % 65536
      BY <2>2, <2>3, SlotData, WordComesBack
    <2>5. <<Word(Ahead(2))>> = Expected("word", slot.item)
      BY <2>4 DEF Expected
    <2>6. index + 2 < N => InsideBy(2)
      BY <1>0 DEF InsideBy
    <2>7. InsideBy(2) \in BOOLEAN
      BY DEF InsideBy
    <2> QED BY <2>1, <2>5, <2>6, <2>7, GetKeeps, Zenon
  <1>8. ASSUME NEW len \in 1..N, Due("mem", len)
        PROVE  slot \in Slot /\ Ahead(len) = slot.item.data
    <2>1. slot \in Slot /\ slot.item.kind = "mem" /\ Ahead(len) = Of(slot)
      BY <1>8, DueIsAhead
    <2> QED BY <2>1 DEF Of, Bytes
  <1>9. \A len \in 1..N : /\ index + len < N => InsideBy(len) /\ index <= N - len
                          /\ InsideBy(len) \in BOOLEAN /\ (index <= N - len) \in BOOLEAN
    BY <1>0 DEF InsideBy
  <1>10. ASSUME NEW len \in 1..N, GetMem(len) PROVE BufferInv'
    <2>1. Due("mem", len) /\ Get("mem", len, index <= N - len, Ahead(len), <<>>)
      BY <1>10 DEF GetMem
    <2>2. Ahead(len) = Expected("mem", slot.item)
      BY <1>8, <2>1 DEF Expected
    <2> QED BY <1>9, <2>1, <2>2, GetKeeps, Zenon
  <1>11. ASSUME NEW len \in 1..N, GetWaste(len) PROVE BufferInv'
    <2>1. Due("mem", len) /\ Get("waste", len, InsideBy(len), <<0>>, <<-1>>)
      BY <1>11 DEF GetWaste
    <2>2. <<0>> = Expected("waste", slot.item)
      BY DEF Expected
    <2> QED BY <1>9, <2>1, <2>2, GetKeeps, Zenon
  <1>12. ASSUME NEW len \in 1..N, GetIntBytes(len) PROVE BufferInv'
    <2>1. Due("mem", len) /\ Get("int", len, InsideBy(len), <<Number(Ahead(len))>>, <<0>>)
      BY <1>12 DEF GetIntBytes
    <2>2. <<Number(Ahead(len))>> = Expected("int", slot.item)
      BY <1>8, <2>1 DEF Expected
    <2> QED BY <1>9, <2>1, <2>2, GetKeeps, Zenon
  <1>13. ASSUME NEW len \in 1..N, GetBcdStr(len) PROVE BufferInv'
    <2>1. Due("bcd", len) /\ Get("bcd", len, index <= N - len, Hexify(Ahead(len)), <<>>)
      BY <1>13 DEF GetBcdStr
    <2>2. slot \in Slot /\ slot.item.kind = "bcd" /\ Ahead(len) = Of(slot)
      BY <2>1, DueIsAhead
    <2>3. Ahead(len) = BcdBytes(slot.item.data) /\ slot.item.data \in Seq(0..15)
      BY <2>2, SlotData DEF Of, Bytes
    <2>4. Hexify(Ahead(len)) =
            IF Len(slot.item.data) % 2 = 0 THEN slot.item.data ELSE <<0>> \o slot.item.data
      BY <2>3, DigitsComeBack
    <2>5. Hexify(Ahead(len)) = Expected("bcd", slot.item)
      BY ONLY <2>4, DigitsExpected
    <2> QED BY <1>9, <2>1, <2>5, GetKeeps, Zenon
  <1>14. CASE UNCHANGED bufferVars
    <2>1. /\ buffer' = buffer /\ index' = index /\ phase' = phase /\ asked' = asked
          /\ lost' = lost /\ taken' = taken /\ next' = next /\ got' = got
      BY <1>14 DEF bufferVars
    <2>2. Stored'
      BY <2>1 DEF BufferInv, Stored, BufferTypeOK
    <2>3. Packing'
      BY <2>1 DEF BufferInv, Packing, NothingLost
    <2>4. Getting'
      BY <2>1 DEF BufferInv, Getting, Readable, RoundTrip, End
    <2> QED BY <2>2, <2>3, <2>4 DEF BufferInv
  <1> QED BY <1>1, <1>2, <1>3, <1>4, <1>5, <1>6, <1>7, <1>10, <1>11, <1>12, <1>13, <1>14
          DEF BufferNext

LEMMA BufferInvInit == BufferInit => BufferInv
  <1> SUFFICES ASSUME BufferInit PROVE BufferInv
    OBVIOUS
  <1>1. /\ taken = <<>> /\ index = 0 /\ next = 0 /\ phase = "pack" /\ asked = 0 /\ lost = FALSE
        /\ buffer = [k \in 0..N-1 |-> 0]
    BY DEF BufferInit
  <1>2. taken \in Seq(Slot) /\ Len(taken) = 0
    BY <1>1, EmptySeq
  <1>3. N \in Nat
    BY LengthAssumption
  <1>4. BufferTypeOK
    BY <1>1, <1>2, <1>3 DEF BufferTypeOK
  <1>5. Laid(buffer, taken)
    BY <1>2 DEF Laid
  <1>6. EndIn(taken, Len(taken)) = 0
    BY <1>2 DEF EndIn
  <1>7. Stored
    BY <1>2, <1>3, <1>4, <1>5, <1>6 DEF Stored
  <1>8. Packing
    BY <1>1, <1>6 DEF Packing, NothingLost
  <1>9. Getting
    BY <1>1 DEF Getting, RoundTrip
  <1> QED BY <1>7, <1>8, <1>9 DEF BufferInv

(* Whatever is packed, dropped, got and refused, the cursor stays inside the *)
(* buffer and only bytes are stored. (iso_buffer.c 266-391)                  *)
THEOREM CursorStaysInside == BufferSpec => []BufferTypeOK
  <1>1. BufferInv => BufferTypeOK
    BY DEF BufferInv, Stored
  <1> QED BY <1>1, BufferInvInit, BufferInvStep, PTL DEF BufferSpec

(* In a buffer of any length and for any items, what leaves the last byte    *)
(* free is never dropped, and what was stored comes back item by item, from  *)
(* the functions for bytes, words, memory and digits alike.                  *)
(* (iso_buffer.c 266-391)                                                    *)
THEOREM PackedIsGot == BufferSpec => []PackedComesBack
  <1>1. BufferInv => PackedComesBack
    BY DEF BufferInv, Packing, Getting, PackedComesBack
  <1> QED BY <1>1, BufferInvInit, BufferInvStep, PTL DEF BufferSpec
=============================================================================
