------------------------- MODULE ConversionsProofs --------------------------
(*****************************************************************************)
(* Proofs about Helpers: what is converted comes back, and no conversion leaves *)
(* its buffer, for every text, every number of the width that is used and every *)
(* size of a buffer.                                                         *)
(*****************************************************************************)
EXTENDS Helpers, ArithmeticProofs

-----------------------------------------------------------------------------
(* Reading digits *)

\* f reads the digits one by one, in a base.
Reads(f, base, digits) ==
    /\ f[0] = 0
    /\ \A k \in 1..Len(digits) : f[k] = f[k - 1] * base + digits[k]
    /\ \A k \in 0..Len(digits) : f[k] \in Nat

\* Reading is what its recursion says.
LEMMA ReadingIs ==
    ASSUME NEW base \in Nat, NEW digits \in Seq(Nat)
    PROVE  Reads(Reading(base, digits), base, digits)
<1> DEFINE N == Len(digits)
           step == [p \in (1..N) \X Nat |-> p[2] * base + digits[p[1]]]
           Is(f) == f = [k \in 0..N |-> IF k = 0 THEN 0 ELSE f[k - 1] * base + digits[k]]
           c == Reading(base, digits)
<1>1. N \in Nat /\ \A k \in 1..N : digits[k] \in Nat /\ k \in 0..N /\ k - 1 \in 0..N /\ k # 0
  OBVIOUS
<1>2. ASSUME NEW k \in 1..N, NEW v \in Nat
      PROVE  step[<<k, v>>] = v * base + digits[k] /\ step[<<k, v>>] \in Nat
  BY <1>1
<1>3. Steps(N, Nat, 0, step)
  BY <1>1, <1>2 DEF Steps
<1> HIDE DEF step
<1>4. PICK f : Recurs(f, N, Nat, 0, step)
  BY <1>3, Recursion, Zenon
<1>5. ASSUME NEW k \in 0..N PROVE f[k] = IF k = 0 THEN 0 ELSE f[k - 1] * base + digits[k]
  <2>1. CASE k = 0
    BY <1>4, <2>1 DEF Recurs
  <2>2. CASE k \in 1..N
    <3>1. f[k - 1] \in Nat /\ f[k] = step[<<k, f[k - 1]>>] /\ k # 0
      BY <1>1, <1>4, <2>2 DEF Recurs
    <3> QED
      BY <1>2, <2>2, <3>1
  <2> QED
    BY <1>1, <2>1, <2>2
<1>6. Is(f)
  BY <1>4, <1>5 DEF Recurs
<1>7. Is(c)
  BY <1>6, Zenon DEF Reading
<1> HIDE DEF c
<1>8. c[0] = 0 /\ \A k \in 1..N : c[k] = c[k - 1] * base + digits[k]
  <2>1. 0 \in 0..N
    BY <1>1
  <2> QED
    BY <1>1, <1>7, <2>1
<1>9. ASSUME NEW k \in 1..N, c[k - 1] \in Nat PROVE c[k] \in Nat
  <2>1. c[k - 1] * base \in Nat /\ digits[k] \in Nat
    BY <1>1, <1>9
  <2> QED
    BY <1>8, <2>1
<1>10. \A k \in 0..N : c[k] \in Nat
  <2>1. c[0] \in Nat /\ N \in Nat
    BY <1>1, <1>8
  <2> HIDE DEF N
  <2> QED
    BY <1>9, <2>1, StaysAmong
<1> QED
  BY <1>8, <1>10 DEF Reads, c

\* f reads the decimal digits of a text and skips what else it holds.
Skips(f, word) ==
    /\ f[0] = 0
    /\ \A k \in 1..Len(word) :
          f[k] = IF word[k] \in 0..9 THEN f[k - 1] * 10 + word[k] ELSE f[k - 1]

\* Reading a separated number is such a reading.
LEMMA ReadingDigitsIs ==
    ASSUME NEW word \in Seq(Nat)
    PROVE  Skips(ReadingDigits(word), word)
<1> DEFINE N == Len(word)
           step == [p \in (1..N) \X Nat |-> IF word[p[1]] \in 0..9 THEN p[2] * 10 + word[p[1]] ELSE p[2]]
           Is(f) == f = [k \in 0..N |-> IF k = 0 THEN 0
                                        ELSE IF word[k] \in 0..9 THEN f[k - 1] * 10 + word[k] ELSE f[k - 1]]
           c == ReadingDigits(word)
<1>1. N \in Nat /\ \A k \in 1..N : word[k] \in Nat /\ k \in 0..N /\ k - 1 \in 0..N /\ k # 0
  OBVIOUS
<1>2. ASSUME NEW k \in 1..N, NEW v \in Nat
      PROVE  /\ step[<<k, v>>] = IF word[k] \in 0..9 THEN v * 10 + word[k] ELSE v
             /\ step[<<k, v>>] \in Nat
  <2>1. v * 10 + word[k] \in Nat
    BY <1>1
  <2>2. step[<<k, v>>] = IF word[k] \in 0..9 THEN v * 10 + word[k] ELSE v
    OBVIOUS
  <2> QED
    BY <2>1, <2>2
<1>3. Steps(N, Nat, 0, step)
  BY <1>1, <1>2 DEF Steps
<1> HIDE DEF step
<1>4. PICK f : Recurs(f, N, Nat, 0, step)
  BY <1>3, Recursion, Zenon
<1>5. ASSUME NEW k \in 0..N
      PROVE  f[k] = IF k = 0 THEN 0 ELSE IF word[k] \in 0..9 THEN f[k - 1] * 10 + word[k] ELSE f[k - 1]
  <2>1. CASE k = 0
    BY <1>4, <2>1 DEF Recurs
  <2>2. CASE k \in 1..N
    <3>1. f[k - 1] \in Nat /\ f[k] = step[<<k, f[k - 1]>>] /\ k # 0
      BY <1>1, <1>4, <2>2 DEF Recurs
    <3> QED
      BY <1>2, <2>2, <3>1
  <2> QED
    BY <1>1, <2>1, <2>2
<1>6. Is(f)
  BY <1>4, <1>5 DEF Recurs
<1>7. Is(c)
  BY <1>6, Zenon DEF ReadingDigits
<1> HIDE DEF c
<1>8. c[0] = 0 /\ \A k \in 1..N : c[k] = IF word[k] \in 0..9 THEN c[k - 1] * 10 + word[k] ELSE c[k - 1]
  <2>1. 0 \in 0..N
    BY <1>1
  <2> QED
    BY <1>1, <1>7, <2>1
<1> QED
  BY <1>8 DEF Skips, c

-----------------------------------------------------------------------------
(* Hexadecimal *)

\* What a byte is.
LEMMA ByteIs == \A b \in 0..255 : b \in Nat /\ b <= 255
OBVIOUS

\* A byte is two hexadecimal digits.
LEMMA HexDigits ==
    ASSUME NEW b \in Nat, b <= 255
    PROVE  b \div 16 \in 0..15 /\ b % 16 \in 0..15 /\ (b \div 16) * 16 + (b % 16) = b
<1>1. b \div 16 \in Nat /\ b % 16 \in Nat /\ b \div 16 <= 15 /\ b % 16 <= 15
  OBVIOUS
<1>2. (b \div 16) * 16 + (b % 16) = b
  OBVIOUS
<1> QED
  BY <1>1, <1>2

\* The numbers of digits of a text of n bytes.
LEMMA Halves ==
    ASSUME NEW n \in Nat
    PROVE  /\ (2 * n + 1) \div 2 = n /\ (2 * n) \div 2 = n /\ (2 * n) % 2 = 0
           /\ (2 * n - 1) % 2 = 1 /\ (2 * n - 1 + 1) \div 2 = n
OBVIOUS

\* Bytes written in hexadecimal are read back.
LEMMA HexBack ==
    ASSUME NEW bytes \in Seq(0..255)
    PROVE  unhexify(hexify(bytes)) = bytes
<1> DEFINE n == Len(bytes)
           h == hexify(bytes)
           nibble(k) == IF k \in DOMAIN h /\ h[k] \in 0..15 THEN h[k] ELSE 0
<1>1. n \in Nat /\ bytes = [k \in 1..n |-> bytes[k]] /\ DOMAIN h = 1..(2 * n)
  BY DEF hexify
<1>0. (2 * n + 1) \div 2 = n
  BY <1>1, Halves
<1>2. Len(h) = 2 * n
  <2>1. h = [k \in 1..(2 * n) |-> IF k % 2 = 1 THEN bytes[(k + 1) \div 2] \div 16 ELSE bytes[k \div 2] % 16]
    BY DEF hexify
  <2>2. 2 * n \in Nat
    BY <1>1
  <2> HIDE DEF n, h
  <2> QED
    BY <2>1, <2>2
<1>3. ASSUME NEW k \in 1..n PROVE nibble(2 * k - 1) * 16 + nibble(2 * k) = bytes[k]
  <2>1. 2 * k - 1 \in 1..(2 * n) /\ 2 * k \in 1..(2 * n)
    BY <1>1
  <2>2. (2 * k - 1) % 2 = 1 /\ (2 * k) % 2 # 1 /\ (2 * k - 1 + 1) \div 2 = k /\ (2 * k) \div 2 = k
    BY Halves
  <2>3. h[2 * k - 1] = bytes[k] \div 16 /\ h[2 * k] = bytes[k] % 16
    BY <2>1, <2>2 DEF hexify
  <2>4. bytes[k] \div 16 \in 0..15 /\ bytes[k] % 16 \in 0..15
        /\ (bytes[k] \div 16) * 16 + (bytes[k] % 16) = bytes[k]
    <3>1. bytes[k] \in 0..255
      BY ElementOfSeq
    <3>2. bytes[k] \in Nat /\ bytes[k] <= 255
      BY <3>1, ByteIs, Zenon
    <3> QED
      BY <3>2, HexDigits
  <2> HIDE DEF h
  <2>5. nibble(2 * k - 1) = bytes[k] \div 16 /\ nibble(2 * k) = bytes[k] % 16
    BY <1>1, <2>1, <2>3, <2>4
  <2> QED
    BY <2>4, <2>5, Zenon
<1>4. unhexify(h) = [k \in 1..((Len(h) + 1) \div 2) |-> nibble(2 * k - 1) * 16 + nibble(2 * k)]
  BY DEF unhexify
<1> HIDE DEF h, nibble, n
<1>5. unhexify(h) = [k \in 1..n |-> bytes[k]]
  BY <1>0, <1>2, <1>3, <1>4
<1> QED
  BY <1>1, <1>5 DEF h

-----------------------------------------------------------------------------
(* Padding *)

\* So many zeroes a text begins with
Zeroes(in, n) ==
    /\ n \in 0..Len(in)
    /\ \A k \in 1..n : in[k] = 0
    /\ n < Len(in) => in[n + 1] # 0

\* A text begins with some zeroes.
LEMMA SomeZeroes ==
    ASSUME NEW in \in Seq(Nat)
    PROVE  \E n : Zeroes(in, n)
<1> DEFINE T == {n \in Nat : n <= Len(in) /\ (n < Len(in) => in[n + 1] # 0)}
<1>1. Len(in) \in T
  OBVIOUS
<1>2. PICK n \in T : \A k \in T : n <= k
  <2> HIDE DEF T
  <2>1. T \in SUBSET Nat
    BY DEF T
  <2> QED
    BY <1>1, <2>1, LeastNumber
<1>3. ASSUME NEW k \in 1..n PROVE in[k] = 0
  <2>1. k - 1 \in Nat /\ k - 1 < n /\ k - 1 < Len(in) /\ k - 1 + 1 = k
    BY <1>2
  <2>2. k - 1 \notin T
    BY <1>2, <2>1
  <2> QED
    BY <2>1, <2>2
<1> QED
  BY <1>2, <1>3 DEF Zeroes

\* remove_zero_padding takes them away.
LEMMA RemoveIs ==
    ASSUME NEW in \in Seq(Nat), NEW n, Zeroes(in, n)
    PROVE  IsPart(remove_zero_padding(in), in, n, Len(in) - n, Nat)
<1> DEFINE zeroes == {i \in 0..Len(in) : \A k \in 1..i : in[k] = 0}
           z == CHOOSE i \in zeroes : \A k \in zeroes : k <= i
<1>1. n \in zeroes /\ \A k \in zeroes : k <= n
  <2>1. n \in zeroes
    BY DEF Zeroes
  <2>2. ASSUME NEW k \in zeroes, k > n PROVE FALSE
    <3>1. n + 1 \in 1..k /\ n < Len(in)
      BY <2>2 DEF Zeroes
    <3> QED
      BY <3>1 DEF Zeroes
  <2> QED
    BY <2>1, <2>2 DEF Zeroes
<1>2. z \in zeroes /\ (\A k \in zeroes : k <= z)
  BY <1>1
<1>3. z = n
  <2> HIDE DEF z
  <2>1. z \in Nat /\ n \in Nat /\ z <= n /\ n <= z
    BY <1>1, <1>2
  <2> QED
    BY <2>1
<1>4. remove_zero_padding(in) = SubSeq(in, 1 + z, Len(in))
  BY Zenon DEF remove_zero_padding
<1> HIDE DEF z
<1>5. n \in Nat /\ Len(in) \in Nat /\ n <= Len(in)
  BY DEF Zeroes
<1> DEFINE m == Len(in) - n
<1>6. m \in Nat /\ n + m = Len(in) /\ n + m <= Len(in) /\ 1 + n = n + 1
  BY <1>5
<1> HIDE DEF m
<1>7. IsPart(SubSeq(in, 1 + n, n + m), in, n, m, Nat)
  BY <1>5, <1>6, PartOf
<1> QED
  BY <1>3, <1>4, <1>6, <1>7 DEF m

\* It does not matter how many zeroes were put in front.
LEMMA PaddedBack ==
    ASSUME NEW in \in Seq(Nat), NEW d \in Nat
    PROVE  remove_zero_padding([k \in 1..d |-> 0] \o in) = remove_zero_padding(in)
<1> DEFINE zs == [k \in 1..d |-> 0]
           q == zs \o in
           r == remove_zero_padding(q)
           s == remove_zero_padding(in)
<1>1. zs \in Seq(Nat) /\ Len(zs) = d /\ \A k \in 1..d : zs[k] = 0
  <2>1. zs \in [1..d -> Nat]
    OBVIOUS
  <2> QED
    BY <2>1, AsSequence
<1> HIDE DEF zs
<1>2. IsJoin(q, zs, in, Nat)
  BY <1>1, TwoParts
<1> HIDE DEF q
<1>3. q \in Seq(Nat) /\ Len(q) = d + Len(in) /\ Len(in) \in Nat
      /\ (\A k \in 1..d : q[k] = 0) /\ \A k \in 1..Len(in) : q[k + d] = in[k]
  BY <1>1, <1>2 DEF IsJoin
<1>4. PICK n : Zeroes(in, n)
  BY SomeZeroes
<1>5. n \in 0..Len(in) /\ (\A k \in 1..n : in[k] = 0) /\ (n < Len(in) => in[n + 1] # 0)
  BY <1>4 DEF Zeroes
<1>6. Zeroes(q, n + d)
  <2>1. n + d \in 0..Len(q)
    BY <1>3, <1>5
  <2>2. ASSUME NEW k \in 1..(n + d) PROVE q[k] = 0
    <3>1. CASE k <= d
      BY <1>3, <3>1
    <3>2. CASE k > d
      <4>1. k - d \in 1..n /\ k - d \in 1..Len(in) /\ k - d + d = k
        BY <1>3, <1>5, <3>2
      <4> QED
        BY <1>3, <1>5, <4>1
    <3> QED
      BY <1>5, <3>1, <3>2
  <2>3. n + d < Len(q) => q[n + d + 1] # 0
    <3> SUFFICES ASSUME n + d < Len(q) PROVE q[n + d + 1] # 0
      OBVIOUS
    <3>1. n < Len(in) /\ n + 1 \in 1..Len(in) /\ n + 1 + d = n + d + 1
      BY <1>3, <1>5
    <3> QED
      BY <1>3, <1>5, <3>1
  <2> QED
    BY <2>1, <2>2, <2>3 DEF Zeroes
<1> HIDE DEF r, s
<1>7. IsPart(r, q, n + d, Len(q) - (n + d), Nat) /\ IsPart(s, in, n, Len(in) - n, Nat)
  BY <1>3, <1>4, <1>6, RemoveIs DEF r, s
<1>8. Len(q) - (n + d) = Len(in) - n
  BY <1>3, <1>5
<1>9. r \in Seq(Nat) /\ s \in Seq(Nat) /\ Len(r) = Len(s) /\ Len(s) = Len(in) - n
  BY <1>7, <1>8 DEF IsPart
<1>10. ASSUME NEW i \in 1..Len(s) PROVE r[i] = s[i]
  <2>1. i + n \in 1..Len(in) /\ i + n + d = i + (n + d)
    BY <1>3, <1>5, <1>9
  <2>2. r[i] = q[i + (n + d)] /\ s[i] = in[i + n]
    BY <1>7, <1>8, <1>9 DEF IsPart
  <2> QED
    BY <1>3, <2>1, <2>2
<1>11. r = s
  BY <1>9, <1>10, SeqEqual
<1> QED
  BY <1>11 DEF r, s, q, zs

\* What is padded is trimmed to the text without its own zeroes.
LEMMA PadBack ==
    ASSUME NEW in \in Seq(Nat), NEW len \in Nat
    PROVE  remove_zero_padding(left_pad(in, len, 0))
             = remove_zero_padding(SubSeq(in, 1, IF len < Len(in) THEN len ELSE Len(in)))
<1>1. CASE len > Len(in)
  <2>1. left_pad(in, len, 0) = [k \in 1..(len - Len(in)) |-> 0] \o in
    BY <1>1 DEF left_pad
  <2>2. len - Len(in) \in Nat /\ ~(len < Len(in))
    BY <1>1
  <2>3. SubSeq(in, 1, Len(in)) = in
    OBVIOUS
  <2> QED
    BY <2>1, <2>2, <2>3, PaddedBack
<1>2. CASE ~(len > Len(in))
  <2>1. (IF len < Len(in) THEN len ELSE Len(in)) = len
    BY <1>2
  <2> QED
    BY <1>2, <2>1 DEF left_pad
<1> QED
  BY <1>1, <1>2

-----------------------------------------------------------------------------
(* Commas *)

\* So many chars, g times three of them behind the first group
Grouped(in, F, g) ==
    /\ g \in Nat /\ F \in {1, 2, 3} /\ F = FirstGroup(in)
    /\ Len(in) = F + 3 * g /\ (Len(in) - F) \div 3 = g

\* A number is a first group of at most three digits and groups of three.
LEMMA Groups ==
    ASSUME NEW in \in Seq(0..9), in # <<>>
    PROVE  \E F, g : Grouped(in, F, g)
<1>1. Len(in) \in Nat \ {0}
  BY EmptySeq
<1>2. PICK q \in Nat, r \in {0, 1, 2} : Len(in) = 3 * q + r /\ r = Len(in) % 3
  <2>1. Len(in) \div 3 \in Nat /\ Len(in) % 3 \in {0, 1, 2} /\ Len(in) = 3 * (Len(in) \div 3) + (Len(in) % 3)
    BY <1>1
  <2> QED
    BY <2>1
<1>3. CASE r = 0
  <2>1. FirstGroup(in) = 3 /\ q - 1 \in Nat /\ Len(in) = 3 + 3 * (q - 1) /\ (Len(in) - 3) \div 3 = q - 1
    BY <1>1, <1>2, <1>3 DEF FirstGroup
  <2> QED
    BY <2>1 DEF Grouped
<1>4. CASE r # 0
  <2>1. FirstGroup(in) = r /\ Len(in) - r = 3 * q /\ (3 * q) \div 3 = q
    BY <1>2, <1>4 DEF FirstGroup
  <2>2. r \in {1, 2, 3} /\ Len(in) = r + 3 * q /\ (Len(in) - r) \div 3 = q
    BY <1>2, <1>4, <2>1
  <2>3. Grouped(in, r, q)
    BY <2>1, <2>2 DEF Grouped
  <2> QED
    BY <2>3
<1> QED
  BY <1>3, <1>4

\* So many of its chars are among the first k of the text.
Chars(F, k) == k - Commas(F, k)

\* None more at a comma, and one more at another char
LEMMA CommaByComma ==
    ASSUME NEW F \in {1, 2, 3}, NEW g \in Nat, NEW k \in 0..(F + 3 * g + g - 1)
    PROVE  /\ IsComma(F, k + 1) => Chars(F, k + 1) = Chars(F, k)
           /\ ~IsComma(F, k + 1) => Chars(F, k + 1) = Chars(F, k) + 1 /\ Chars(F, k + 1) \in 1..(F + 3 * g)
BY DEF IsComma, Chars, Commas

\* Where the digits and the commas end.
LEMMA CommasEnd ==
    ASSUME NEW F \in {1, 2, 3}, NEW g \in Nat
    PROVE  Chars(F, 0) = 0 /\ Chars(F, F + 3 * g + g) = F + 3 * g
BY DEF Chars, Commas

\* A separated number is read back.
LEMMA SeparatorBack ==
    ASSUME NEW in \in Seq(0..9), in # <<>>
    PROVE  read_int(three_digit_separator(in)) = ReadAs(10, in)
<1> DEFINE L == Len(in)
           t == three_digit_separator(in)
           R == ReadingDigits(t)
           V == Reading(10, in)
<1>1. PICK F, g : Grouped(in, F, g)
  BY Groups
<1>2. L \in Nat /\ g \in Nat /\ F \in {1, 2, 3} /\ L = F + 3 * g /\ L + g \in Nat /\ \A i \in 1..L : in[i] \in 0..9
  <2>1. g \in Nat /\ F \in {1, 2, 3} /\ L = F + 3 * g
    BY <1>1 DEF Grouped
  <2>2. \A i \in 1..L : in[i] \in 0..9
    BY ElementOfSeq
  <2> HIDE DEF L
  <2> QED
    BY <2>1, <2>2
<1>3. ASSUME NEW k \in 0..(L + g - 1)
      PROVE  /\ IsComma(F, k + 1) => Chars(F, k + 1) = Chars(F, k)
             /\ ~IsComma(F, k + 1) => Chars(F, k + 1) = Chars(F, k) + 1 /\ Chars(F, k + 1) \in 1..L
  BY <1>2, CommaByComma
<1>4. Chars(F, 0) = 0 /\ Chars(F, L + g) = L
  BY <1>2, CommasEnd
<1>5. t = [k \in 1..(L + g) |-> IF IsComma(F, k) THEN Comma ELSE in[Chars(F, k)]]
  BY <1>1 DEF three_digit_separator, Grouped, Chars
<1> HIDE DEF t
<1>6. ASSUME NEW k \in 0..(L + g - 1)
      PROVE  t[k + 1] = IF IsComma(F, k + 1) THEN Comma ELSE in[Chars(F, k + 1)]
  <2>1. k + 1 \in 1..(L + g)
    BY <1>2
  <2> QED
    BY <1>5, <2>1
<1>7. t \in Seq(Nat) /\ Len(t) = L + g
  <2>1. ASSUME NEW k \in 0..(L + g - 1) PROVE t[k + 1] \in Nat
    <3>1. CASE IsComma(F, k + 1)
      BY <1>6, <3>1 DEF Comma
    <3>2. CASE ~IsComma(F, k + 1)
      <4>1. PICK i \in 1..L : i = Chars(F, k + 1)
        BY <1>3, <3>2
      <4>2. in[i] \in 0..9
        BY <1>2
      <4> QED
        BY <1>6, <3>2, <4>1, <4>2
    <3> QED
      BY <3>1, <3>2
  <2>2. ASSUME NEW k \in 1..(L + g) PROVE t[k] \in Nat
    <3>1. k - 1 \in 0..(L + g - 1) /\ k - 1 + 1 = k
      BY <1>2
    <3> QED
      BY <2>1, <3>1
  <2>3. t \in [1..(L + g) -> Nat]
    BY <1>5, <2>2
  <2> HIDE DEF L
  <2> QED
    BY <1>2, <2>3, AsSequence
<1>8. Skips(R, t) /\ Reads(V, 10, in)
  <2>1. in \in Seq(Nat)
    OBVIOUS
  <2> QED
    BY <1>7, <2>1, ReadingDigitsIs, ReadingIs
<1> HIDE DEF R, V, L
<1>9. R[0] = 0 /\ V[0] = 0 /\ \A i \in 1..L : V[i] = V[i - 1] * 10 + in[i]
  BY <1>8 DEF Skips, Reads, L
<1>10. ASSUME NEW k \in 0..(L + g - 1)
       PROVE  R[k + 1] = IF t[k + 1] \in 0..9 THEN R[k] * 10 + t[k + 1] ELSE R[k]
  <2>1. k + 1 \in 1..(L + g) /\ k + 1 - 1 = k
    BY <1>2
  <2> QED
    BY <1>7, <1>8, <2>1 DEF Skips
<1>11. ASSUME NEW k \in 0..(L + g - 1), R[k] = V[Chars(F, k)]
       PROVE  R[k + 1] = V[Chars(F, k + 1)]
  <2>1. CASE IsComma(F, k + 1)
    <3>1. t[k + 1] \notin 0..9
      BY <1>6, <2>1 DEF Comma
    <3> QED
      BY <1>3, <1>10, <1>11, <2>1, <3>1
  <2>2. CASE ~IsComma(F, k + 1)
    <3>1. PICK i : i = Chars(F, k + 1)
      OBVIOUS
    <3>2. i \in 1..L /\ t[k + 1] = in[i] /\ i = Chars(F, k) + 1
      BY <1>3, <1>6, <2>2, <3>1
    <3>3. in[i] \in 0..9 /\ V[i] = V[i - 1] * 10 + in[i]
      BY <1>2, <1>9, <3>2
    <3>4. i - 1 = Chars(F, k)
      <4>1. Chars(F, k) \in Int
        BY <1>2 DEF Chars, Commas
      <4> QED
        BY <3>2, <4>1
    <3>5. R[k + 1] = R[k] * 10 + in[i]
      BY <1>10, <3>2, <3>3
    <3> QED
      BY <1>11, <3>1, <3>3, <3>4, <3>5
  <2> QED
    BY <2>1, <2>2
<1> DEFINE S == {k \in Nat : R[k] = V[Chars(F, k)]}
           N == L + g
<1>12. 0..N \subseteq S
  <2>1. 0 \in S
    BY <1>4, <1>9
  <2>2. N \in Nat
    BY <1>2
  <2>3. ASSUME NEW k \in 0..(N - 1), k \in S PROVE k + 1 \in S
    <3>0. k \in 0..(L + g - 1)
      BY <1>2
    <3>1. R[k] = V[Chars(F, k)]
      BY <2>3
    <3>2. R[k + 1] = V[Chars(F, k + 1)]
      BY <1>11, <3>0, <3>1
    <3>3. k + 1 \in Nat
      BY <2>2
    <3> QED
      BY <3>2, <3>3
  <2> HIDE DEF S, N
  <2> QED
    BY <2>1, <2>2, <2>3, AllUpTo
<1>13. R[L + g] = V[L]
  <2>1. L + g \in S
    BY <1>2, <1>12
  <2> QED
    BY <1>4, <2>1
<1> QED
  BY <1>7, <1>13 DEF read_int, ReadAs, R, V, L, t

-----------------------------------------------------------------------------
(* Binary coded decimals *)

\* How many digits a number has is one number.
LEMMA DigitCountIs ==
    ASSUME NEW b \in Nat, b >= 2, NEW n \in Nat, NEW c \in 1..10, HasDigits(b, n, c)
    PROVE  DigitCount(b, n) = c
<1>1. ASSUME NEW d \in 1..10, NEW e \in 1..10, d < e, HasDigits(b, n, d), HasDigits(b, n, e) PROVE FALSE
  <2>1. d \in 0..IntBits /\ e - 1 \in 0..IntBits /\ d <= e - 1
    BY <1>1 DEF IntBits
  <2>2. Power(b, d) <= Power(b, e - 1) /\ Power(b, d) \in Nat /\ Power(b, e - 1) \in Nat
    BY <2>1, PowersGrow
  <2>3. Power(b, d) > n /\ Power(b, e - 1) <= n
    BY <1>1 DEF HasDigits
  <2> QED
    BY <2>2, <2>3
<1> DEFINE d == DigitCount(b, n)
<1>2. d \in 1..10 /\ HasDigits(b, n, d)
  BY DEF DigitCount
<1> HIDE DEF d
<1>3. d = c
  BY <1>1, <1>2
<1> QED
  BY <1>3 DEF d

\* A number below the limit has a number of digits.
LEMMA SomeDigits ==
    ASSUME NEW n \in Nat, n < Power(10, 7)
    PROVE  \E c \in 1..10 : HasDigits(10, n, c)
<1> DEFINE T == {c \in Nat : c <= 7 /\ n < Power(10, c)}
<1>1. 7 \in T
  OBVIOUS
<1>2. PICK c \in T : \A k \in T : c <= k
  <2> HIDE DEF T
  <2>1. T \in SUBSET Nat
    BY DEF T
  <2> QED
    BY <1>1, <2>1, LeastNumber
<1>3. c \in Nat /\ c <= 7 /\ n < Power(10, c)
  BY <1>2
<1>4. CASE c <= 1
  <2>1. Power(10, 0) = 1 /\ Power(10, 1) = 10 * Power(10, 0)
    BY PowerIs DEF IntBits
  <2>2. c = 0 \/ c = 1
    BY <1>3, <1>4
  <2>3. Power(10, 1) > n
    BY <1>3, <2>1, <2>2
  <2> QED
    BY <2>3 DEF HasDigits
<1>5. CASE c > 1
  <2>1. c - 1 \in Nat /\ c - 1 <= 7 /\ c - 1 < c /\ c - 1 \in 0..IntBits /\ c \in 1..10
    BY <1>3, <1>5 DEF IntBits
  <2>2. ~(n < Power(10, c - 1))
    BY <1>2, <2>1
  <2>3. Power(10, c - 1) \in Nat
    BY <2>1, PowerIs
  <2>4. Power(10, c - 1) <= n
    BY <2>2, <2>3
  <2> QED
    BY <1>3, <2>1, <2>4 DEF HasDigits
<1> QED
  BY <1>3, <1>4, <1>5

\* ds are the digits of n, c of them.
AreDigits(ds, b, n, c) ==
    /\ c \in 1..10 /\ HasDigits(b, n, c) /\ ds \in Seq(Nat) /\ Len(ds) = c
    /\ \A k \in 1..c : ds[k] = (n \div Power(b, c - k)) % b /\ ds[k] < b

\* The digits of a number of c digits.
LEMMA DigitsOfIs ==
    ASSUME NEW b \in Nat, b >= 2, NEW n \in Nat, NEW c \in 1..10, HasDigits(b, n, c)
    PROVE  AreDigits(DigitsOf(b, n), b, n, c)
<1> DEFINE ds == DigitsOf(b, n)
<1>1. ds = [k \in 1..c |-> (n \div Power(b, c - k)) % b]
  BY DigitCountIs DEF DigitsOf
<1> HIDE DEF ds
<1>2. ASSUME NEW k \in 1..c PROVE (n \div Power(b, c - k)) % b \in Nat /\ (n \div Power(b, c - k)) % b < b
  <2>1. c - k \in 0..IntBits
    BY DEF IntBits
  <2>2. Power(b, c - k) \in Nat \ {0}
    BY <2>1, PowersGrow
  <2>3. n \div Power(b, c - k) \in Nat
    BY <2>2, Divided
  <2> QED
    BY <2>3, Divided
<1>3. ds \in [1..c -> Nat] /\ c \in Nat
  BY <1>1, <1>2
<1>4. ds \in Seq(Nat) /\ Len(ds) = c
  BY <1>3, AsSequence
<1>5. \A k \in 1..c : ds[k] = (n \div Power(b, c - k)) % b /\ ds[k] < b
  BY <1>1, <1>2
<1> QED
  BY <1>4, <1>5 DEF AreDigits, ds

\* Read as what they are the digits of a number are that number.
LEMMA DigitsRead ==
    ASSUME NEW b \in Nat, b >= 2, NEW n \in Nat, NEW c, NEW ds, AreDigits(ds, b, n, c)
    PROVE  ReadAs(b, ds) = n
<1> DEFINE V == Reading(b, ds)
           S == {k \in Nat : k <= c => V[k] = n \div Power(b, c - k)}
<1>1. /\ c \in 1..10 /\ Power(b, c) > n /\ ds \in Seq(Nat) /\ Len(ds) = c
      /\ \A k \in 1..c : ds[k] = (n \div Power(b, c - k)) % b
  BY DEF AreDigits, HasDigits
<1>2. Reads(V, b, ds)
  BY <1>1, ReadingIs
<1> HIDE DEF V
<1>3. V[0] = 0 /\ \A k \in 1..c : V[k] = V[k - 1] * b + ds[k]
  BY <1>1, <1>2 DEF Reads
<1>4. \A k \in 0..c : Power(b, c - k) \in Nat \ {0}
  <2>1. \A k \in 0..c : c - k \in 0..IntBits
    BY <1>1 DEF IntBits
  <2> QED
    BY <2>1, PowersGrow
<1>5. \A k \in 1..c : Power(b, c - (k - 1)) = b * Power(b, c - k)
  <2>1. ASSUME NEW k \in 1..c PROVE Power(b, c - (k - 1)) = b * Power(b, c - k)
    <3>1. PICK i : i = c - (k - 1)
      OBVIOUS
    <3>2. i \in 1..IntBits /\ i - 1 = c - k
      BY <1>1, <3>1 DEF IntBits
    <3>3. Power(b, i) = b * Power(b, i - 1)
      BY <3>2, PowerIs
    <3> QED
      BY <3>1, <3>2, <3>3
  <2> QED
    BY <2>1
<1>6. 0..c \subseteq S
  <2>1. 0 \in S
    <3>1. Power(b, c) \in Nat \ {0} /\ c - 0 = c
      <4>1. c \in 0..IntBits /\ c - 0 = c
        BY <1>1 DEF IntBits
      <4> QED
        BY <4>1, PowersGrow
    <3> DEFINE P == Power(b, c)
    <3>2. n < P /\ P \in Nat \ {0}
      BY <1>1, <3>1
    <3> HIDE DEF P
    <3>3. (P * 0 + n) \div P = 0
      BY <3>2, DividedUnique
    <3>4. n \div P = 0
      BY <3>2, <3>3
    <3>5. V[0] = n \div Power(b, c - 0)
      BY <1>3, <3>1, <3>4 DEF P
    <3> QED
      BY <3>5
  <2>2. ASSUME NEW k \in 0..(c - 1), k \in S PROVE k + 1 \in S
    <3>0. k + 1 \in 1..c /\ k \in 0..c /\ k + 1 - 1 = k /\ k + 1 \in 0..c /\ k <= c /\ k + 1 \in Nat
      BY <1>1
    <3> DEFINE P == Power(b, c - (k + 1))
               x == n \div P
    <3>1. P \in Nat \ {0} /\ Power(b, c - k) = b * P
      BY <1>4, <1>5, <3>0
    <3>2. V[k] = n \div Power(b, c - k)
      BY <2>2, <3>0
    <3>3. V[k + 1] = V[k] * b + ds[k + 1] /\ ds[k + 1] = x % b
      BY <1>1, <1>3, <3>0
    <3> HIDE DEF P
    <3>4. n \div (P * b) = x \div b
      BY <3>1, DividedTwice
    <3>5. P * b = b * P /\ x \in Nat
      BY <3>1, Divided
    <3> HIDE DEF x
    <3>6. V[k] = x \div b
      BY <3>1, <3>2, <3>4, <3>5
    <3>7. x = b * (x \div b) + (x % b) /\ x \div b \in Nat /\ x % b \in Nat
      BY <3>5, Divided
    <3>8. b * (x \div b) = (x \div b) * b
      BY <3>7
    <3>9. V[k + 1] = x
      BY <3>3, <3>6, <3>7, <3>8
    <3>10. V[k + 1] = n \div Power(b, c - (k + 1))
      BY <3>9 DEF x, P
    <3> QED
      BY <3>0, <3>10
  <2> HIDE DEF S
  <2>3. c \in Nat
    BY <1>1
  <2> QED
    BY <2>1, <2>2, <2>3, AllUpTo
<1>7. V[c] = n
  <2>1. c \in S /\ c <= c /\ c - c = 0
    BY <1>1, <1>6
  <2>2. V[c] = n \div Power(b, c - c)
    BY <2>1
  <2>3. Power(b, c - c) = 1
    BY <2>1, PowerIs
  <2>4. n \div 1 = n
    OBVIOUS
  <2> QED
    BY <2>2, <2>3, <2>4
<1> QED
  BY <1>1, <1>7 DEF ReadAs, V

\* The first digit of a number of two digits or more is not 0.
LEMMA FirstDigit ==
    ASSUME NEW n \in Nat, NEW c, NEW ds, AreDigits(ds, 10, n, c)
    PROVE  c # 1 => ds[1] >= 1
<1> SUFFICES ASSUME c # 1 PROVE ds[1] >= 1
  OBVIOUS
<1>1. /\ c \in 2..10 /\ Power(10, c) > n /\ Power(10, c - 1) <= n
      /\ ds[1] = (n \div Power(10, c - 1)) % 10
  BY DEF AreDigits, HasDigits
<1>2. c - 1 \in 0..IntBits /\ c \in 1..IntBits
  BY <1>1 DEF IntBits
<1> DEFINE P == Power(10, c - 1)
           q == n \div P
           r == n % P
<1>3. P \in Nat \ {0} /\ Power(10, c) = 10 * P
  BY <1>2, PowersGrow, PowerIs
<1> HIDE DEF P
<1>4. q \in Nat /\ r \in Nat /\ r < P /\ n = P * q + r
  BY <1>3, Divided
<1>5. ds[1] = q % 10 /\ P <= n /\ 10 * P > n
  BY <1>1, <1>3 DEF P
<1> HIDE DEF q, r
<1>6. q # 0
  BY <1>3, <1>4, <1>5
<1>7. q < 10
  <2> SUFFICES ASSUME q >= 10 PROVE FALSE
    BY <1>4
  <2>1. P * q = P * 10 + P * (q - 10) /\ P * (q - 10) \in Nat
    BY <1>3, <1>4
  <2> QED
    BY <1>3, <1>4, <1>5, <2>1
<1> QED
  BY <1>4, <1>5, <1>6, <1>7

\* The last digit of a hexadecimal number, and what is in front of it
LEMMA LastHex ==
    \A x, d \in Nat : d < 10 => (x * 16 + d) % 16 = d /\ (x * 16 + d) \div 16 = x
OBVIOUS

\* Digits read to another base are the digits of what was read.
LEMMA DigitsKept ==
    ASSUME NEW n \in Nat, NEW c, NEW ds, AreDigits(ds, 10, n, c)
    PROVE  ReadAs(16, ds) \in Nat /\ DigitsOf(16, ReadAs(16, ds)) = ds
<1> DEFINE V == Reading(16, ds)
           m == V[c]
           p(k) == Power(16, k)
<1>1. c \in 1..10 /\ ds \in Seq(Nat) /\ Len(ds) = c /\ \A k \in 1..c : ds[k] \in Nat /\ ds[k] < 10
  BY DEF AreDigits
<1>2. Reads(V, 16, ds)
  BY <1>1, ReadingIs
<1> HIDE DEF V
<1>3. /\ V[0] = 0 /\ (\A k \in 1..c : V[k] = V[k - 1] * 16 + ds[k])
      /\ \A k \in 0..c : V[k] \in Nat
  BY <1>1, <1>2 DEF Reads
<1>4. \A k \in 0..c : p(k) \in Nat \ {0}
  <2>1. \A k \in 0..c : k \in 0..IntBits
    BY <1>1 DEF IntBits
  <2> QED
    BY <2>1, PowersGrow
<1>5. p(0) = 1 /\ \A k \in 1..c : p(k) = 16 * p(k - 1)
  <2>1. \A k \in 1..c : k \in 1..IntBits
    BY <1>1 DEF IntBits
  <2> QED
    BY <2>1, PowerIs
<1> HIDE DEF p
<1>6. \A k \in 0..c : V[k] < p(k)
  <2> DEFINE S == {k \in Nat : k <= c => V[k] < p(k)}
  <2>1. 0 \in S
    BY <1>3, <1>5
  <2>2. ASSUME NEW k \in 0..(c - 1), k \in S PROVE k + 1 \in S
    <3>1. k + 1 \in 1..c /\ k \in 0..c /\ k + 1 - 1 = k /\ k <= c /\ k + 1 \in 0..c
      BY <1>1
    <3>2. V[k] < p(k) /\ V[k + 1] = V[k] * 16 + ds[k + 1] /\ p(k + 1) = 16 * p(k)
      BY <1>3, <1>5, <2>2, <3>1
    <3>3. V[k] \in Nat /\ p(k) \in Nat /\ ds[k + 1] \in Nat /\ ds[k + 1] < 10
      BY <1>1, <1>3, <1>4, <3>1
    <3>4. V[k + 1] < p(k + 1)
      BY <3>2, <3>3
    <3> QED
      BY <3>1, <3>4
  <2> HIDE DEF S
  <2>3. c \in Nat
    BY <1>1
  <2>4. 0..c \subseteq S
    BY <2>1, <2>2, <2>3, AllUpTo
  <2> QED
    BY <2>4 DEF S
<1>7. c # 1 => \A k \in 1..c : V[k] >= p(k - 1)
  <2> SUFFICES ASSUME c # 1 PROVE \A k \in 1..c : V[k] >= p(k - 1)
    OBVIOUS
  <2> DEFINE S == {k \in Nat : k + 1 <= c => V[k + 1] >= p(k)}
  <2>1. 0 \in S
    <3>1. V[1] = V[0] * 16 + ds[1] /\ ds[1] \in Nat /\ ds[1] >= 1
      <4>1. 1 \in 1..c
        BY <1>1
      <4>2. V[1] = V[1 - 1] * 16 + ds[1]
        BY <1>3, <4>1
      <4> QED
        BY <1>1, <4>1, <4>2, FirstDigit
    <3>2. V[1] >= p(0)
      BY <1>3, <1>5, <3>1
    <3> QED
      BY <3>2
  <2>2. ASSUME NEW k \in 0..(c - 1), k \in S PROVE k + 1 \in S
    <3> SUFFICES ASSUME k + 1 + 1 <= c PROVE V[k + 1 + 1] >= p(k + 1)
      BY <1>1
    <3> DEFINE i == k + 1
    <3>1. i \in 1..c /\ i + 1 \in 1..c /\ i - 1 = k /\ i + 1 - 1 = i /\ i \in 0..c /\ k \in 0..c
      BY <1>1
    <3>2. V[i] >= p(k)
      BY <2>2, <3>1
    <3> HIDE DEF i
    <3>3. V[i + 1] = V[i] * 16 + ds[i + 1] /\ p(i) = 16 * p(k)
      BY <1>3, <1>5, <3>1
    <3>4. V[i] \in Nat /\ p(k) \in Nat /\ ds[i + 1] \in Nat
      BY <1>1, <1>3, <1>4, <3>1
    <3>5. V[i + 1] >= p(i)
      BY <3>2, <3>3, <3>4
    <3> QED
      BY <3>5 DEF i
  <2> HIDE DEF S
  <2>3. c \in Nat
    BY <1>1
  <2>4. 0..c \subseteq S
    BY <2>1, <2>2, <2>3, AllUpTo
  <2>5. ASSUME NEW k \in 1..c PROVE V[k] >= p(k - 1)
    <3>1. k - 1 \in 0..c /\ k - 1 + 1 = k
      BY <1>1
    <3>2. k - 1 \in S
      BY <2>4, <3>1
    <3> QED
      BY <1>1, <3>1, <3>2 DEF S
  <2> QED
    BY <2>5
<1>8. m \in Nat /\ HasDigits(16, m, c)
  <2>1. c \in 0..c /\ c \in 1..c
    BY <1>1
  <2>2. V[c] \in Nat /\ V[c] < p(c) /\ (c # 1 => V[c] >= p(c - 1))
    BY <1>3, <1>6, <1>7, <2>1
  <2>3. p(c) \in Nat /\ (c # 1 => p(c - 1) \in Nat)
    <3>1. c # 1 => c - 1 \in 0..c
      BY <1>1
    <3> QED
      BY <1>4, <2>1, <3>1
  <2> QED
    BY <2>2, <2>3 DEF HasDigits, p
<1>9. \A k \in 0..c : V[c - k] = m \div p(k)
  <2> DEFINE S == {k \in Nat : k <= c => V[c - k] = m \div p(k)}
  <2>1. 0 \in S
    <3>1. c - 0 = c /\ m \div 1 = m
      BY <1>1, <1>8
    <3> QED
      BY <1>5, <3>1
  <2>2. ASSUME NEW k \in 0..(c - 1), k \in S PROVE k + 1 \in S
    <3>1. PICK i : i = c - k
      OBVIOUS
    <3>2. i \in 1..c /\ i - 1 = c - (k + 1) /\ k \in 0..c /\ k <= c /\ k + 1 \in 1..c /\ k + 1 - 1 = k
          /\ i - 1 \in 0..c
      BY <1>1, <3>1
    <3>3. V[i] = m \div p(k)
      BY <2>2, <3>1, <3>2
    <3>4. V[i] = V[i - 1] * 16 + ds[i] /\ V[i - 1] \in Nat
      BY <1>3, <3>2
    <3>a. ds[i] \in Nat /\ ds[i] < 10
      BY <1>1, <3>2
    <3>5. V[i] \div 16 = V[i - 1]
      BY <3>4, <3>a, LastHex
    <3>6. p(k + 1) = 16 * p(k) /\ p(k) \in Nat \ {0}
      BY <1>4, <1>5, <3>2
    <3>7. p(k) * 16 = p(k + 1)
      BY <3>6
    <3>8. m \div (p(k) * 16) = (m \div p(k)) \div 16
      BY <1>8, <3>6, DividedTwice
    <3>9. V[c - (k + 1)] = m \div p(k + 1)
      BY <3>2, <3>3, <3>5, <3>7, <3>8
    <3> QED
      BY <3>9
  <2> HIDE DEF S
  <2>3. c \in Nat
    BY <1>1
  <2>4. 0..c \subseteq S
    BY <2>1, <2>2, <2>3, AllUpTo
  <2> QED
    BY <2>4 DEF S
<1> DEFINE es == DigitsOf(16, m)
<1>10. AreDigits(es, 16, m, c)
  BY <1>1, <1>8, DigitsOfIs
<1> HIDE DEF es
<1>11. es \in Seq(Nat) /\ Len(es) = c /\ \A k \in 1..c : es[k] = (m \div p(c - k)) % 16
  BY <1>10 DEF AreDigits, p
<1>12. ASSUME NEW k \in 1..c PROVE es[k] = ds[k]
  <2>1. c - k \in 0..c /\ c - (c - k) = k
    BY <1>1
  <2>2. m \div p(c - k) = V[k]
    BY <1>9, <2>1
  <2>3. V[k] = V[k - 1] * 16 + ds[k] /\ V[k - 1] \in Nat
    <3>1. k - 1 \in 0..c
      BY <1>1
    <3> QED
      BY <1>3, <3>1
  <2>4. ds[k] \in Nat /\ ds[k] < 10
    BY <1>1
  <2>5. V[k] % 16 = ds[k]
    BY <2>3, <2>4, LastHex
  <2> QED
    BY <1>11, <2>2, <2>5
<1>13. es = ds
  BY <1>1, <1>11, <1>12, SeqEqual
<1> HIDE DEF m
<1>14. ReadAs(16, ds) = m
  BY <1>1 DEF ReadAs, m, V
<1> QED
  BY <1>8, <1>13, <1>14 DEF es

\* A number in BCD is read back.
LEMMA BcdBack ==
    ASSUME NEW n \in Nat, n < Power(10, 7)
    PROVE  bcd2bin(bin2bcd(n)) = n
<1>1. PICK c \in 1..10 : HasDigits(10, n, c)
  BY SomeDigits
<1>2. AreDigits(DigitsOf(10, n), 10, n, c)
  BY <1>1, DigitsOfIs
<1> DEFINE ds == DigitsOf(10, n)
<1>3. AreDigits(ds, 10, n, c) /\ bin2bcd(n) = ReadAs(16, ds)
  BY <1>2 DEF bin2bcd
<1> HIDE DEF ds
<1>4. DigitsOf(16, ReadAs(16, ds)) = ds
  BY <1>3, DigitsKept
<1>5. ReadAs(10, ds) = n
  BY <1>3, DigitsRead
<1> QED
  BY <1>3, <1>4, <1>5 DEF bcd2bin

-----------------------------------------------------------------------------
(* base32 *)

\* A digit more
LEMMA ReadingAppend ==
    ASSUME NEW base \in Nat, NEW s \in Seq(Nat), NEW d \in Nat
    PROVE  ReadAs(base, Append(s, d)) = ReadAs(base, s) * base + d
<1> DEFINE t == Append(s, d)
           n == Len(s)
           f == Reading(base, s)
           g == Reading(base, t)
<1>1. n \in Nat /\ t \in Seq(Nat) /\ Len(t) = n + 1 /\ t[n + 1] = d /\ \A i \in 1..n : t[i] = s[i]
  OBVIOUS
<1> HIDE DEF t
<1>2. Reads(f, base, s) /\ Reads(g, base, t)
  BY <1>1, ReadingIs
<1> DEFINE S == {k \in Nat : k <= n => g[k] = f[k]}
<1>3. 0 \in S
  BY <1>2 DEF Reads
<1>4. ASSUME NEW k \in 0..(n - 1), k \in S PROVE k + 1 \in S
  <2>1. k + 1 \in 1..n /\ k + 1 \in 1..(n + 1) /\ k + 1 - 1 = k /\ k <= n
    BY <1>1
  <2>2. f[k + 1] = f[k] * base + s[k + 1] /\ g[k + 1] = g[k] * base + t[k + 1]
    BY <1>1, <1>2, <2>1 DEF Reads
  <2>3. t[k + 1] = s[k + 1] /\ g[k] = f[k]
    BY <1>1, <1>4, <2>1
  <2> HIDE DEF f, g
  <2>4. g[k + 1] = f[k + 1]
    BY <2>2, <2>3
  <2> QED
    BY <2>1, <2>4
<1>5. n \in 0..n /\ n + 1 \in 1..(n + 1) /\ n + 1 - 1 = n
  BY <1>1
<1>6. n \in S
  <2> HIDE DEF S
  <2>1. n \in Nat
    BY <1>1
  <2> HIDE DEF n
  <2> QED
    BY <1>3, <1>4, <1>5, <2>1, AllUpTo
<1>7. g[n + 1] = g[n] * base + d /\ g[n] = f[n]
  <2>1. g[n + 1] = g[n + 1 - 1] * base + t[n + 1]
    <3>1. \A k \in 1..(n + 1) : g[k] = g[k - 1] * base + t[k]
      BY <1>1, <1>2 DEF Reads
    <3> HIDE DEF f, g, n
    <3> QED
      BY <3>1, <1>5
  <2>2. g[n] = f[n]
    BY <1>1, <1>6
  <2> QED
    BY <1>1, <1>5, <2>1, <2>2
<1>8. ReadAs(base, t) = g[n + 1] /\ ReadAs(base, s) = f[n]
  BY <1>1 DEF ReadAs
<1> QED
  BY <1>7, <1>8 DEF t

\* The value of as many digits tells each of them.
LEMMA SameDigits ==
    ASSUME NEW B \in Nat \ {0}, NEW s \in Seq(Nat), NEW t \in Seq(Nat), Len(s) = Len(t),
           \A k \in 1..Len(s) : s[k] < B /\ t[k] < B, ReadAs(B, s) = ReadAs(B, t)
    PROVE  s = t
<1> DEFINE n == Len(s)
           f == Reading(B, s)
           g == Reading(B, t)
<1>1. n \in Nat /\ \A k \in 1..n : s[k] \in Nat /\ s[k] < B /\ t[k] \in Nat /\ t[k] < B
  OBVIOUS
<1>2. Reads(f, B, s) /\ Reads(g, B, t)
  BY ReadingIs
<1>3. /\ \A k \in 1..n : f[k] = f[k - 1] * B + s[k] /\ g[k] = g[k - 1] * B + t[k]
      /\ \A k \in 0..n : f[k] \in Nat /\ g[k] \in Nat
  BY <1>2 DEF Reads
<1>4. f[n] = g[n]
  BY DEF ReadAs
<1> HIDE DEF f, g, n
<1>5. ASSUME NEW k \in 1..n, f[k] = g[k] PROVE f[k - 1] = g[k - 1] /\ s[k] = t[k]
  <2>1. k - 1 \in 0..n
    BY <1>1
  <2>2. f[k - 1] \in Nat /\ g[k - 1] \in Nat /\ s[k] \in Nat /\ s[k] < B /\ t[k] \in Nat /\ t[k] < B
    BY <1>1, <1>3, <2>1
  <2>3. f[k] = B * f[k - 1] + s[k] /\ g[k] = B * g[k - 1] + t[k]
    BY <1>3, <2>2
  <2>4. (B * f[k - 1] + s[k]) \div B = f[k - 1] /\ (B * f[k - 1] + s[k]) % B = s[k]
    BY <2>2, DividedUnique
  <2>5. (B * g[k - 1] + t[k]) \div B = g[k - 1] /\ (B * g[k - 1] + t[k]) % B = t[k]
    BY <2>2, DividedUnique
  <2> QED
    BY <1>5, <2>3, <2>4, <2>5
<1> DEFINE S == {k \in Nat : k <= n => f[n - k] = g[n - k]}
<1>6. 0..n \subseteq S
  <2>1. 0 \in S
    BY <1>1, <1>4
  <2>2. ASSUME NEW k \in 0..(n - 1), k \in S PROVE k + 1 \in S
    <3>1. PICK i : i = n - k
      OBVIOUS
    <3>2. i \in 1..n /\ i - 1 = n - (k + 1) /\ k <= n
      BY <1>1, <3>1
    <3>3. f[i - 1] = g[i - 1]
      BY <1>5, <2>2, <3>1, <3>2
    <3> QED
      BY <3>2, <3>3
  <2> HIDE DEF S
  <2> QED
    BY <1>1, <2>1, <2>2, AllUpTo
<1>7. ASSUME NEW k \in 1..n PROVE s[k] = t[k]
  <2>1. n - k \in 0..n /\ n - (n - k) = k
    BY <1>1
  <2>2. f[k] = g[k]
    BY <1>6, <2>1
  <2> QED
    BY <1>5, <2>2
<1> QED
  BY <1>7, SeqEqual DEF n

\* What is left of a number is what was left of its rest.
LEMMA Split ==
    ASSUME NEW B \in Nat \ {0}, NEW Q \in Nat \ {0}, NEW y \in Nat
    PROVE  y % (B * Q) = Q * ((y \div Q) % B) + (y % Q)
<1> DEFINE z == y \div Q
           r == y % Q
           u == z \div B
           l == z % B
<1>1. z \in Nat /\ r \in Nat /\ r < Q /\ y = Q * z + r
  BY Divided
<1> HIDE DEF z, r
<1>2. u \in Nat /\ l \in Nat /\ l < B /\ z = B * u + l
  BY <1>1, Divided
<1> HIDE DEF u, l
<1>3. y = (B * Q) * u + (Q * l + r)
  BY <1>1, <1>2
<1>4. Q * l + r \in Nat /\ Q * l + r < B * Q
  <2>1. Q * l <= Q * (B - 1)
    BY <1>2
  <2>2. Q * (B - 1) = B * Q - Q /\ B * Q \in Nat /\ Q * l \in Nat
    BY <1>2
  <2> QED
    BY <1>1, <2>1, <2>2
<1>5. B * Q \in Nat \ {0}
  OBVIOUS
<1> DEFINE D == B * Q
           v == Q * l + r
<1>6. y = D * u + v /\ D \in Nat \ {0} /\ v \in Nat /\ v < D
  BY <1>3, <1>4, <1>5
<1> HIDE DEF D, v
<1>7. y % D = v
  BY <1>2, <1>6, DividedUnique
<1> QED
  BY <1>7 DEF D, v, z, r, u, l

\* The low bits of an int are those of the number.
LEMMA LowBits ==
    ASSUME NEW P \in Nat \ {0}, NEW M \in Nat \ {0}, NEW y \in Nat
    PROVE  (y % (P * M)) % P = y % P
<1> DEFINE h == (y \div P) % M
           r == y % P
<1>1. y \div P \in Nat /\ r \in Nat /\ r < P
  BY Divided
<1>2. h \in Nat
  BY <1>1, Divided
<1>3. y % (M * P) = P * h + r
  BY Split
<1> HIDE DEF h, r
<1>4. (P * h + r) % P = r
  BY <1>1, <1>2, DividedUnique
<1>5. P * M = M * P
  OBVIOUS
<1> QED
  BY <1>3, <1>4, <1>5 DEF r

\* A sum times a factor.
LEMMA Distributed == \A a, b, c, e \in Nat : (a * b + c) * e = (a * e) * b + c * e
OBVIOUS

\* The value V of what was read is the value W of what was written and what is left in the
\* buffer y: it stays so when a digit of base E is read and one of base B written.
Holds(V, P, W, y) == V = P * W + (y % P)
\* What holds before a digit d of base E is put into the buffer, and after the
\* digit at Q of base B is taken out of it.
Pushing(P, E, B, Q, d, y, V, W, z) ==
    P * E = B * Q /\ Holds(V, P, W, y) /\ z % (P * E) = (y * E + d) % (P * E)
After(E, B, Q, d, V, W, z) == Holds(V * E + d, Q, W * B + ((z \div Q) % B), z)

\* Putting a digit in and taking one out keeps the value.
LEMMA ReadAndWrite ==
    ASSUME NEW P \in Nat \ {0}, NEW E \in Nat \ {0}, NEW B \in Nat \ {0}, NEW Q \in Nat \ {0},
           NEW d \in Nat, d < E, NEW y \in Nat, NEW V \in Nat, NEW W \in Nat, NEW z \in Nat
    PROVE  Pushing(P, E, B, Q, d, y, V, W, z) => After(E, B, Q, d, V, W, z)
<1>0. (y * E + d) % (P * E) = (y % P) * E + d
  <2> DEFINE q == y \div P
             r == y % P
  <2>1. q \in Nat /\ r \in Nat /\ r < P /\ y = P * q + r
    BY Divided
  <2> HIDE DEF q, r
  <2>2. y * E + d = (P * E) * q + (r * E + d)
    BY <2>1
  <2>3. r * E + d \in Nat /\ r * E + d < P * E
    <3>1. r * E <= (P - 1) * E
      BY <2>1
    <3>2. (P - 1) * E = P * E - E /\ P * E \in Nat /\ r * E \in Nat
      BY <2>1
    <3> QED
      BY <3>1, <3>2
  <2>4. P * E \in Nat \ {0}
    OBVIOUS
  <2> DEFINE D == P * E
             v == r * E + d
  <2>5. y * E + d = D * q + v /\ D \in Nat \ {0} /\ v \in Nat /\ v < D
    BY <2>2, <2>3, <2>4
  <2> HIDE DEF D, v
  <2>6. (D * q + v) % D = v
    BY <2>1, <2>5, DividedUnique
  <2> QED
    BY <2>5, <2>6 DEF D, v, r
<1> SUFFICES ASSUME P * E = B * Q, V = P * W + (y % P), z % (P * E) = (y * E + d) % (P * E)
             PROVE  V * E + d = Q * (W * B + ((z \div Q) % B)) + (z % Q)
  BY DEF Pushing, After, Holds
<1> DEFINE r == y % P
           l == (z \div Q) % B
           m == z % Q
<1>1. z % (B * Q) = Q * l + m
  BY Split
<1>2. z % (P * E) = r * E + d
  BY <1>0
<1>3. r \in Nat /\ m \in Nat /\ z \div Q \in Nat
  BY Divided
<1>4. l \in Nat
  BY <1>3, Divided
<1> HIDE DEF r, l, m
<1>5. Q * l + m = r * E + d /\ V = P * W + r
  BY <1>1, <1>2 DEF r
<1>6. V * E = (P * E) * W + r * E
  BY <1>3, <1>5, Distributed
<1>7. (P * E) * W = Q * (W * B)
  <2>1. (P * E) * W = (B * Q) * W
    OBVIOUS
  <2>2. (B * Q) * W = Q * (W * B)
    OBVIOUS
  <2> QED
    BY <2>1, <2>2
<1>8. Q * (W * B + l) = Q * (W * B) + Q * l
  BY <1>4
<1> DEFINE a == Q * (W * B)
           b == r * E
           c == Q * l
           e == Q * (W * B + l)
           f == V * E
<1>9. a \in Int /\ b \in Int /\ c \in Int
  BY <1>3, <1>4
<1>10. c + m = b + d /\ f = a + b /\ e = a + c
  BY <1>5, <1>6, <1>7, <1>8
<1> HIDE DEF a, b, c, e, f
<1>11. f + d = e + m
  BY <1>3, <1>9, <1>10
<1> QED
  BY <1>11 DEF e, f, l, m

\* Powers of one base multiply.
LEMMA PowersMultiply ==
    ASSUME NEW b \in Nat, NEW m \in 0..IntBits
    PROVE  \A n \in 0..(IntBits - m) : Power(b, m + n) = Power(b, m) * Power(b, n)
<1> DEFINE N == IntBits - m
           S == {n \in Nat : n <= N => Power(b, m + n) = Power(b, m) * Power(b, n)}
<1>1. IntBits \in Nat /\ N \in Nat
  BY DEF IntBits
<1>2. /\ Power(b, 0) = 1 /\ \A n \in 0..IntBits : Power(b, n) \in Nat
      /\ \A n \in 1..IntBits : Power(b, n) = b * Power(b, n - 1)
  BY PowerIs
<1>3. 0 \in S
  <2>1. m + 0 = m /\ Power(b, m) \in Nat
    BY <1>1, <1>2
  <2>2. Power(b, m) * 1 = Power(b, m)
    BY <2>1
  <2> QED
    BY <1>2, <2>1, <2>2
<1>4. ASSUME NEW n \in 0..(N - 1), n \in S PROVE n + 1 \in S
  <2>1. /\ m + n + 1 \in 1..IntBits /\ m + n + 1 - 1 = m + n /\ n + 1 \in 1..IntBits /\ n + 1 - 1 = n
        /\ n <= N /\ n \in 0..IntBits /\ m + (n + 1) = m + n + 1
    BY <1>1
  <2>2. Power(b, m + n + 1) = b * Power(b, m + n) /\ Power(b, n + 1) = b * Power(b, n)
    BY <1>2, <2>1
  <2>3. Power(b, m + n) = Power(b, m) * Power(b, n)
    BY <1>4, <2>1
  <2>4. Power(b, m) \in Nat /\ Power(b, n) \in Nat
    BY <1>2, <2>1
  <2>5. b * (Power(b, m) * Power(b, n)) = Power(b, m) * (b * Power(b, n))
    BY <2>4
  <2>6. Power(b, m + (n + 1)) = Power(b, m) * Power(b, n + 1)
    BY <2>1, <2>2, <2>3, <2>5
  <2> QED
    BY <2>6
<1> HIDE DEF S
<1>5. 0..N \subseteq S
  <2> HIDE DEF N
  <2> QED
    BY <1>1, <1>3, <1>4, AllUpTo
<1> QED
  BY <1>5 DEF S

\* The same with bits: e are read with the value d, w are written, u are left of the buffer z.
Pushed(z, y, e, d) == z = (y * Power(2, e) + d) % IntWidth
\* The w bits from bit u on, and what a round leaves.
Digit(z, u, w) == (z \div Power(2, u)) % Power(2, w)
Pulled(V, W, d, e, u, w, z) ==
    /\ z \in Nat /\ Digit(z, u, w) \in Nat /\ Digit(z, u, w) < Power(2, w)
    /\ Holds(V * Power(2, e) + d, Power(2, u), W * Power(2, w) + Digit(z, u, w), z)

\* A round keeps the value: what was read is what was written and the rest.
LEMMA RoundHolds ==
    ASSUME NEW bits \in 0..8, NEW e \in 0..8, NEW u \in 0..12, NEW w \in 0..8, bits + e = u + w,
           bits + e <= 13, NEW d \in Nat, d < Power(2, e), NEW y \in Nat, NEW V \in Nat, NEW W \in Nat,
           Holds(V, Power(2, bits), W, y), NEW z, Pushed(z, y, e, d)
    PROVE  Pulled(V, W, d, e, u, w, z)
<1> DEFINE P == Power(2, bits)
           E == Power(2, e)
           Q == Power(2, u)
           B == Power(2, w)
           C == bits + e
<1>1. \A n \in 0..IntBits : Power(2, n) \in Nat \ {0}
  BY PowersGrow
<1>2. P \in Nat \ {0} /\ E \in Nat \ {0} /\ Q \in Nat \ {0} /\ B \in Nat \ {0}
  BY <1>1 DEF IntBits
<1>3. P * E = B * Q /\ P * E = Power(2, C)
  <2>1. /\ bits \in 0..IntBits /\ e \in 0..(IntBits - bits) /\ w \in 0..IntBits /\ u \in 0..(IntBits - w)
        /\ w + u = C
    BY DEF IntBits
  <2>2. Power(2, bits + e) = P * E
    BY <2>1, PowersMultiply
  <2>3. Power(2, w + u) = B * Q
    BY <2>1, PowersMultiply
  <2> QED
    BY <2>1, <2>2, <2>3
<1>4. \E M \in Nat \ {0} : IntWidth = Power(2, C) * M
  <2>1. PICK n \in 13..IntBits : IntWidth = Power(2, n)
    BY WidthAssumption
  <2>2. C \in 0..IntBits /\ n - C \in 0..(IntBits - C) /\ C + (n - C) = n /\ n - C \in 0..IntBits
    BY DEF IntBits
  <2> HIDE DEF C
  <2>3. Power(2, C + (n - C)) = Power(2, C) * Power(2, n - C)
    BY <2>2, PowersMultiply
  <2> QED
    BY <1>1, <2>1, <2>2, <2>3
<1>5. PICK M \in Nat \ {0} : IntWidth = (P * E) * M
  BY <1>3, <1>4
<1> HIDE DEF P, E, Q, B, C
<1>6. d < E /\ Holds(V, P, W, y) /\ z = (y * E + d) % IntWidth
  BY DEF P, E, Pushed
<1> DEFINE x == y * E + d
           D == P * E
<1>7. x \in Nat /\ D \in Nat \ {0}
  <2>1. y * E \in Nat /\ P * E \in Nat \ {0}
    BY <1>2
  <2> QED
    BY <2>1
<1>8. z % D = x % D /\ z \in Nat
  <2>1. D * M \in Nat \ {0}
    BY <1>7
  <2> HIDE DEF x, D
  <2>2. z = x % (D * M)
    BY <1>5, <1>6 DEF x, D
  <2>3. (x % (D * M)) % D = x % D
    BY <1>7, LowBits
  <2>4. x % (D * M) \in Nat
    BY <1>7, <2>1, Divided
  <2> QED
    BY <2>2, <2>3, <2>4
<1>9. (z \div Q) % B \in Nat /\ (z \div Q) % B < B
  <2>1. z \div Q \in Nat
    BY <1>2, <1>8, Divided
  <2> QED
    BY <1>2, <2>1, Divided
<1>10. Pushing(P, E, B, Q, d, y, V, W, z)
  BY <1>3, <1>6, <1>8 DEF Pushing
<1>11. After(E, B, Q, d, V, W, z)
  <2> HIDE DEF x, D
  <2> QED
    BY <1>2, <1>6, <1>8, <1>10, ReadAndWrite
<1> QED
  BY <1>8, <1>9, <1>11 DEF After, Pulled, Digit, E, Q, B

\* The small powers
LEMMA Bits ==
    /\ Power(2, 0) = 1 /\ Power(2, 1) = 2 /\ Power(2, 2) = 4 /\ Power(2, 3) = 8 /\ Power(2, 4) = 16
    /\ Power(2, 5) = 32 /\ Power(2, 6) = 64 /\ Power(2, 7) = 128 /\ Power(2, 8) = 256
<1>1. Power(2, 0) = 1 /\ \A n \in 1..IntBits : Power(2, n) = 2 * Power(2, n - 1)
  BY PowerIs
<1>2. \A n \in 1..32 : Power(2, n) = 2 * Power(2, n - 1)
  BY <1>1 DEF IntBits
<1> QED
  BY <1>1, <1>2, SMT

\* The texts, and the states of the loop.
ByteTexts == Seq(0..255)
EncStates == [buffer : Nat, bits : 0..8, next : Nat \ {0}, out : Seq(0..31)]

\* e bits were read with the value d, and a letter was written: u are left.
IsRound(t, s, e, d, u, n) ==
    LET z == (s.buffer * Power(2, e) + d) % IntWidth
    IN  t = [buffer |-> z, bits |-> u, next |-> n, out |-> Append(s.out, (z \div Power(2, u)) % 32)]

\* A round takes a byte or pads with zeroes, and gives a letter.
LEMMA RoundIs ==
    ASSUME NEW data, NEW s, NEW t, t = EncodeRound(s, data), s.bits \in 0..8
    PROVE  \E e \in 0..8 : \E u \in 0..7 : \E d, n :
              /\ IsRound(t, s, e, d, u, n) /\ s.bits + e = u + 5
              /\ IF TakesByte(s, data) THEN e = 8 /\ d = data[s.next] /\ n = s.next + 1
                 ELSE d = 0 /\ n = s.next /\ IF s.bits < 5 THEN u = 0 ELSE e = 0
<1> DEFINE e == Shift(s, data)
           u == s.bits + Shift(s, data) - 5
           d == IF TakesByte(s, data) THEN data[s.next] ELSE 0
           n == IF TakesByte(s, data) THEN s.next + 1 ELSE s.next
<1>1. IsRound(t, s, e, d, u, n)
  BY DEF EncodeRound, IsRound
<1>2. /\ e \in 0..8 /\ u \in 0..7 /\ s.bits + e = u + 5
      /\ IF TakesByte(s, data) THEN e = 8 ELSE IF s.bits < 5 THEN u = 0 ELSE e = 0
  <2>1. TakesByte(s, data) => s.bits < 5
    BY DEF TakesByte
  <2> QED
    BY <2>1 DEF Shift
<1>3. IF TakesByte(s, data) THEN d = data[s.next] /\ n = s.next + 1 ELSE d = 0 /\ n = s.next
  OBVIOUS
<1> HIDE DEF e, u, d, n
<1> QED
  BY <1>1, <1>2, <1>3

\* The members of a sequence of small numbers.
LEMMA Elements ==
    ASSUME NEW n \in Nat, NEW s \in Seq(0..n)
    PROVE  s \in Seq(Nat) /\ Len(s) \in Nat /\ \A k \in 1..Len(s) : s[k] \in Nat /\ s[k] <= n
OBVIOUS

\* The first byte.
LEMMA OneByte == \A b \in Nat : b <= 255 => Holds(b * 1, 256, 0, b)
BY DEF Holds

\* No digits, no value.
LEMMA ReadsNothing == \A base \in Nat : ReadAs(base, <<>>) = 0
<1> SUFFICES ASSUME NEW base \in Nat PROVE ReadAs(base, <<>>) = 0
  OBVIOUS
<1>1. <<>> \in Seq(Nat) /\ Len(<<>>) = 0
  OBVIOUS
<1>2. Reads(Reading(base, <<>>), base, <<>>)
  BY <1>1, ReadingIs
<1> QED
  BY <1>1, <1>2 DEF ReadAs, Reads

\* What the encoder has written and holds of the data it has read; p bits were put behind the end.
Gathered(s, data, p) ==
    /\ 5 * Len(s.out) + s.bits = 8 * (s.next - 1) + p
    /\ p = 0 \/ (s.bits = 0 /\ s.next = Len(data) + 1)
    /\ Holds(Reading(256, data)[s.next - 1] * Power(2, p), Power(2, s.bits), ReadAs(32, s.out), s.buffer)

\* After k rounds the state codes the data read.
Encoded(s, data, k) ==
    /\ s \in EncStates /\ s.next <= Len(data) + 1
    /\ Len(s.out) <= k /\ (EncodeGoesOn(s, data) => Len(s.out) = k)
    /\ \E p \in 0..4 : Gathered(s, data, p)

\* Before the first round it does.
LEMMA StartCoded ==
    ASSUME NEW data \in ByteTexts
    PROVE  Encoded(EncodeStart(data), data, 0)
<1> DEFINE s == EncodeStart(data)
           V == Reading(256, data)
<1>1. <<>> \in Seq(0..31) /\ <<>> \in Seq(Nat) /\ Len(<<>>) = 0
  OBVIOUS
<1>2. ReadAs(32, <<>>) = 0
  BY ReadsNothing, 32 \in Nat
<1>3. data \in Seq(Nat) /\ Len(data) \in Nat /\ \A k \in 1..Len(data) : data[k] \in Nat /\ data[k] <= 255
  BY Elements, 255 \in Nat DEF ByteTexts
<1>4. Power(2, 0) = 1 /\ Power(2, 8) = 256
  BY Bits
<1>5. V[0] = 0 /\ \A k \in 1..Len(data) : V[k] = V[k - 1] * 256 + data[k]
  BY <1>3, ReadingIs DEF Reads
<1> HIDE DEF V
<1>6. CASE data = <<>>
  <2>1. s = [buffer |-> 0, bits |-> 0, next |-> 1, out |-> <<>>]
    BY <1>6 DEF EncodeStart
  <2> HIDE DEF s
  <2>2. s.buffer = 0 /\ s.bits = 0 /\ s.next = 1 /\ s.out = <<>> /\ Len(data) = 0
    BY <1>6, <2>1
  <2>3. s \in EncStates
    BY <1>1, <2>1 DEF EncStates
  <2>4. Holds(0 * 1, 1, 0, 0)
    BY DEF Holds
  <2>5. Gathered(s, data, 0)
    BY <1>1, <1>2, <1>4, <1>5, <2>2, <2>4 DEF Gathered, V
  <2> QED
    BY <1>1, <2>2, <2>3, <2>5 DEF Encoded, EncodeGoesOn, s
<1>7. CASE data # <<>>
  <2>1. s = [buffer |-> data[1], bits |-> 8, next |-> 2, out |-> <<>>]
    BY <1>7 DEF EncodeStart
  <2> HIDE DEF s
  <2>2. s.buffer = data[1] /\ s.bits = 8 /\ s.next = 2 /\ s.out = <<>>
    BY <2>1
  <2>3. 1 \in 1..Len(data) /\ data[1] \in Nat /\ data[1] <= 255
    <3>1. Len(data) # 0
      BY <1>7, EmptySeq
    <3>2. 1 \in 1..Len(data)
      BY <1>3, <3>1
    <3> QED
      BY <1>3, <3>2
  <2>4. s \in EncStates
    BY <1>1, <2>1, <2>3 DEF EncStates
  <2>5. V[1] = data[1]
    <3>1. V[1] = V[1 - 1] * 256 + data[1]
      BY <1>5, <2>3
    <3> QED
      BY <1>5, <2>3, <3>1
  <2>6. Holds(data[1] * 1, 256, 0, data[1])
    BY <2>3, OneByte
  <2>7. Gathered(s, data, 0)
    BY <1>1, <1>2, <1>4, <2>2, <2>5, <2>6 DEF Gathered, V
  <2>8. Len(s.out) = 0 /\ s.next <= Len(data) + 1
    BY <1>1, <1>3, <2>2, <2>3
  <2> QED
    BY <2>4, <2>7, <2>8 DEF Encoded, s
<1> QED
  BY <1>6, <1>7

\* What a round does to the value of what was written
LEMMA RoundWrites ==
    ASSUME NEW s \in EncStates, NEW V \in Nat, NEW e \in 0..8, NEW u \in 0..7, NEW d \in Nat,
           d < Power(2, e), NEW n \in Nat \ {0}, s.bits + e = u + 5,
           Holds(V, Power(2, s.bits), ReadAs(32, s.out), s.buffer)
    PROVE  \A t : IsRound(t, s, e, d, u, n) =>
              /\ t \in EncStates /\ t.bits = u /\ t.next = n /\ Len(t.out) = Len(s.out) + 1
              /\ Holds(V * Power(2, e) + d, Power(2, u), ReadAs(32, t.out), t.buffer)
<1>1. s.bits \in 0..8 /\ s.buffer \in Nat /\ s.out \in Seq(0..31)
  BY DEF EncStates
<1>2. s.out \in Seq(Nat) /\ Len(s.out) \in Nat
  BY <1>1, Elements, 31 \in Nat
<1> DEFINE W == ReadAs(32, s.out)
<1>3. W \in Nat
  <2>1. Reads(Reading(32, s.out), 32, s.out)
    BY <1>2, ReadingIs
  <2> QED
    BY <1>2, <2>1 DEF Reads, ReadAs
<1> SUFFICES ASSUME NEW t, IsRound(t, s, e, d, u, n)
             PROVE  /\ t \in EncStates /\ t.bits = u /\ t.next = n /\ Len(t.out) = Len(s.out) + 1
                    /\ Holds(V * Power(2, e) + d, Power(2, u), ReadAs(32, t.out), t.buffer)
  OBVIOUS
<1> DEFINE z == (s.buffer * Power(2, e) + d) % IntWidth
           l == Digit(z, u, 5)
<1>4. Power(2, 5) = 32
  BY Bits
<1>5. z \in Nat /\ l \in Nat /\ l < 32 /\ Holds(V * Power(2, e) + d, Power(2, u), W * 32 + l, z)
  <2>1. s.bits + e <= 13 /\ u \in 0..12 /\ 5 \in 0..8
    BY <1>1
  <2>2. Pushed(z, s.buffer, e, d)
    BY DEF Pushed
  <2> HIDE DEF z, W
  <2>3. Pulled(V, W, d, e, u, 5, z)
    BY <1>1, <1>3, <2>1, <2>2, RoundHolds DEF W
  <2> QED
    BY <1>4, <2>3 DEF Pulled
<1>6. t = [buffer |-> z, bits |-> u, next |-> n, out |-> Append(s.out, l)]
  BY <1>4 DEF IsRound, Digit
<1> HIDE DEF z, l
<1>7. t.buffer = z /\ t.bits = u /\ t.next = n /\ t.out = Append(s.out, l)
  BY <1>6
<1>8. Append(s.out, l) \in Seq(0..31) /\ Len(Append(s.out, l)) = Len(s.out) + 1
  <2>1. l \in 0..31
    BY <1>5
  <2> QED
    BY <1>1, <2>1, AppendProperties
<1>9. t \in EncStates
  BY <1>5, <1>6, <1>8 DEF EncStates
<1>10. ReadAs(32, t.out) = W * 32 + l
  <2>1. 32 \in Nat
    OBVIOUS
  <2>2. ReadAs(32, Append(s.out, l)) = ReadAs(32, s.out) * 32 + l
    BY <1>2, <1>5, <2>1, ReadingAppend
  <2> QED
    BY <1>7, <2>2
<1> QED
  BY <1>5, <1>7, <1>8, <1>9, <1>10

\* Counting bits, a letter more.
LEMMA MoreBits ==
    \A l, m \in Nat : \A b, e, u \in 0..8 :
        5 * l + b = 8 * m /\ b + e = u + 5 => 5 * (l + 1) + u = 8 * m + e
OBVIOUS

\* And after each round.
LEMMA StepCoded ==
    ASSUME NEW data \in ByteTexts, NEW k \in Nat, NEW s, Encoded(s, data, k)
    PROVE  Encoded(EncodeStep(s, data), data, k + 1)
<1> DEFINE V == Reading(256, data)
           L == Len(data)
<1>1. data \in Seq(Nat) /\ L \in Nat /\ \A i \in 1..L : data[i] \in Nat /\ data[i] <= 255
  BY Elements, 255 \in Nat DEF ByteTexts
<1>2. /\ s \in EncStates /\ s.next <= L + 1 /\ Len(s.out) <= k
      /\ EncodeGoesOn(s, data) => Len(s.out) = k
  BY DEF Encoded
<1>3. s.bits \in 0..8 /\ s.next \in Nat \ {0} /\ s.out \in Seq(0..31) /\ Len(s.out) \in Nat
  <2>1. s.bits \in 0..8 /\ s.next \in Nat \ {0} /\ s.out \in Seq(0..31)
    BY <1>2 DEF EncStates
  <2> QED
    BY <2>1, LenProperties
<1>4. /\ \A i \in 0..L : V[i] \in Nat
      /\ \A i \in 1..L : V[i] = V[i - 1] * 256 + data[i]
  BY <1>1, ReadingIs DEF Reads
<1>5. PICK p \in 0..4 : Gathered(s, data, p)
  BY DEF Encoded
<1>6. CASE ~EncodeGoesOn(s, data)
  <2>1. EncodeStep(s, data) = s
    BY <1>6 DEF EncodeStep
  <2>2. Len(s.out) <= k + 1
    BY <1>2, <1>3
  <2> QED
    BY <1>2, <1>5, <1>6, <2>1, <2>2 DEF Encoded
<1>7. CASE EncodeGoesOn(s, data)
  <2> DEFINE t == EncodeRound(s, data)
             v == V[s.next - 1]
  <2>1. EncodeStep(s, data) = t
    BY <1>7 DEF EncodeStep
  <2>2. s.next - 1 \in 0..L /\ s.next - 1 \in Nat
    BY <1>1, <1>2, <1>3
  <2>3. v \in Nat
    BY <1>4, <2>2
  <2>4. p = 0
    <3>1. s.bits > 0 \/ s.next <= L
      BY <1>7 DEF EncodeGoesOn
    <3>2. ~(s.bits = 0 /\ s.next = L + 1)
      BY <1>1, <3>1
    <3> QED
      BY <1>5, <3>2 DEF Gathered
  <2>5. /\ 5 * Len(s.out) + s.bits = 8 * (s.next - 1)
        /\ Holds(v, Power(2, s.bits), ReadAs(32, s.out), s.buffer)
    <3>1. Power(2, 0) = 1 /\ v * 1 = v
      BY <2>3, Bits
    <3>2. 5 * Len(s.out) + s.bits = 8 * (s.next - 1) + 0
      BY <1>5, <2>4 DEF Gathered
    <3>3. Holds(v * Power(2, 0), Power(2, s.bits), ReadAs(32, s.out), s.buffer)
      BY <1>5, <2>4 DEF Gathered
    <3>4. 5 * Len(s.out) + s.bits = 8 * (s.next - 1)
      BY <1>3, <2>2, <3>2
    <3> HIDE DEF v
    <3> QED
      BY <3>1, <3>3, <3>4
  <2>6. PICK e \in 0..8, u \in 0..7 : \E d, n :
           /\ IsRound(t, s, e, d, u, n) /\ s.bits + e = u + 5
           /\ IF TakesByte(s, data) THEN e = 8 /\ d = data[s.next] /\ n = s.next + 1
              ELSE d = 0 /\ n = s.next /\ IF s.bits < 5 THEN u = 0 ELSE e = 0
    BY <1>3, RoundIs
  <2>7. PICK d, n :
           /\ IsRound(t, s, e, d, u, n) /\ s.bits + e = u + 5
           /\ IF TakesByte(s, data) THEN e = 8 /\ d = data[s.next] /\ n = s.next + 1
              ELSE d = 0 /\ n = s.next /\ IF s.bits < 5 THEN u = 0 ELSE e = 0
    BY <2>6
  <2> HIDE DEF t, v
  <2>a. /\ s.bits + e = u + 5
        /\ TakesByte(s, data) => e = 8 /\ d = data[s.next] /\ n = s.next + 1
        /\ ~TakesByte(s, data) => d = 0 /\ n = s.next /\ IF s.bits < 5 THEN u = 0 ELSE e = 0
    BY <2>7
  <2>8. d \in Nat /\ d < Power(2, e) /\ n \in Nat \ {0} /\ n <= L + 1
    <3>1. CASE TakesByte(s, data)
      <4>1. s.next <= L
        BY <3>1 DEF TakesByte
      <4>2. s.next \in 1..L
        BY <1>1, <1>3, <4>1
      <4>3. d \in Nat /\ d < 256 /\ n \in Nat \ {0} /\ n <= L + 1
        <5>1. d = data[s.next] /\ n = s.next + 1
          BY <2>a, <3>1
        <5>2. data[s.next] \in Nat /\ data[s.next] <= 255
          BY <1>1, <4>2
        <5> QED
          BY <1>1, <1>3, <4>2, <5>1, <5>2
      <4> QED
        BY <2>7, <3>1, <4>3, Bits
    <3>2. CASE ~TakesByte(s, data)
      <4>1. Power(2, e) \in Nat \ {0}
        <5>1. e \in 0..IntBits
          BY DEF IntBits
        <5> QED
          BY <5>1, PowersGrow
      <4> QED
        BY <1>2, <1>3, <2>7, <3>2, <4>1
    <3> QED
      BY <3>1, <3>2
  <2>9. /\ t \in EncStates /\ t.bits = u /\ t.next = n /\ Len(t.out) = Len(s.out) + 1
        /\ Holds(v * Power(2, e) + d, Power(2, u), ReadAs(32, t.out), t.buffer)
    BY <1>2, <2>3, <2>5, <2>7, <2>8, RoundWrites
  <2>10. Len(t.out) = k + 1
    BY <1>2, <1>7, <2>9
  <2>b. t.next = n /\ 5 * Len(t.out) + t.bits = 8 * (s.next - 1) + e
    <3>1. t.bits = u /\ t.next = n /\ Len(t.out) = Len(s.out) + 1
      BY <2>9
    <3> DEFINE m == s.next - 1
               l == Len(s.out)
               b == s.bits
    <3>2. m \in Nat /\ l \in Nat /\ b \in 0..8 /\ u \in 0..8 /\ 5 * l + b = 8 * m /\ b + e = u + 5
      BY <1>3, <2>2, <2>5, <2>a
    <3> HIDE DEF m, l, b
    <3>3. 5 * (l + 1) + u = 8 * m + e
      BY <3>2, MoreBits
    <3> QED
      BY <3>1, <3>3 DEF m, l
  <2>11. \E q \in 0..4 : Gathered(t, data, q)
    <3>1. CASE TakesByte(s, data)
      <4>1. e = 8 /\ d = data[s.next] /\ n = s.next + 1 /\ s.next \in 1..L
        BY <1>1, <1>3, <2>a, <3>1 DEF TakesByte
      <4>2. V[s.next] = v * 256 + d /\ V[s.next] \in Nat
        <5>1. s.next \in 0..L
          BY <1>1, <4>1
        <5> QED
          BY <1>4, <4>1, <5>1 DEF v
      <4>3. n - 1 = s.next
        BY <1>3, <4>1
      <4>4. 5 * Len(t.out) + t.bits = 8 * (t.next - 1) + 0
        BY <1>3, <2>b, <4>1, <4>3
      <4>5. V[s.next] * 1 = V[s.next]
        BY <4>2
      <4>6. Holds(V[t.next - 1] * Power(2, 0), Power(2, t.bits), ReadAs(32, t.out), t.buffer)
        <5> HIDE DEF V
        <5> QED
          BY <2>9, <4>1, <4>2, <4>3, <4>5, Bits
      <4>7. Gathered(t, data, 0)
        BY <4>4, <4>6 DEF Gathered
      <4> QED
        BY <4>7
    <3>2. CASE ~TakesByte(s, data) /\ s.bits >= 5
      <4>1. e = 0 /\ d = 0 /\ n = s.next
        BY <1>3, <2>a, <3>2
      <4>2. 5 * Len(t.out) + t.bits = 8 * (t.next - 1) + 0
        BY <2>b, <4>1
      <4>3. v * 1 + 0 = v * 1
        BY <2>3
      <4>4. Holds(V[t.next - 1] * Power(2, 0), Power(2, t.bits), ReadAs(32, t.out), t.buffer)
        BY <2>9, <4>1, <4>3, Bits DEF v
      <4>5. Gathered(t, data, 0)
        BY <4>2, <4>4 DEF Gathered
      <4> QED
        BY <4>5
    <3>3. CASE ~TakesByte(s, data) /\ s.bits < 5
      <4>1. u = 0 /\ d = 0 /\ n = s.next
        BY <2>a, <3>3
      <4>2. ~(s.next <= L)
        BY <3>3 DEF TakesByte
      <4>3. s.next = L + 1 /\ s.bits > 0
        <5>1. s.bits > 0
          BY <1>7, <4>2 DEF EncodeGoesOn
        <5> QED
          BY <1>1, <1>2, <1>3, <4>2, <5>1
      <4>4. e \in 0..4
        BY <1>3, <2>a, <4>1, <4>3
      <4>5. 5 * Len(t.out) + t.bits = 8 * (t.next - 1) + e
        BY <2>b, <4>1
      <4>6. v * Power(2, e) + 0 = v * Power(2, e)
        <5>1. e \in 0..IntBits
          BY DEF IntBits
        <5>2. Power(2, e) \in Nat
          BY <5>1, PowersGrow
        <5>3. v * Power(2, e) \in Nat
          BY <2>3, <5>2
        <5> QED
          BY <5>3
      <4>7. Holds(V[t.next - 1] * Power(2, e), Power(2, t.bits), ReadAs(32, t.out), t.buffer)
        BY <2>9, <4>1, <4>6 DEF v
      <4>8. Gathered(t, data, e)
        BY <2>9, <4>1, <4>3, <4>5, <4>7 DEF Gathered
      <4> QED
        BY <4>4, <4>8
    <3> QED
      BY <1>3, <3>1, <3>2, <3>3
  <2>12. Encoded(t, data, k + 1)
    BY <2>8, <2>9, <2>10, <2>11 DEF Encoded
  <2> QED
    BY <2>1, <2>12
<1> QED
  BY <1>6, <1>7

\* So it does after any number of rounds.
LEMMA EncodingIs ==
    ASSUME NEW data \in ByteTexts, NEW N \in Nat
    PROVE  \A k \in 0..N : Encoded(Encoding(data, N)[k], data, k)
<1> DEFINE V == {s \in EncStates : \E k \in Nat : Encoded(s, data, k)}
           step == [p \in (1..N) \X V |-> EncodeStep(p[2], data)]
           Is(f) == f = [k \in 0..N |-> IF k = 0 THEN EncodeStart(data) ELSE EncodeStep(f[k - 1], data)]
           c == Encoding(data, N)
<1>1. \A k \in 1..N : k \in 0..N /\ k - 1 \in 0..N /\ k # 0
  OBVIOUS
<1>2. Encoded(EncodeStart(data), data, 0)
  BY StartCoded
<1>3. EncodeStart(data) \in V
  BY <1>2 DEF Encoded
<1>4. ASSUME NEW s \in V PROVE EncodeStep(s, data) \in V
  <2>1. PICK k \in Nat : Encoded(s, data, k)
    BY <1>4
  <2>2. Encoded(EncodeStep(s, data), data, k + 1) /\ k + 1 \in Nat
    BY <2>1, StepCoded
  <2> QED
    BY <2>2 DEF Encoded
<1> HIDE DEF V
<1>5. ASSUME NEW k \in 1..N, NEW s \in V PROVE step[<<k, s>>] = EncodeStep(s, data)
  OBVIOUS
<1>6. Steps(N, V, EncodeStart(data), step)
  BY <1>3, <1>4 DEF Steps
<1> HIDE DEF step
<1>7. PICK f : Recurs(f, N, V, EncodeStart(data), step)
  BY <1>6, Recursion, Zenon
<1>8. ASSUME NEW k \in 0..N
      PROVE  f[k] = IF k = 0 THEN EncodeStart(data) ELSE EncodeStep(f[k - 1], data)
  <2>1. CASE k = 0
    BY <1>7, <2>1 DEF Recurs
  <2>2. CASE k \in 1..N
    <3>1. f[k - 1] \in V /\ f[k] = step[<<k, f[k - 1]>>] /\ k # 0
      BY <1>1, <1>7, <2>2 DEF Recurs
    <3> QED
      BY <1>5, <2>2, <3>1
  <2> QED
    BY <2>1, <2>2
<1>9. Is(f)
  BY <1>7, <1>8 DEF Recurs
<1>10. Is(c)
  BY <1>9, Zenon DEF Encoding
<1> HIDE DEF c
<1>11. c[0] = EncodeStart(data) /\ \A k \in 1..N : c[k] = EncodeStep(c[k - 1], data)
  <2>1. 0 \in 0..N
    OBVIOUS
  <2> QED
    BY <1>1, <1>10, <2>1
<1> DEFINE S == {k \in Nat : Encoded(c[k], data, k)}
<1>12. 0 \in S
  BY <1>2, <1>11
<1>13. ASSUME NEW k \in 0..(N - 1), k \in S PROVE k + 1 \in S
  <2>1. k + 1 \in 1..N /\ k + 1 - 1 = k
    OBVIOUS
  <2>2. Encoded(c[k], data, k)
    BY <1>13
  <2>3. Encoded(EncodeStep(c[k], data), data, k + 1)
    BY <2>2, StepCoded
  <2> QED
    BY <1>11, <2>1, <2>3
<1> HIDE DEF S
<1>14. 0..N \subseteq S
  BY <1>12, <1>13, AllUpTo
<1> QED
  BY <1>14 DEF S, c

\* The text of the encoder: in its buffer, and, when that was large enough, worth the data.
LEMMA EncodedText ==
    ASSUME NEW data \in ByteTexts, NEW N \in Nat
    PROVE  LET out == base32_encode(data, N)
           IN  /\ out \in Seq(0..31) /\ Len(out) <= N
               /\ Len(out) < N => \E p \in 0..4 :
                     /\ 5 * Len(out) = 8 * Len(data) + p
                     /\ ReadAs(32, out) = ReadAs(256, data) * Power(2, p)
<1> DEFINE s == Encoding(data, N)[N]
           v == Reading(256, data)[s.next - 1]
<1>1. Encoded(s, data, N)
  <2>1. N \in 0..N
    OBVIOUS
  <2> QED
    BY <2>1, EncodingIs
<1>2. base32_encode(data, N) = s.out
  BY DEF base32_encode
<1> HIDE DEF s
<1>3. s \in EncStates /\ s.next <= Len(data) + 1 /\ Len(s.out) <= N
  BY <1>1 DEF Encoded
<1>4. s.out \in Seq(0..31) /\ s.buffer \in Nat /\ s.bits \in 0..8 /\ s.next \in Nat \ {0} /\ Len(data) \in Nat
  <2>1. s.out \in Seq(0..31) /\ s.buffer \in Nat /\ s.bits \in 0..8 /\ s.next \in Nat \ {0}
    BY <1>3 DEF EncStates
  <2> QED
    BY <2>1, LenProperties DEF ByteTexts
<1>5. ASSUME Len(s.out) < N
      PROVE  \E p \in 0..4 : /\ 5 * Len(s.out) = 8 * Len(data) + p
                             /\ ReadAs(32, s.out) = ReadAs(256, data) * Power(2, p)
  <2>1. ~EncodeGoesOn(s, data)
    BY <1>1, <1>4, <1>5, LenProperties DEF Encoded
  <2>2. s.bits = 0 /\ s.next = Len(data) + 1
    BY <1>3, <1>4, <2>1 DEF EncodeGoesOn
  <2>3. PICK p \in 0..4 : Gathered(s, data, p)
    BY <1>1 DEF Encoded
  <2>4. 5 * Len(s.out) = 8 * Len(data) + p
    BY <1>4, <2>2, <2>3, LenProperties DEF Gathered
  <2>5. Holds(ReadAs(256, data) * Power(2, p), 1, ReadAs(32, s.out), s.buffer)
    <3>1. s.next - 1 = Len(data)
      BY <1>4, <2>2
    <3> QED
      BY <2>2, <2>3, <3>1, Bits DEF Gathered, ReadAs
  <2>6. ReadAs(32, s.out) \in Nat
    <3>1. s.out \in Seq(Nat)
      BY <1>4, Elements, 31 \in Nat
    <3> QED
      BY <3>1, ReadingIs, LenProperties DEF Reads, ReadAs
  <2>7. ReadAs(256, data) * Power(2, p) = ReadAs(32, s.out)
    <3> DEFINE a == ReadAs(256, data) * Power(2, p)
               b == ReadAs(32, s.out)
               y == s.buffer
    <3>1. Holds(a, 1, b, y) /\ b \in Nat /\ y \in Nat
      BY <1>4, <2>5, <2>6
    <3> HIDE DEF a, b, y
    <3>2. a = b
      BY <3>1 DEF Holds
    <3> QED
      BY <3>2 DEF a, b
  <2> QED
    BY <2>4, <2>7
<1> QED
  BY <1>2, <1>3, <1>4, <1>5

\* The states of the loop that decodes.
DecStates == [ok : BOOLEAN, buffer : Nat, bits : 0..7, out : ByteTexts]

\* An int has a width.
LEMMA WidthIs == IntWidth \in Nat \ {0}
<1>1. PICK n \in 13..IntBits : IntWidth = Power(2, n)
  BY WidthAssumption
<1>2. n \in 0..IntBits
  BY DEF IntBits
<1> QED
  BY <1>1, <1>2, PowersGrow

\* A letter more is read: with eight bits a byte is written.
LetterRead(t, s, letter) ==
    LET z == (s.buffer * Power(2, 5) + letter) % IntWidth
    IN  /\ t.ok = s.ok /\ t.buffer = z
        /\ s.bits < 3 => t.bits = s.bits + 5 /\ t.out = s.out
        /\ s.bits >= 3 => t.bits = s.bits - 3 /\ t.out = Append(s.out, Digit(z, s.bits - 3, 8))

\* Taking a letter gives the next state.
LEMMA LetterTaken ==
    ASSUME NEW s \in DecStates, NEW letter \in Nat
    PROVE  DecodeLetter(s, letter) \in DecStates /\ LetterRead(DecodeLetter(s, letter), s, letter)
<1> DEFINE z == (s.buffer * 32 + letter) % IntWidth
           b == s.bits + 5
           u == b - 8
           t == DecodeLetter(s, letter)
<1>1. s.ok \in BOOLEAN /\ s.buffer \in Nat /\ s.bits \in 0..7 /\ s.out \in ByteTexts
  BY DEF DecStates
<1>2. Power(2, 5) = 32 /\ Power(2, 8) = 256
  BY Bits
<1>3. z \in Nat
  <2>1. s.buffer * 32 + letter \in Nat
    BY <1>1
  <2> QED
    BY <2>1, WidthIs, Divided
<1> HIDE DEF z
<1>4. CASE s.bits < 3
  <2>1. s.bits + 5 < 8 /\ ~(s.bits >= 3) /\ s.bits + 5 \in 0..7
    BY <1>1, <1>4
  <2>2. t = [s EXCEPT !.buffer = z, !.bits = s.bits + 5]
    BY <2>1, Zenon DEF DecodeLetter, z
  <2> HIDE DEF t
  <2>3. t \in DecStates /\ t.ok = s.ok /\ t.buffer = z /\ t.bits = s.bits + 5 /\ t.out = s.out
    BY <1>1, <1>3, <2>1, <2>2 DEF DecStates
  <2> QED
    BY <1>2, <2>1, <2>3 DEF LetterRead, z, t
<1>5. CASE s.bits >= 3
  <2>1. ~(s.bits + 5 < 8) /\ ~(s.bits < 3) /\ u \in 0..4 /\ u = s.bits - 3
    BY <1>1, <1>5
  <2> DEFINE d == (z \div Power(2, u)) % 256
  <2>2. t = [s EXCEPT !.buffer = z, !.bits = b - 8, !.out = Append(@, (z \div Power(2, b - 8)) % 256)]
    <3> DEFINE new == [s EXCEPT !.buffer = z, !.bits = b - 8, !.out = Append(@, (z \div Power(2, b - 8)) % 256)]
               old == [s EXCEPT !.buffer = z, !.bits = b]
    <3>1. t = IF b < 8 THEN old ELSE new
      BY Zenon DEF DecodeLetter, z
    <3> HIDE DEF old, new
    <3>2. t = new
      BY <2>1, <3>1
    <3> QED
      BY <3>2, Zenon DEF new
  <2>3. d \in 0..255
    <3>1. u \in 0..IntBits
      BY <2>1 DEF IntBits
    <3>2. Power(2, u) \in Nat \ {0}
      BY <3>1, PowersGrow
    <3>3. z \div Power(2, u) \in Nat
      BY <1>3, <3>2, Divided
    <3>4. 256 \in Nat \ {0}
      OBVIOUS
    <3>5. d \in Nat /\ d < 256
      BY <3>3, <3>4, Divided
    <3> HIDE DEF d
    <3> QED
      BY <3>5
  <2>4. d = Digit(z, s.bits - 3, 8)
    BY <1>2, <2>1 DEF Digit
  <2>a. t = [s EXCEPT !.buffer = z, !.bits = u, !.out = Append(s.out, d)]
    <3> HIDE DEF t, b
    <3> QED
      BY <2>2
  <2> HIDE DEF d, u, t
  <2>5. Append(s.out, d) \in ByteTexts
    BY <1>1, <2>3, AppendProperties DEF ByteTexts
  <2>6. /\ t \in DecStates /\ t.ok = s.ok /\ t.buffer = z /\ t.bits = s.bits - 3
        /\ t.out = Append(s.out, d)
    <3>1. u \in 0..7
      BY <2>1
    <3> QED
      BY <1>1, <1>3, <2>1, <2>a, <2>5, <3>1 DEF DecStates
  <2> QED
    BY <1>2, <2>1, <2>4, <2>6 DEF LetterRead, z, t
<1> QED
  BY <1>1, <1>4, <1>5

\* What the decoder has written and holds of the first k letters
Decoded(s, letters, k) ==
    /\ s \in DecStates /\ s.ok /\ 8 * Len(s.out) + s.bits = 5 * k
    /\ Holds(Reading(32, letters)[k], Power(2, s.bits), ReadAs(256, s.out), s.buffer)

\* Counting bits, a byte less.
LEMMA LessBits ==
    \A l, k \in Nat : \A b \in 0..7 :
        8 * l + b = 5 * k => 8 * l + (b + 5) = 5 * (k + 1) /\ 8 * (l + 1) + (b - 3) = 5 * (k + 1)
OBVIOUS

\* A letter more is decoded.
LEMMA LetterDecoded ==
    ASSUME NEW letters \in Seq(0..31), NEW k \in Nat, k + 1 <= Len(letters), NEW s,
           Decoded(s, letters, k)
    PROVE  Decoded(DecodeLetter(s, letters[k + 1]), letters, k + 1)
<1> DEFINE V == Reading(32, letters)
           W == ReadAs(256, s.out)
           d == letters[k + 1]
           t == DecodeLetter(s, d)
           z == (s.buffer * Power(2, 5) + d) % IntWidth
<1>1. letters \in Seq(Nat) /\ Len(letters) \in Nat /\ \A i \in 1..Len(letters) : letters[i] \in Nat /\ letters[i] <= 31
  BY Elements, 31 \in Nat
<1>2. k + 1 \in 1..Len(letters) /\ k + 1 - 1 = k /\ k \in 0..Len(letters)
  BY <1>1
<1>3. d \in Nat /\ d < 32 /\ V[k] \in Nat /\ V[k + 1] = V[k] * 32 + d
  <2>1. Reads(V, 32, letters)
    BY <1>1, ReadingIs
  <2>2. d \in Nat /\ d <= 31
    BY <1>1, <1>2
  <2>3. V[k] \in Nat
    BY <1>2, <2>1 DEF Reads
  <2>4. V[k + 1] = V[k + 1 - 1] * 32 + letters[k + 1]
    BY <1>2, <2>1 DEF Reads
  <2> HIDE DEF V
  <2> QED
    BY <1>2, <2>2, <2>3, <2>4
<1>4. /\ s \in DecStates /\ s.ok /\ 8 * Len(s.out) + s.bits = 5 * k
      /\ Holds(V[k], Power(2, s.bits), W, s.buffer)
  BY DEF Decoded
<1>5. s.ok \in BOOLEAN /\ s.buffer \in Nat /\ s.bits \in 0..7 /\ s.out \in ByteTexts
  BY <1>4 DEF DecStates
<1>6. s.out \in Seq(Nat) /\ Len(s.out) \in Nat
  BY <1>5, Elements, 255 \in Nat DEF ByteTexts
<1>7. W \in Nat
  <2>1. Reads(Reading(256, s.out), 256, s.out)
    BY <1>6, ReadingIs
  <2> QED
    BY <1>6, <2>1 DEF Reads, ReadAs
<1> HIDE DEF d, W, V
<1>8. t \in DecStates /\ LetterRead(t, s, d)
  BY <1>3, <1>4, LetterTaken
<1>9. Power(2, 0) = 1 /\ Power(2, 5) = 32 /\ Power(2, 8) = 256 /\ Pushed(z, s.buffer, 5, d)
  BY Bits DEF Pushed
<1>a. d < Power(2, 5) /\ 5 \in 0..8 /\ 0 \in 0..8 /\ 8 \in 0..8
  BY <1>3, <1>9
<1>b. /\ 8 * Len(s.out) + (s.bits + 5) = 5 * (k + 1)
      /\ 8 * (Len(s.out) + 1) + (s.bits - 3) = 5 * (k + 1)
  <2> DEFINE l == Len(s.out)
             b == s.bits
  <2>1. l \in Nat /\ b \in 0..7 /\ 8 * l + b = 5 * k
    BY <1>4, <1>5, <1>6
  <2> HIDE DEF l, b
  <2>2. 8 * l + (b + 5) = 5 * (k + 1) /\ 8 * (l + 1) + (b - 3) = 5 * (k + 1)
    BY <2>1, LessBits
  <2> QED
    BY <2>2 DEF l, b
<1> HIDE DEF t, z
<1>10. CASE s.bits < 3
  <2> DEFINE u == s.bits + 5
  <2>1. s.bits \in 0..8 /\ u \in 0..12 /\ s.bits + 5 = u + 0 /\ s.bits + 5 <= 13
    BY <1>5
  <2> HIDE DEF u
  <2>2. Pulled(V[k], W, d, 5, u, 0, z)
    <3>1. PICK e \in 0..8, w \in 0..8 : e = 5 /\ w = 0
      BY <1>a
    <3>2. s.bits + e = u + w /\ s.bits + e <= 13 /\ d < Power(2, e) /\ Pushed(z, s.buffer, e, d)
      BY <1>9, <1>a, <2>1, <3>1
    <3>3. Pulled(V[k], W, d, e, u, w, z)
      BY <1>3, <1>4, <1>5, <1>7, <2>1, <3>2, RoundHolds
    <3> QED
      BY <3>1, <3>3
  <2> DEFINE x == Digit(z, u, 0)
  <2>3. x \in Nat /\ x < 1 /\ Holds(V[k] * 32 + d, Power(2, u), W * 1 + x, z)
    BY <1>9, <2>2 DEF Pulled
  <2> HIDE DEF x
  <2>4. W * 1 + x = W
    BY <1>7, <2>3
  <2>5. t.ok = s.ok /\ t.buffer = z /\ t.bits = u /\ t.out = s.out
    BY <1>8, <1>10 DEF LetterRead, z, u
  <2>6. 8 * Len(t.out) + t.bits = 5 * (k + 1)
    BY <1>b, <2>5 DEF u
  <2>7. Holds(V[k + 1], Power(2, t.bits), ReadAs(256, t.out), t.buffer)
    BY <1>3, <2>3, <2>4, <2>5 DEF W
  <2> QED
    BY <1>4, <1>8, <2>5, <2>6, <2>7 DEF Decoded, V, t, d
<1>11. CASE s.bits >= 3
  <2> DEFINE u == s.bits - 3
  <2>1. s.bits \in 0..8 /\ u \in 0..12 /\ s.bits + 5 = u + 8 /\ s.bits + 5 <= 13
    BY <1>5, <1>11
  <2> HIDE DEF u
  <2>2. Pulled(V[k], W, d, 5, u, 8, z)
    <3>1. PICK e \in 0..8, w \in 0..8 : e = 5 /\ w = 8
      BY <1>a
    <3>2. s.bits + e = u + w /\ s.bits + e <= 13 /\ d < Power(2, e) /\ Pushed(z, s.buffer, e, d)
      BY <1>9, <1>a, <2>1, <3>1
    <3>3. Pulled(V[k], W, d, e, u, w, z)
      BY <1>3, <1>4, <1>5, <1>7, <2>1, <3>2, RoundHolds
    <3> QED
      BY <3>1, <3>3
  <2> DEFINE x == Digit(z, u, 8)
  <2>3. x \in Nat /\ x < 256 /\ Holds(V[k] * 32 + d, Power(2, u), W * 256 + x, z)
    BY <1>9, <2>2 DEF Pulled
  <2>4. t.ok = s.ok /\ t.buffer = z /\ t.bits = u /\ t.out = Append(s.out, x)
    BY <1>8, <1>11 DEF LetterRead, z, u
  <2> HIDE DEF x
  <2>5. Len(t.out) = Len(s.out) + 1
    BY <1>5, <2>4, AppendProperties DEF ByteTexts
  <2>6. 8 * Len(t.out) + t.bits = 5 * (k + 1)
    BY <1>b, <2>4, <2>5 DEF u
  <2>7. ReadAs(256, Append(s.out, x)) = W * 256 + x
    BY <1>6, <2>3, 256 \in Nat, ReadingAppend DEF W
  <2>8. Holds(V[k + 1], Power(2, t.bits), ReadAs(256, t.out), t.buffer)
    BY <1>3, <2>3, <2>4, <2>7
  <2> QED
    BY <1>4, <1>8, <2>4, <2>6, <2>8 DEF Decoded, V, t, d
<1> QED
  BY <1>5, <1>10, <1>11

\* The loop takes one character after the other.
LEMMA DecodingIs ==
    ASSUME NEW word \in Seq(Nat), NEW size \in Nat
    PROVE  LET c == Decoding(word, size)
           IN  c[0] = DecodeStart /\ \A k \in 1..Len(word) : c[k] = DecodeRound(c[k - 1], word[k], size)
<1> DEFINE N == Len(word)
           step == [p \in (1..N) \X DecStates |-> DecodeRound(p[2], word[p[1]], size)]
           Is(f) == f = [k \in 0..N |-> IF k = 0 THEN DecodeStart ELSE DecodeRound(f[k - 1], word[k], size)]
           c == Decoding(word, size)
<1>1. N \in Nat /\ \A k \in 1..N : k \in 0..N /\ k - 1 \in 0..N /\ k # 0 /\ word[k] \in Nat
  OBVIOUS
<1>2. DecodeStart \in DecStates
  BY DEF DecodeStart, DecStates, ByteTexts
<1>3. ASSUME NEW s \in DecStates, NEW ch \in Nat PROVE DecodeRound(s, ch, size) \in DecStates
  <2>1. ch % 32 \in Nat
    OBVIOUS
  <2>2. DecodeLetter(s, ch % 32) \in DecStates
    BY <2>1, LetterTaken
  <2>3. [s EXCEPT !.ok = FALSE] \in DecStates
    BY DEF DecStates
  <2> QED
    BY <2>2, <2>3 DEF DecodeRound
<1> HIDE DEF N
<1>4. ASSUME NEW k \in 1..N, NEW s \in DecStates
      PROVE  step[<<k, s>>] = DecodeRound(s, word[k], size)
  OBVIOUS
<1>5. Steps(N, DecStates, DecodeStart, step)
  BY <1>1, <1>2, <1>3 DEF Steps
<1> HIDE DEF step
<1>6. PICK f : Recurs(f, N, DecStates, DecodeStart, step)
  BY <1>5, Recursion, Zenon
<1>7. ASSUME NEW k \in 0..N
      PROVE  f[k] = IF k = 0 THEN DecodeStart ELSE DecodeRound(f[k - 1], word[k], size)
  <2>1. CASE k = 0
    BY <1>6, <2>1 DEF Recurs
  <2>2. CASE k \in 1..N
    <3>1. f[k - 1] \in DecStates /\ f[k] = step[<<k, f[k - 1]>>] /\ k # 0
      BY <1>1, <1>6, <2>2 DEF Recurs
    <3> QED
      BY <1>4, <2>2, <3>1
  <2> QED
    BY <1>1, <2>1, <2>2
<1>8. Is(f)
  BY <1>6, <1>7 DEF Recurs
<1>9. Is(c)
  BY <1>8, Zenon DEF Decoding, N
<1> HIDE DEF c
<1>10. c[0] = DecodeStart /\ \A k \in 1..N : c[k] = DecodeRound(c[k - 1], word[k], size)
  <2>1. 0 \in 0..N
    BY <1>1
  <2> QED
    BY <1>1, <1>9, <2>1
<1> QED
  BY <1>10 DEF c, N

\* The letters as they are typed: m[i] of them are among the first i chars.
IsTyped(word, letters, m) ==
    /\ word \in Seq(Nat) /\ m \in [0..Len(word) -> 0..Len(letters)]
    /\ m[0] = 0 /\ m[Len(word)] = Len(letters)
    /\ \A i \in 1..Len(word) :
          \/ word[i] = Separator /\ m[i] = m[i - 1]
          \/ /\ word[i] \notin {Separator, Unknown} /\ m[i] = m[i - 1] + 1
             /\ word[i] % 32 = letters[m[i]]

\* The output is not full before the last letter.
LEMMA NotFull ==
    \A l, k, K, size \in Nat : \A b \in 0..7 :
        8 * l + b = 5 * k /\ k <= K /\ 5 * K < 8 * size => l < size
OBVIOUS

\* The decoder takes what is typed for the letters, as long as its buffer has room for them.
LEMMA TypedDecoded ==
    ASSUME NEW letters \in Seq(0..31), NEW word, NEW m, IsTyped(word, letters, m), NEW size \in Nat,
           5 * Len(letters) < 8 * size
    PROVE  Decoded(base32_decode(word, size), letters, Len(letters))
<1> DEFINE c == Decoding(word, size)
           N == Len(word)
           S == {i \in Nat : Decoded(c[i], letters, m[i])}
<1>1. /\ word \in Seq(Nat) /\ N \in Nat /\ m \in [0..N -> 0..Len(letters)] /\ Len(letters) \in Nat
      /\ m[0] = 0 /\ m[N] = Len(letters)
  BY LenProperties DEF IsTyped
<1>a. \A i \in 0..N : m[i] \in 0..Len(letters) /\ m[i] \in Nat
  <2>1. \A i \in 0..N : m[i] \in 0..Len(letters)
    BY <1>1
  <2>2. \A x \in 0..Len(letters) : x \in Nat
    BY <1>1
  <2> QED
    BY <2>1, <2>2
<1>2. c[0] = DecodeStart /\ \A k \in 1..N : c[k] = DecodeRound(c[k - 1], word[k], size)
  BY <1>1, DecodingIs
<1> HIDE DEF c
<1>3. 0 \in S
  <2>1. c[0].ok = TRUE /\ c[0].buffer = 0 /\ c[0].bits = 0 /\ c[0].out = <<>> /\ c[0] \in DecStates
    BY <1>2 DEF DecodeStart, DecStates, ByteTexts
  <2>2. <<>> \in Seq(Nat) /\ Len(<<>>) = 0
    OBVIOUS
  <2>3. ReadAs(256, <<>>) = 0
    BY ReadsNothing, 256 \in Nat
  <2>4. Reading(32, letters)[0] = 0
    <3>1. letters \in Seq(Nat)
      BY Elements, 31 \in Nat
    <3> QED
      BY <3>1, ReadingIs DEF Reads
  <2>5. Holds(0, 1, 0, 0)
    BY DEF Holds
  <2>6. Decoded(c[0], letters, 0)
    BY <2>1, <2>2, <2>3, <2>4, <2>5, Bits DEF Decoded
  <2> QED
    BY <1>1, <2>6
<1>4. ASSUME NEW n \in 0..(N - 1), n \in S PROVE n + 1 \in S
  <2> DEFINE s == c[n]
             k == m[n]
             ch == word[n + 1]
  <2>1. n + 1 \in 1..N /\ n + 1 - 1 = n /\ n \in 0..N /\ n + 1 \in 0..N
    BY <1>1
  <2>2. Decoded(s, letters, k) /\ k \in 0..Len(letters) /\ k \in Nat
    BY <1>a, <1>4, <2>1
  <2>3. c[n + 1] = DecodeRound(s, ch, size)
    BY <1>2, <2>1
  <2>4. \/ ch = Separator /\ m[n + 1] = k
        \/ /\ ch \notin {Separator, Unknown} /\ m[n + 1] = k + 1
           /\ ch % 32 = letters[m[n + 1]]
    BY <2>1 DEF IsTyped
  <2>5. m[n + 1] \in 0..Len(letters)
    BY <1>a, <2>1
  <2> HIDE DEF s, k, ch
  <2>6. CASE ch = Separator /\ m[n + 1] = k
    <3>1. DecodeRound(s, ch, size) = s
      BY <2>6 DEF DecodeRound
    <3> QED
      BY <2>1, <2>2, <2>3, <2>6, <3>1
  <2>7. CASE ch \notin {Separator, Unknown} /\ m[n + 1] = k + 1 /\ ch % 32 = letters[m[n + 1]]
    <3>1. s.ok /\ s.bits \in 0..7 /\ Len(s.out) \in Nat /\ 8 * Len(s.out) + s.bits = 5 * k
      <4>1. s \in DecStates
        BY <2>2 DEF Decoded
      <4>2. s.out \in ByteTexts /\ s.bits \in 0..7
        BY <4>1 DEF DecStates
      <4> QED
        BY <2>2, <4>2, LenProperties DEF Decoded, ByteTexts
    <3>2. k + 1 <= Len(letters) /\ k <= Len(letters)
      BY <1>1, <2>2, <2>5, <2>7
    <3>3. Len(s.out) < size
      BY <1>1, <2>2, <3>1, <3>2, NotFull
    <3>4. ~(Len(s.out) >= size)
      BY <3>1, <3>3
    <3>5. DecodeRound(s, ch, size) = DecodeLetter(s, letters[k + 1])
      BY <2>7, <3>1, <3>4 DEF DecodeRound
    <3>6. Decoded(DecodeLetter(s, letters[k + 1]), letters, k + 1)
      BY <2>2, <3>2, LetterDecoded
    <3> QED
      BY <2>1, <2>3, <2>7, <3>5, <3>6
  <2> QED
    BY <2>4, <2>6, <2>7
<1>5. N \in S
  <2> HIDE DEF S
  <2>1. 0..N \subseteq S
    <3> HIDE DEF N
    <3> QED
      BY <1>1, <1>3, <1>4, AllUpTo
  <2> QED
    BY <1>1, <2>1
<1> QED
  BY <1>1, <1>5 DEF base32_decode, c

\* As many bytes come back as went in.
LEMMA AsManyBytes ==
    \A a, l, K \in Nat : \A b \in 0..7 : \A q \in 0..4 :
        8 * a + b = 5 * K /\ 5 * K = 8 * l + q => a = l /\ b = q
OBVIOUS

\* What is typed for the encoder's letters decodes to the data.
LEMMA DecodesBack ==
    ASSUME NEW data \in ByteTexts, NEW letters \in Seq(0..31), NEW p \in 0..4,
           5 * Len(letters) = 8 * Len(data) + p,
           ReadAs(32, letters) = ReadAs(256, data) * Power(2, p),
           NEW word, NEW m, IsTyped(word, letters, m)
    PROVE  LET r == base32_decode(word, Len(data) + 1) IN r.ok /\ r.out = data
<1> DEFINE r == base32_decode(word, Len(data) + 1)
           v == ReadAs(256, data)
           x == ReadAs(256, r.out)
<1>1. Len(data) \in Nat /\ Len(letters) \in Nat /\ data \in Seq(Nat)
  <2>1. data \in Seq(Nat) /\ Len(data) \in Nat
    BY Elements, 255 \in Nat DEF ByteTexts
  <2> QED
    BY <2>1, LenProperties
<1>2. 5 * Len(letters) < 8 * (Len(data) + 1) /\ Len(data) + 1 \in Nat
  BY <1>1
<1>3. Decoded(r, letters, Len(letters))
  BY <1>2, TypedDecoded
<1> HIDE DEF r
<1>4. r \in DecStates /\ r.ok /\ 8 * Len(r.out) + r.bits = 5 * Len(letters)
  BY <1>3 DEF Decoded
<1>5. r.buffer \in Nat /\ r.bits \in 0..7 /\ r.out \in ByteTexts
  BY <1>4 DEF DecStates
<1>6. r.out \in Seq(Nat) /\ Len(r.out) \in Nat
  BY <1>5, Elements, 255 \in Nat DEF ByteTexts
<1>7. Len(r.out) = Len(data) /\ r.bits = p
  <2> DEFINE a == Len(r.out)
             l == Len(data)
             K == Len(letters)
             b == r.bits
  <2>1. a \in Nat /\ l \in Nat /\ K \in Nat /\ b \in 0..7 /\ 8 * a + b = 5 * K /\ 5 * K = 8 * l + p
    BY <1>1, <1>4, <1>5, <1>6
  <2> HIDE DEF a, l, K, b
  <2>2. a = l /\ b = p
    BY <2>1, AsManyBytes
  <2> QED
    BY <2>2 DEF a, l, b
<1>8. v \in Nat /\ x \in Nat
  <2>1. Reads(Reading(256, data), 256, data) /\ Reads(Reading(256, r.out), 256, r.out)
    BY <1>1, <1>6, ReadingIs
  <2> QED
    BY <1>1, <1>6, <2>1 DEF Reads, ReadAs
<1>9. Power(2, p) \in Nat \ {0}
  <2>1. p \in 0..IntBits
    BY DEF IntBits
  <2> QED
    BY <2>1, PowersGrow
<1>10. Holds(v * Power(2, p), Power(2, p), x, r.buffer)
  <2>1. ReadAs(32, letters) = v * Power(2, p)
    OBVIOUS
  <2> HIDE DEF v, x
  <2>2. Holds(Reading(32, letters)[Len(letters)], Power(2, p), x, r.buffer)
    BY <1>3, <1>7 DEF Decoded, x
  <2> QED
    BY <2>1, <2>2 DEF ReadAs
<1>11. v = x
  <2> DEFINE P == Power(2, p)
             q == r.buffer % P
  <2>1. q \in Nat /\ q < P /\ v * P = P * x + q /\ P \in Nat \ {0}
    BY <1>5, <1>9, <1>10, Divided DEF Holds
  <2> HIDE DEF P, q, v, x
  <2>2. (P * x + q) \div P = x
    BY <1>8, <2>1, DividedUnique
  <2>3. P * v + 0 = P * x + q
    BY <1>8, <2>1
  <2>4. (P * v + 0) \div P = v
    <3>1. 0 \in Nat /\ 0 < P
      BY <2>1
    <3> QED
      BY <1>8, <2>1, <3>1, DividedUnique
  <2> QED
    BY <2>2, <2>3, <2>4
<1>12. r.out = data
  <2>1. \A i \in 1..Len(data) : data[i] < 256 /\ r.out[i] < 256
    <3>1. \A i \in 1..Len(data) : data[i] \in Nat /\ data[i] <= 255
      BY Elements, 255 \in Nat DEF ByteTexts
    <3>2. \A i \in 1..Len(data) : r.out[i] \in Nat /\ r.out[i] <= 255
      BY <1>5, <1>7, Elements, 255 \in Nat DEF ByteTexts
    <3> QED
      BY <3>1, <3>2
  <2>2. 256 \in Nat \ {0}
    OBVIOUS
  <2> QED
    BY <1>1, <1>6, <1>7, <1>11, <2>1, <2>2, SameDigits
<1> QED
  BY <1>4, <1>12 DEF r

\* A letter in either case is that letter.
LEMMA LetterIs ==
    \A x \in Nat : x <= 31 => /\ x % 32 = x /\ (x + 32) % 32 = x
                              /\ x \notin {Separator, Unknown} /\ x + 32 \notin {Separator, Unknown}
BY DEF Separator, Unknown

\* A typed text is the letters, with separators in between.
LEMMA TypedIs ==
    ASSUME NEW letters \in Seq(0..31), NEW word \in Typed(letters)
    PROVE  \E m : IsTyped(word, letters, m)
<1> DEFINE K == Len(letters)
           id == [i \in 0..K |-> i]
<1>1. letters \in Seq(Nat) /\ K \in Nat /\ \A i \in 1..K : letters[i] \in Nat /\ letters[i] <= 31
  BY Elements, 31 \in Nat
<1>2. \A i \in 1..K : /\ letters[i] % 32 = letters[i] /\ (letters[i] + 32) % 32 = letters[i]
                      /\ letters[i] \notin {Separator, Unknown}
                      /\ letters[i] + 32 \notin {Separator, Unknown}
  BY <1>1, LetterIs
<1>3. id \in [0..K -> 0..K] /\ id[0] = 0 /\ id[K] = K /\ \A i \in 1..K : id[i] = i /\ id[i] = id[i - 1] + 1
  BY <1>1
<1> HIDE DEF id, K
<1>4. CASE word = letters
  <2>1. IsTyped(word, letters, id)
    BY <1>1, <1>2, <1>3, <1>4 DEF IsTyped, K
  <2> QED
    BY <2>1
<1>5. CASE word = [i \in 1..K |-> letters[i] + 32]
  <2>1. word \in Seq(Nat) /\ Len(word) = K
    <3>1. word \in [1..K -> Nat]
      BY <1>1, <1>5
    <3> QED
      BY <1>1, <3>1, AsSequence
  <2>2. \A i \in 1..K : word[i] = letters[i] + 32
    BY <1>5
  <2>3. \A i \in 1..K : word[i] \notin {Separator, Unknown} /\ word[i] % 32 = letters[id[i]]
    BY <1>2, <1>3, <2>2
  <2>4. IsTyped(word, letters, id)
    BY <1>3, <2>1, <2>3 DEF IsTyped, K
  <2> QED
    BY <2>4
<1>6. ASSUME NEW place \in 1..(K + 1),
             word = [i \in 1..(K + 1) |-> IF i < place THEN letters[i]
                                          ELSE IF i = place THEN Separator ELSE letters[i - 1]]
      PROVE  \E m : IsTyped(word, letters, m)
  <2> DEFINE m == [i \in 0..(K + 1) |-> IF i < place THEN i ELSE i - 1]
  <2>1. m \in [0..(K + 1) -> 0..K] /\ m[0] = 0 /\ m[K + 1] = K
    BY <1>1
  <2>2. \A i \in 1..(K + 1) : /\ i < place => m[i] = i /\ m[i - 1] = i - 1 /\ i \in 1..K
                              /\ i = place => m[i] = m[i - 1]
                              /\ i > place => m[i] = i - 1 /\ m[i - 1] = i - 2 /\ i - 1 \in 1..K
    BY <1>1
  <2> HIDE DEF m
  <2>3. \A i \in 1..(K + 1) : word[i] = IF i < place THEN letters[i]
                                        ELSE IF i = place THEN Separator ELSE letters[i - 1]
    BY <1>6
  <2>4. word \in Seq(Nat) /\ Len(word) = K + 1
    <3>1. \A i \in 1..(K + 1) : word[i] \in Nat
      BY <1>1, <2>2, <2>3 DEF Separator
    <3>2. word \in [1..(K + 1) -> Nat]
      BY <1>6, <3>1
    <3>3. K + 1 \in Nat
      BY <1>1
    <3> QED
      BY <3>2, <3>3, AsSequence
  <2>5. ASSUME NEW i \in 1..(K + 1)
        PROVE  \/ word[i] = Separator /\ m[i] = m[i - 1]
               \/ /\ word[i] \notin {Separator, Unknown} /\ m[i] = m[i - 1] + 1
                  /\ word[i] % 32 = letters[m[i]]
    <3>1. CASE i < place
      <4>1. word[i] = letters[i] /\ m[i] = i /\ m[i - 1] = i - 1 /\ i \in 1..K
        BY <2>2, <2>3, <3>1
      <4>2. m[i] = m[i - 1] + 1
        BY <1>1, <4>1
      <4> QED
        BY <1>2, <4>1, <4>2
    <3>2. CASE i = place
      BY <2>2, <2>3, <3>2
    <3>3. CASE i > place
      <4>1. word[i] = letters[i - 1]
        BY <1>1, <2>3, <3>3
      <4>2. m[i] = i - 1 /\ m[i - 1] = i - 2 /\ i - 1 \in 1..K
        BY <2>2, <3>3
      <4>3. m[i] = m[i - 1] + 1
        BY <1>1, <4>2
      <4>4. letters[i - 1] \notin {Separator, Unknown} /\ letters[i - 1] % 32 = letters[i - 1]
        BY <1>2, <4>2
      <4> QED
        BY <4>1, <4>2, <4>3, <4>4
    <3> QED
      BY <1>1, <3>1, <3>2, <3>3
  <2>6. IsTyped(word, letters, m)
    BY <2>1, <2>4, <2>5 DEF IsTyped, K
  <2> QED
    BY <2>6
<1>7. \/ word = letters \/ word = [i \in 1..K |-> letters[i] + 32]
      \/ \E place \in 1..(K + 1) :
            word = [i \in 1..(K + 1) |-> IF i < place THEN letters[i]
                                         ELSE IF i = place THEN Separator ELSE letters[i - 1]]
  BY Zenon DEF Typed, K
<1> QED
  BY <1>4, <1>5, <1>6, <1>7

\* There and back: whatever is typed in between, if the encoder had room to end its text.
LEMMA Base32Back ==
    ASSUME NEW data \in ByteTexts, NEW size \in Nat,
           Len(base32_encode(data, size)) < size, NEW word \in Typed(base32_encode(data, size))
    PROVE  LET r == base32_decode(word, Len(data) + 1) IN r.ok /\ r.out = data
<1> DEFINE out == base32_encode(data, size)
<1>1. out \in Seq(0..31)
  BY EncodedText
<1>2. PICK p \in 0..4 : /\ 5 * Len(out) = 8 * Len(data) + p
                        /\ ReadAs(32, out) = ReadAs(256, data) * Power(2, p)
  BY EncodedText
<1> HIDE DEF out
<1>3. PICK m : IsTyped(word, out, m)
  BY <1>1, TypedIs DEF out
<1> QED
  BY <1>1, <1>2, <1>3, DecodesBack

-----------------------------------------------------------------------------
(* The code pages *)

\* A byte that does not end a text
Bytes1 == Nat \ {0}

\* An entry of the table is at most two bytes, and none of them ends a text.
LEMMA EntryIs ==
    ASSUME NEW i \in 0..79, i # 66
    PROVE  /\ Written(i) \in Seq(Bytes1) /\ Len(Written(i)) <= 2
           /\ i \notin {11, 79} => Entry(i) = <<1, 1>>
<1>1. \hF2 - \hB0 = 66 /\ \h8B - \h80 = 11
  OBVIOUS
<1>2. Entry(i) = IF i \in {11, 79} THEN <<1, 0>> ELSE <<1, 1>>
  BY <1>1 DEF Entry
<1>3. <<1, 1>> \in Seq(Bytes1) /\ Len(<<1, 1>>) = 2 /\ <<1>> \in Seq(Bytes1) /\ Len(<<1>>) = 1
  BY DEF Bytes1
<1>4. CASE i \in {11, 79}
  <2>1. Written(i) = <<1>>
    BY <1>2, <1>4 DEF Written
  <2> QED
    BY <1>3, <1>4, <2>1
<1>5. CASE i \notin {11, 79}
  <2>1. Written(i) = <<1, 1>>
    BY <1>2, <1>5 DEF Written
  <2> QED
    BY <1>2, <1>3, <1>5, <2>1
<1> QED
  BY <1>4, <1>5

\* At most b bytes of a text.
Piece(s, b) == s \in Seq(Bytes1) /\ Len(s) <= b

\* A character of the Iran System page becomes at most four bytes.
LEMMA IranSystemChar ==
    ASSUME NEW c \in 1..255
    PROVE  Piece(iransystem_char(c), 4)
<1>1. <<c>> \in Seq(Bytes1) /\ Len(<<c>>) = 1 /\ <<1>> \in Seq(Bytes1) /\ Len(<<1>>) = 1
  BY DEF Bytes1
<1>2. CASE c <= 127
  BY <1>1, <1>2 DEF iransystem_char, Piece
<1>3. CASE c > 127 /\ c <= 175
  <2>1. c - 128 \in 0..79 /\ c - 128 # 66
    BY <1>3
  <2>2. Written(c - 128) \in Seq(Bytes1) /\ Len(Written(c - 128)) <= 2
    BY <2>1, EntryIs
  <2>3. iransystem_char(c) = Written(c - 128)
    BY <1>3 DEF iransystem_char
  <2> QED
    BY <2>2, <2>3, LenProperties DEF Piece
<1>4. CASE c = 242
  <2>1. Entry(65) = <<1, 1>> /\ Entry(17) = <<1, 1>>
    BY EntryIs
  <2>a. \hF1 - \hB0 = 65 /\ \h91 - \h80 = 17 /\ ~(c <= \h7F) /\ ~(c <= \hAF) /\ Ligature(c)
    BY <1>4 DEF Ligature
  <2>b. iransystem_char(c) = Entry(\hF1 - \hB0) \o Entry(\h91 - \h80)
    BY <2>a, Zenon DEF iransystem_char
  <2>2. iransystem_char(c) = <<1, 1>> \o <<1, 1>>
    BY <2>1, <2>a, <2>b
  <2>3. <<1, 1>> \o <<1, 1>> \in Seq(Bytes1) /\ Len(<<1, 1>> \o <<1, 1>>) = 4
    BY DEF Bytes1
  <2> QED
    BY <2>2, <2>3 DEF Piece
<1>5. CASE c > 175 /\ c # 242 /\ c >= 224 /\ c <= 254
  <2>1. c - 176 \in 0..79 /\ c - 176 # 66
    BY <1>5
  <2>2. Written(c - 176) \in Seq(Bytes1) /\ Len(Written(c - 176)) <= 2
    BY <2>1, EntryIs
  <2>3. iransystem_char(c) = Written(c - 176)
    BY <1>5 DEF iransystem_char, Ligature
  <2> QED
    BY <2>2, <2>3, LenProperties DEF Piece
<1>6. CASE c > 175 /\ c # 242 /\ ~(c >= 224 /\ c <= 254)
  <2>1. iransystem_char(c) = <<1>>
    BY <1>6 DEF iransystem_char, Ligature
  <2> QED
    BY <1>1, <2>1 DEF Piece
<1> QED
  BY <1>2, <1>3, <1>4, <1>5, <1>6

\* A char of the other code page that the table has an entry for
LEMMA OtherPageIs ==
    ASSUME NEW c
    PROVE  OtherPage(c) \in 128..255 /\ OtherPage(c) # 242
<1>1. \A m \in windows1256_map : m[2] \in 128..255 /\ m[2] # 242
  BY DEF windows1256_map
<1> QED
  BY <1>1 DEF OtherPage

\* A character of the Windows page becomes at most two bytes.
LEMMA WindowsChar ==
    ASSUME NEW c \in 1..255
    PROVE  Piece(windows1256_char(c), 2)
<1>1. <<c>> \in Seq(Bytes1) /\ Len(<<c>>) = 1
  BY DEF Bytes1
<1>2. CASE c <= 127
  BY <1>1, <1>2 DEF windows1256_char, Piece
<1>3. CASE c > 127
  <2> DEFINE o == OtherPage(c)
             i == iransystem_to_utf8_index(o)
  <2>1. o \in 128..255 /\ o # 242
    BY OtherPageIs
  <2> HIDE DEF o
  <2>2. i \in 0..79 /\ i # 66
    BY <2>1 DEF iransystem_to_utf8_index
  <2> HIDE DEF i
  <2>3. windows1256_char(c) = Written(i)
    BY <1>3 DEF windows1256_char, i, o
  <2> QED
    BY <2>2, <2>3, EntryIs DEF Piece
<1> QED
  BY <1>2, <1>3

\* The texts, and joining two of them.
Texts == Seq(Bytes1)
Together(t, s, p) == t = s \o p

\* The text of a loop: no byte of it ends it, and it is as long as the pieces at most.
LEMMA AppendedIs ==
    ASSUME NEW n \in Nat, NEW pieces \in [1..n -> Texts], NEW b \in Nat,
           \A k \in 1..n : Len(pieces[k]) <= b
    PROVE  Appended(pieces)[n] \in Texts /\ Len(Appended(pieces)[n]) <= b * n
<1> DEFINE step == [p \in (1..n) \X Texts |-> p[2] \o pieces[p[1]]]
           Is(f) == f = [k \in 0..n |-> IF k = 0 THEN <<>> ELSE f[k - 1] \o pieces[k]]
           c == Appended(pieces)
<1>1. \A k \in 1..n : k \in 0..n /\ k - 1 \in 0..n /\ k # 0 /\ pieces[k] \in Texts
  OBVIOUS
<1>2. Len(pieces) = n
  <2>1. pieces \in Seq(Texts) /\ Len(pieces) = n
    BY AsSequence
  <2> QED
    BY <2>1
<1>3. /\ <<>> \in Texts /\ Len(<<>>) = 0 /\ \A s \in Texts : Len(s) \in Nat
      /\ \A s, t \in Texts : s \o t \in Texts /\ Len(s \o t) = Len(s) + Len(t)
  BY ConcatProperties, LenProperties DEF Texts
<1>a. \A s, p \in Texts : \A t : Together(t, s, p) => t \in Texts /\ Len(t) = Len(s) + Len(p)
  BY <1>3, Zenon DEF Together
<1> HIDE DEF Texts
<1>4. ASSUME NEW k \in 1..n, NEW s \in Texts PROVE step[<<k, s>>] = s \o pieces[k]
  OBVIOUS
<1>5. Steps(n, Texts, <<>>, step)
  <2>1. \A p \in (1..n) \X Texts : p[2] \o pieces[p[1]] \in Texts
    BY <1>1, <1>3
  <2>2. step \in [(1..n) \X Texts -> Texts]
    BY <2>1
  <2> HIDE DEF step
  <2> QED
    BY <1>3, <2>2 DEF Steps
<1> HIDE DEF step
<1>6. PICK f : Recurs(f, n, Texts, <<>>, step)
  BY <1>5, Recursion, Zenon
<1>7. ASSUME NEW k \in 0..n PROVE f[k] = IF k = 0 THEN <<>> ELSE f[k - 1] \o pieces[k]
  <2>1. CASE k = 0
    BY <1>6, <2>1 DEF Recurs
  <2>2. CASE k \in 1..n
    <3>1. f[k - 1] \in Texts /\ f[k] = step[<<k, f[k - 1]>>] /\ k # 0
      BY <1>1, <1>6, <2>2 DEF Recurs
    <3> QED
      BY <1>4, <2>2, <3>1
  <2> QED
    BY <2>1, <2>2
<1>8. Is(f)
  BY <1>6, <1>7 DEF Recurs
<1>9. Is(c)
  BY <1>2, <1>8, Zenon DEF Appended
<1> HIDE DEF c
<1>10. c[0] = <<>> /\ \A k \in 1..n : c[k] = c[k - 1] \o pieces[k]
  <2>1. 0 \in 0..n
    OBVIOUS
  <2> QED
    BY <1>1, <1>9, <2>1
<1>b. \A k \in 1..n : Together(c[k], c[k - 1], pieces[k])
  BY <1>10 DEF Together
<1> DEFINE S == {k \in Nat : c[k] \in Texts /\ Len(c[k]) <= b * k}
<1>11. 0 \in S
  BY <1>3, <1>10
<1>12. ASSUME NEW k \in 0..(n - 1), k \in S PROVE k + 1 \in S
  <2>1. PICK j \in 1..n : j = k + 1 /\ j - 1 = k /\ j \in Nat
    OBVIOUS
  <2>2. c[k] \in Texts /\ Len(c[k]) <= b * k
    BY <1>12
  <2>3. Together(c[j], c[k], pieces[j]) /\ pieces[j] \in Texts /\ Len(pieces[j]) <= b
    BY <1>1, <1>b, <2>1
  <2>4. c[j] \in Texts /\ Len(c[j]) = Len(c[k]) + Len(pieces[j])
    BY <1>a, <2>2, <2>3
  <2> DEFINE x == Len(c[k])
             y == Len(pieces[j])
  <2>5. x \in Nat /\ y \in Nat /\ x <= b * k /\ y <= b
    BY <1>3, <2>2, <2>3
  <2> HIDE DEF x, y
  <2>6. x + y <= b * (k + 1)
    <3>1. b * (k + 1) = b * k + b /\ b * k \in Nat
      OBVIOUS
    <3> QED
      BY <2>5, <3>1
  <2>7. Len(c[j]) <= b * j
    BY <2>1, <2>4, <2>6 DEF x, y
  <2>8. j \in S
    BY <2>1, <2>4, <2>7
  <2> QED
    BY <2>1, <2>8
<1> HIDE DEF S
<1>13. 0..n \subseteq S
  BY <1>11, <1>12, AllUpTo
<1>14. n \in S
  BY <1>13
<1> QED
  BY <1>14 DEF S, c

\* Either code page: no byte of the text ends it, and there is a bound for its length.
LEMMA PagesStayInside ==
    ASSUME NEW src \in Seq(1..255)
    PROVE  /\ \A k \in 1..Len(iransystem_to_utf_8(src)) : iransystem_to_utf_8(src)[k] # 0
           /\ Len(iransystem_to_utf_8(src)) <= Len(src) * 4
           /\ \A k \in 1..Len(windows1256_to_utf8(src)) : windows1256_to_utf8(src)[k] # 0
           /\ Len(windows1256_to_utf8(src)) <= Len(src) * 2
<1> DEFINE n == Len(src)
           i == [k \in 1..n |-> iransystem_char(src[k])]
           w == [k \in 1..n |-> windows1256_char(src[k])]
<1>1. n \in Nat /\ \A k \in 1..n : src[k] \in 1..255
  <2>1. n \in Nat
    BY LenProperties
  <2>2. \A k \in 1..n : src[k] \in 1..255
    BY ElementOfSeq
  <2> QED
    BY <2>1, <2>2
<1> HIDE DEF n
<1>2. \A k \in 1..n : Piece(i[k], 4) /\ Piece(w[k], 2)
  BY <1>1, IranSystemChar, WindowsChar, Zenon
<1>3. i \in [1..n -> Texts] /\ \A k \in 1..n : Len(i[k]) <= 4
  BY <1>2 DEF Piece, Texts
<1>4. w \in [1..n -> Texts] /\ \A k \in 1..n : Len(w[k]) <= 2
  BY <1>2 DEF Piece, Texts
<1>5. iransystem_to_utf_8(src) = Appended(i)[n] /\ windows1256_to_utf8(src) = Appended(w)[n]
  BY Zenon DEF iransystem_to_utf_8, windows1256_to_utf8, n
<1> HIDE DEF i, w
<1>6. Appended(i)[n] \in Texts /\ Len(Appended(i)[n]) <= 4 * n
  BY <1>1, <1>3, AppendedIs, 4 \in Nat
<1>7. Appended(w)[n] \in Texts /\ Len(Appended(w)[n]) <= 2 * n
  BY <1>1, <1>4, AppendedIs, 2 \in Nat
<1>8. 4 * n = n * 4 /\ 2 * n = n * 2
  BY <1>1
<1>9. \A s \in Texts : \A k \in 1..Len(s) : s[k] # 0
  BY DEF Texts, Bytes1
<1> QED
  BY <1>5, <1>6, <1>7, <1>8, <1>9 DEF n

-----------------------------------------------------------------------------
(* The bitmap *)

\* Every byte that is written is one of the buffer.
LEMMA BitmapInside ==
    ASSUME NEW w \in Nat, NEW h \in Nat
    PROVE  rgba_to_bitmap(w, h) \subseteq 0..(print_buffer_size(w, h) - 1)
<1> DEFINE R == 2 + row_bytes(w)
           size == print_buffer_size(w, h)
<1>1. row_bytes(w) \in Nat /\ \A x \in 0..(w - 1) : x \div 8 \in Nat /\ x \div 8 < row_bytes(w)
  BY DEF row_bytes
<1>2. R \in Nat /\ R >= 2 /\ size = 1 + h * R /\ h * R \in Nat
  <2>1. R \in Nat /\ R >= 2 /\ size = 1 + h * R
    BY <1>1 DEF print_buffer_size
  <2> HIDE DEF R
  <2> QED
    BY <2>1
<1>3. ASSUME NEW y \in 0..(h - 1) PROVE y * R \in Nat /\ y * R + R <= h * R
  <2> HIDE DEF R
  <2>1. y * R \in Nat /\ h * R = y * R + R + (h - 1 - y) * R /\ h - 1 - y \in Nat
    BY <1>2
  <2>2. (h - 1 - y) * R \in Nat
    BY <1>2, <2>1
  <2> QED
    BY <1>2, <2>1, <2>2
<1>4. ASSUME NEW y \in 0..(h - 1)
      PROVE  LET index == 1 + y * R
             IN  {index, index + 1} \cup {index + 2 + x \div 8 : x \in 0..(w - 1)} \subseteq 0..(size - 1)
  <2> DEFINE a == y * R
             b == h * R
             index == 1 + a
  <2>1. a \in Nat /\ b \in Nat /\ a + R <= b /\ size = 1 + b
    BY <1>2, <1>3
  <2> HIDE DEF a, b, size
  <2>2. index \in 0..(size - 1) /\ index + 1 \in 0..(size - 1)
    BY <1>1, <2>1
  <2>3. ASSUME NEW x \in 0..(w - 1) PROVE index + 2 + x \div 8 \in 0..(size - 1)
    <3>1. PICK o : o = x \div 8
      OBVIOUS
    <3>2. o \in Nat /\ o < row_bytes(w)
      BY <1>1, <3>1
    <3>3. index + 2 + o \in 0..(size - 1)
      BY <1>1, <2>1, <3>2
    <3> QED
      BY <3>1, <3>3
  <2> HIDE DEF index
  <2>4. {index, index + 1} \cup {index + 2 + x \div 8 : x \in 0..(w - 1)} \subseteq 0..(size - 1)
    BY <2>2, <2>3
  <2> QED
    BY <2>4 DEF index, a
<1>5. 0 \in 0..(size - 1)
  BY <1>2
<1> HIDE DEF size
<1> QED
  BY <1>4, <1>5, Zenon DEF rgba_to_bitmap, size

-----------------------------------------------------------------------------
(* The subnet mask *)

\* With all its low bits a number ends in ones.
LEMMA OnesAtTheEnd ==
    ASSUME NEW x \in Nat, NEW B \in 0..IntBits, \A bit \in 0..(B - 1) : IsSet(x, bit)
    PROVE  x % Power(2, B) = Power(2, B) - 1
<1> DEFINE p(n) == Power(2, n)
           S == {n \in Nat : x % p(n) = p(n) - 1}
<1>0. B \in Nat /\ IntBits \in Nat
  BY DEF IntBits
<1>1. \A n \in 0..IntBits : p(n) \in Nat \ {0}
  BY PowersGrow
<1>2. p(0) = 1 /\ \A n \in 1..IntBits : p(n) = 2 * p(n - 1)
  BY PowerIs
<1>3. 0 \in S
  <2>1. x % 1 = 0
    OBVIOUS
  <2> QED
    BY <1>2, <2>1
<1>4. ASSUME NEW n \in 0..(B - 1), n \in S PROVE n + 1 \in S
  <2> DEFINE Q == p(n)
  <2>1. Q \in Nat \ {0} /\ p(n + 1) = 2 * Q /\ x % Q = Q - 1
    <3>1. n \in 0..IntBits /\ n + 1 \in 1..IntBits /\ n + 1 - 1 = n
      BY <1>0
    <3>2. p(n + 1) = 2 * p(n)
      BY <1>2, <3>1
    <3> QED
      BY <1>1, <1>4, <3>1, <3>2
  <2>2. (x \div Q) % 2 = 1
    BY DEF IsSet
  <2> HIDE DEF p, Q
  <2>3. x % (2 * Q) = Q * ((x \div Q) % 2) + (x % Q)
    BY <2>1, Split, 2 \in Nat \ {0}
  <2>4. x % (2 * Q) = 2 * Q - 1
    BY <2>1, <2>2, <2>3
  <2> QED
    BY <2>1, <2>4
<1> HIDE DEF S
<1>5. 0..B \subseteq S
  BY <1>0, <1>3, <1>4, AllUpTo
<1>6. B \in S
  BY <1>0, <1>5
<1> QED
  BY <1>6 DEF S

\* A number of B bits that are all set is the greatest of B bits.
LEMMA AllOnes ==
    ASSUME NEW x \in Nat, NEW B \in 0..IntBits, x < Power(2, B), \A bit \in 0..(B - 1) : IsSet(x, bit)
    PROVE  x = Power(2, B) - 1
<1> DEFINE P == Power(2, B)
<1>1. P \in Nat \ {0} /\ x < P
  BY PowersGrow
<1>2. x % P = P - 1
  BY OnesAtTheEnd
<1> HIDE DEF P
<1>3. (P * 0 + x) % P = x
  BY <1>1, DividedUnique, 0 \in Nat
<1>4. P * 0 + x = x
  BY <1>1
<1> QED
  BY <1>2, <1>3, <1>4 DEF P

\* Where a bit of the mask is: octets are from the left, bits from the right.
LEMMA Places ==
    ASSUME NEW B \in Nat \ {0}
    PROVE  /\ \A i \in 0..(4 * B - 1) : 4 - i \div B \in 1..4 /\ i % B \in 0..(B - 1)
           /\ \A k \in 1..4, r \in 0..(B - 1) : \E i \in 0..(4 * B - 1) : 4 - i \div B = k /\ i % B = r
<1>1. ASSUME NEW i \in 0..(4 * B - 1) PROVE 4 - i \div B \in 1..4 /\ i % B \in 0..(B - 1)
  <2> DEFINE q == i \div B
             r == i % B
  <2>1. q \in Nat /\ r \in Nat /\ r < B /\ i = B * q + r
    BY Divided
  <2> HIDE DEF q, r
  <2>2. q <= 3
    <3> SUFFICES ASSUME q >= 4 PROVE FALSE
      BY <2>1
    <3>1. B * q = 4 * B + B * (q - 4) /\ q - 4 \in Nat
      BY <2>1
    <3>2. B * (q - 4) \in Nat
      BY <3>1
    <3> QED
      BY <2>1, <3>1, <3>2
  <2> QED
    BY <2>1, <2>2 DEF q, r
<1>2. ASSUME NEW k \in 1..4, NEW r \in 0..(B - 1)
      PROVE  \E i \in 0..(4 * B - 1) : 4 - i \div B = k /\ i % B = r
  <2> DEFINE q == 4 - k
             i == B * q + r
  <2>1. q \in 0..3 /\ r \in Nat /\ r < B /\ q \in Nat
    OBVIOUS
  <2>2. i \in 0..(4 * B - 1)
    BY <2>1
  <2>3. i \div B = q /\ i % B = r
    <3> HIDE DEF q
    <3> QED
      BY <2>1, DividedUnique
  <2>4. 4 - q = k
    OBVIOUS
  <2> HIDE DEF q, i
  <2> QED
    BY <2>2, <2>3, <2>4
<1> QED
  BY <1>1, <1>2

\* An octet has so many bits.
LEMMA OctetIs ==
    /\ OctetBits \in 1..8 /\ Octet = Power(2, OctetBits) /\ Octet \in Nat \ {0}
    /\ Octet % 2 = 0 /\ Octet \div 2 = Power(2, OctetBits - 1)
<1> DEFINE B == OctetBits
<1>1. B \in 1..8 /\ Power(2, B) = Octet
  BY OctetAssumption DEF OctetBits
<1> HIDE DEF B
<1>2. B \in 1..IntBits /\ B \in 0..IntBits /\ B - 1 \in 0..IntBits
  BY <1>1 DEF IntBits
<1>3. Power(2, B) = 2 * Power(2, B - 1)
  BY <1>2, PowerIs
<1>4. Power(2, B - 1) \in Nat \ {0}
  BY <1>2, PowersGrow
<1>5. Octet \in Nat \ {0} /\ Octet % 2 = 0 /\ Octet \div 2 = Power(2, B - 1)
  BY <1>1, <1>3, <1>4
<1> QED
  BY <1>1, <1>5 DEF B

\* A set of bits without a hole is all from its lowest to the top.
LEMMA NoHole ==
    ASSUME NEW top \in Nat, NEW M \in SUBSET (0..top), M # {}, ~Hole(M, top + 1)
    PROVE  \E n \in 0..top : M = n..top
<1>1. M \in SUBSET Nat
  OBVIOUS
<1>2. PICK n \in M : \A i \in M : n <= i
  BY <1>1, LeastNumber
<1>3. n \in 0..top /\ n \in Nat
  OBVIOUS
<1> DEFINE S == {k \in Nat : n + k <= top => n + k \in M}
<1>4. 0 \in S
  BY <1>3
<1>5. ASSUME NEW k \in S PROVE k + 1 \in S
  <2> SUFFICES ASSUME n + (k + 1) <= top PROVE n + (k + 1) \in M
    OBVIOUS
  <2>1. PICK i : i = n + k
    OBVIOUS
  <2>2. i \in M /\ i + 1 = n + (k + 1) /\ i + 1 < top + 1
    BY <1>3, <1>5, <2>1
  <2>3. i + 1 \in M
    BY <2>2 DEF Hole
  <2> QED
    BY <2>2, <2>3
<1>6. S = Nat
  <2>1. S \in SUBSET Nat
    OBVIOUS
  <2> HIDE DEF S
  <2> QED
    BY <1>4, <1>5, <2>1, AllNumbers
<1>7. ASSUME NEW i \in n..top PROVE i \in M
  <2>1. i - n \in Nat /\ n + (i - n) = i /\ n + (i - n) <= top
    BY <1>3
  <2>2. i - n \in S
    BY <1>6, <2>1
  <2> QED
    BY <2>1, <2>2
<1>8. ASSUME NEW i \in M PROVE i \in n..top
  <2>1. i \in 0..top /\ n <= i
    BY <1>2
  <2> QED
    BY <1>3, <2>1
<1>9. M = n..top
  BY <1>7, <1>8
<1> QED
  BY <1>3, <1>9

\* A number has no bit behind those it fits in.
LEMMA NoBitAbove ==
    ASSUME NEW B \in 0..IntBits, NEW d \in B..IntBits, NEW x \in Nat, x < Power(2, B)
    PROVE  ~IsSet(x, d)
<1> DEFINE P == Power(2, d)
<1>1. B \in 0..IntBits /\ d \in 0..IntBits /\ B <= d
  BY DEF IntBits
<1>2. P \in Nat \ {0} /\ x < P
  <2>1. Power(2, B) <= Power(2, d) /\ Power(2, d) \in Nat \ {0} /\ Power(2, B) \in Nat \ {0}
    BY <1>1, PowersGrow
  <2> QED
    BY <2>1
<1> HIDE DEF P
<1>3. (P * 0 + x) \div P = 0
  BY <1>2, DividedUnique, 0 \in Nat
<1>4. P * 0 + x = x
  BY <1>2
<1>5. (x \div P) % 2 = 0
  BY <1>3, <1>4
<1> QED
  BY <1>5 DEF IsSet, P

\* Octets without a sign do not reach into each other's bits.
LEMMA MaskOfOctets ==
    ASSUME NEW ip \in [1..4 -> Nat], \A k \in 1..4 : ip[k] < Octet
    PROVE  Mask(ip) = {i \in 0..(4 * OctetBits - 1) : IsSet(ip[4 - i \div OctetBits], i % OctetBits)}
<1> DEFINE B == OctetBits
<1>1. B \in 1..8 /\ Octet = Power(2, B)
  BY OctetIs
<1>2. Mask(ip) = {i \in 0..(4 * B - 1) : \E k \in 1..4 : i >= B * (4 - k) /\ IsSet(ip[k], i - B * (4 - k))}
  BY Zenon DEF Mask
<1> HIDE DEF B
<1>3. ASSUME NEW i \in 0..(4 * B - 1)
      PROVE  (\E k \in 1..4 : i >= B * (4 - k) /\ IsSet(ip[k], i - B * (4 - k)))
                <=> IsSet(ip[4 - i \div B], i % B)
  <2>1. B \in Nat \ {0} /\ i \in Nat /\ 4 * B <= IntBits /\ IntBits \in Nat
    BY <1>1 DEF IntBits
  <2>2. 4 - i \div B \in 1..4 /\ i % B \in 0..(B - 1)
    BY <2>1, Places
  <2>3. ASSUME IsSet(ip[4 - i \div B], i % B)
        PROVE  \E k \in 1..4 : i >= B * (4 - k) /\ IsSet(ip[k], i - B * (4 - k))
    <3> DEFINE k == 4 - i \div B
    <3>1. i = B * (i \div B) + (i % B) /\ i \div B \in Nat
      BY <2>1, Divided
    <3>2. B * (4 - k) = B * (i \div B)
      BY <3>1
    <3>3. i >= B * (4 - k) /\ i - B * (4 - k) = i % B
      <4> HIDE DEF k
      <4> QED
        BY <2>1, <2>2, <3>1, <3>2
    <3> QED
      BY <2>2, <2>3, <3>3
  <2>4. ASSUME NEW k \in 1..4, i >= B * (4 - k), IsSet(ip[k], i - B * (4 - k))
        PROVE  IsSet(ip[4 - i \div B], i % B)
    <3> DEFINE q == 4 - k
               d == i - B * q
    <3>1. q \in Nat /\ B * q \in Nat /\ d \in Nat /\ B * q + d = i /\ 4 - q = k /\ d <= i
      <4>1. q \in 0..3
        OBVIOUS
      <4> HIDE DEF q
      <4>2. B * q \in Nat
        BY <2>1, <4>1
      <4>3. i >= B * q /\ 4 - q = k
        BY <2>4 DEF q
      <4> QED
        BY <2>1, <4>1, <4>2, <4>3
    <3> HIDE DEF q
    <3>2. IsSet(ip[k], d)
      BY <2>4 DEF q
    <3> HIDE DEF d
    <3>3. d < B
      <4> SUFFICES ASSUME d >= B PROVE FALSE
        BY <2>1, <3>1
      <4>1. B \in 0..IntBits /\ d \in B..IntBits
        BY <2>1, <3>1
      <4>2. ip[k] \in Nat /\ ip[k] < Power(2, B)
        BY <1>1
      <4> QED
        BY <3>2, <4>1, <4>2, NoBitAbove
    <3>4. i \div B = q /\ i % B = d
      BY <2>1, <3>1, <3>3, DividedUnique
    <3>5. 4 - i \div B = k
      BY <3>1, <3>4
    <3> QED
      BY <3>2, <3>4, <3>5, Zenon
  <2> QED
    BY <2>3, <2>4
<1> QED
  BY <1>2, <1>3 DEF B

\* The ones of a mask that is accepted are in front, also if an octet was negative.
LEMMA AcceptedIsOnes ==
    ASSUME NEW ip, validate_ip_string(ip, TRUE) = 0
    PROVE  \E n \in 0..(4 * OctetBits - 1) : Mask(ip) = n..(4 * OctetBits - 1)
<1> DEFINE top == 4 * OctetBits - 1
<1>1. top \in Nat /\ top + 1 = 4 * OctetBits
  BY OctetIs
<1>2. Mask(ip) # {} /\ ~Hole(Mask(ip), 4 * OctetBits)
  BY DEF validate_ip_string
<1>3. Mask(ip) \in SUBSET (0..top)
  BY Zenon DEF Mask
<1> HIDE DEF top
<1> QED
  BY <1>1, <1>2, <1>3, NoHole DEF top

\* A mask is accepted just when its ones are all in front and neither none nor all of it.
LEMMA SubnetIsOnes ==
    ASSUME NEW ip \in [1..4 -> Nat]
    PROVE  LET top == 4 * OctetBits - 1
           IN  validate_ip_string(ip, TRUE) = 0
                  <=> /\ \A k \in 1..4 : ip[k] < Octet
                      /\ \E n \in 1..top : Mask(ip) = n..top
<1> DEFINE B == OctetBits
           top == 4 * B - 1
           M == Mask(ip)
           Accepted == /\ \A k \in 1..4 : ip[k] < Octet
                       /\ \E k \in 1..4 : ip[k] # 0
                       /\ \E k \in 1..4 : ip[k] # Octet - 1
                       /\ ip[1] # Octet \div 2 - 1
                       /\ M # {} /\ ~Hole(M, 4 * B)
<1>1. B \in 1..8 /\ Octet = Power(2, B) /\ Octet \in Nat \ {0} /\ Octet \div 2 = Power(2, B - 1) /\ Octet % 2 = 0
  BY OctetIs
<1>2. validate_ip_string(ip, TRUE) = 0 <=> Accepted
  BY DEF validate_ip_string
<1>3. (\A k \in 1..4 : ip[k] < Octet) => M = {i \in 0..top : IsSet(ip[4 - i \div B], i % B)}
  BY MaskOfOctets, Zenon
<1> HIDE DEF B, M
<1>4. top \in Nat /\ top + 1 = 4 * B /\ B \in Nat \ {0} /\ B \in 0..IntBits /\ B - 1 \in 0..IntBits
  BY <1>1 DEF IntBits
<1>5. /\ \A i \in 0..top : 4 - i \div B \in 1..4 /\ i % B \in 0..(B - 1)
      /\ \A k \in 1..4, r \in 0..(B - 1) : \E i \in 0..top : 4 - i \div B = k /\ i % B = r
  BY <1>4, Places
<1>6. ASSUME Accepted PROVE \E n \in 1..top : M = n..top
  <2>0. M = {i \in 0..top : IsSet(ip[4 - i \div B], i % B)}
    BY <1>3, <1>6, Zenon
  <2>1. M \in SUBSET (0..top)
    BY <2>0
  <2>2. ~Hole(M, top + 1) /\ M # {}
    BY <1>4, <1>6
  <2> HIDE DEF top
  <2>3. PICK n \in 0..top : M = n..top
    BY <1>4, <2>1, <2>2, NoHole
  <2>4. n # 0
    <3> SUFFICES ASSUME n = 0 PROVE FALSE
      OBVIOUS
    <3>1. ASSUME NEW k \in 1..4 PROVE ip[k] = Octet - 1
      <4>1. ASSUME NEW r \in 0..(B - 1) PROVE IsSet(ip[k], r)
        <5>1. PICK i \in 0..top : 4 - i \div B = k /\ i % B = r
          BY <1>5
        <5>2. i \in M
          BY <2>3
        <5> QED
          BY <2>0, <5>1, <5>2
      <4>2. ip[k] \in Nat /\ ip[k] < Power(2, B)
        BY <1>1, <1>6
      <4> QED
        BY <1>1, <1>4, <4>1, <4>2, AllOnes
    <3> QED
      BY <1>6, <3>1
  <2> QED
    BY <1>4, <2>3, <2>4
<1>7. ASSUME \A k \in 1..4 : ip[k] < Octet, NEW n \in 1..top, M = n..top
      PROVE  Accepted
  <2>0. M = {i \in 0..top : IsSet(ip[4 - i \div B], i % B)}
    BY <1>3, <1>7, Zenon
  <2>1. top \in 0..top /\ top \in M /\ 0 \in 0..top /\ 0 \notin M
    BY <1>4, <1>7
  <2>2. top \div B = 3 /\ top % B = B - 1
    <3>1. top = B * 3 + (B - 1) /\ B - 1 \in Nat /\ B - 1 < B
      BY <1>4
    <3> HIDE DEF top
    <3> QED
      BY <1>4, <3>1, DividedUnique, 3 \in Nat
  <2>3. IsSet(ip[1], B - 1)
    <3>1. IsSet(ip[4 - top \div B], top % B)
      BY <2>0, <2>1
    <3>2. 4 - top \div B = 1
      BY <2>2
    <3> QED
      BY <2>2, <3>1, <3>2
  <2>4. ip[1] \in Nat /\ ip[4] \in Nat
    OBVIOUS
  <2>5. ip[1] >= Octet \div 2 /\ Octet \div 2 \in Nat \ {0}
    <3> DEFINE P == Power(2, B - 1)
               x == ip[1]
    <3>1. P \in Nat \ {0} /\ (x \div P) % 2 = 1 /\ Octet \div 2 = P /\ x \in Nat
      BY <1>1, <1>4, <2>3, <2>4, PowersGrow DEF IsSet
    <3> HIDE DEF P, x
    <3>2. x >= P
      <4> SUFFICES ASSUME x < P PROVE FALSE
        BY <3>1
      <4>1. (P * 0 + x) \div P = 0
        BY <3>1, DividedUnique, 0 \in Nat
      <4>2. P * 0 + x = x
        BY <3>1
      <4> QED
        BY <3>1, <4>1, <4>2
    <3> QED
      BY <3>1, <3>2 DEF x
  <2>6. ip[1] # 0 /\ ip[1] # Octet \div 2 - 1
    BY <2>4, <2>5
  <2>7. ip[4] # Octet - 1
    <3>1. 4 - 0 \div B = 4 /\ 0 % B = 0
      <4>1. (B * 0 + 0) \div B = 0 /\ (B * 0 + 0) % B = 0
        <5>1. 0 \in Nat /\ 0 < B
          BY <1>4
        <5> QED
          BY <1>4, <5>1, DividedUnique
      <4>2. B * 0 + 0 = 0
        BY <1>4
      <4> QED
        BY <4>1, <4>2
    <3>2. ~IsSet(ip[4 - 0 \div B], 0 % B)
      BY <2>0, <2>1
    <3>3. ~IsSet(ip[4], 0)
      BY <3>1, <3>2
    <3>4. ip[4] % 2 # 1
      <4>1. Power(2, 0) = 1 /\ ip[4] \div 1 = ip[4]
        BY <2>4, Bits
      <4> QED
        BY <3>3, <4>1 DEF IsSet
    <3>5. (Octet - 1) % 2 = 1
      BY <1>1
    <3> QED
      BY <3>4, <3>5
  <2>8. M # {} /\ ~Hole(M, 4 * B)
    <3>1. ASSUME NEW i \in M, i + 1 < 4 * B PROVE i + 1 \in M
      BY <1>4, <1>7, <3>1
    <3> QED
      BY <2>1, <3>1 DEF Hole
  <2> QED
    BY <1>7, <2>6, <2>7, <2>8
<1>8. Accepted => \A k \in 1..4 : ip[k] < Octet
  OBVIOUS
<1> HIDE DEF Accepted, top
<1>9. validate_ip_string(ip, TRUE) = 0
         <=> /\ \A k \in 1..4 : ip[k] < Octet
             /\ \E n \in 1..top : M = n..top
  BY <1>2, <1>6, <1>7, <1>8
<1> QED
  BY <1>9 DEF top, B, M

-----------------------------------------------------------------------------
(* What the conversions promise *)

\* The result of a job
Converted(j, r) ==
    \/ j.kind = "base32" /\ r = base32_encode(j.in, j.arg)
    \/ j.kind = "hex" /\ r = hexify(j.in)
    \/ j.kind = "bcd" /\ r = bin2bcd(j.in)
    \/ j.kind = "pad" /\ r = left_pad(j.in, j.arg, 0)
    \/ j.kind = "separator" /\ r \in Separated(j.in)
    \/ j.kind = "iransystem" /\ r = iransystem_to_utf_8(j.in)
    \/ j.kind = "windows1256" /\ r = windows1256_to_utf8(j.in)
    \/ j.kind = "subnet" /\ r = validate_ip_string(j.in, TRUE)
    \/ j.kind = "bitmap" /\ r = rgba_to_bitmap(j.in, j.arg)

\* The inductive invariant: the result is the job's, until it is given back.
HelpersInv ==
    /\ stage # "none" => IsJob(job)
    /\ stage = "converted" => Converted(job, result)
    /\ ConversionsBack

\* What a job is given.
LEMMA JobIs ==
    ASSUME NEW j, IsJob(j)
    PROVE  /\ j.kind = "base32" => j.in \in ByteTexts /\ j.arg \in Nat
           /\ j.kind = "hex" => j.in \in ByteTexts
           /\ j.kind = "bcd" => j.in \in Nat /\ j.in < Power(10, 7)
           /\ j.kind = "pad" => j.in \in Seq(Nat) /\ j.arg \in Nat
           /\ j.kind = "separator" => j.in \in Seq(0..9) /\ Len(j.in) < 10
           /\ j.kind \in {"iransystem", "windows1256"} => j.in \in Seq(1..255)
           /\ j.kind = "subnet" => j.in \in [1..4 -> Int]
           /\ j.kind = "bitmap" => j.in \in Nat /\ j.arg \in Nat
BY DEF IsJob, ByteTexts

\* What it leaves.
LEMMA ResultIs ==
    ASSUME NEW j, NEW r, Converted(j, r)
    PROVE  /\ j.kind = "base32" => r = base32_encode(j.in, j.arg)
           /\ j.kind = "hex" => r = hexify(j.in)
           /\ j.kind = "bcd" => r = bin2bcd(j.in)
           /\ j.kind = "pad" => r = left_pad(j.in, j.arg, 0)
           /\ j.kind = "separator" => r \in Separated(j.in)
           /\ j.kind = "iransystem" => r = iransystem_to_utf_8(j.in)
           /\ j.kind = "windows1256" => r = windows1256_to_utf8(j.in)
           /\ j.kind = "subnet" => r = validate_ip_string(j.in, TRUE)
           /\ j.kind = "bitmap" => r = rgba_to_bitmap(j.in, j.arg)
BY DEF Converted

\* No job is done at the start.
LEMMA HelpersStart == HelpersInit => HelpersInv
BY DEF HelpersInit, HelpersInv, ConversionsBack

\* Of nothing, and of a comma, nothing is read.
LEMMA CommaReadsNothing == read_int(<<>>) = 0 /\ read_int(<<Comma>>) = 0
<1>1. /\ <<>> \in Seq(Nat) /\ Len(<<>>) = 0
      /\ <<Comma>> \in Seq(Nat) /\ Len(<<Comma>>) = 1 /\ <<Comma>>[1] \notin 0..9
  BY DEF Comma
<1>2. Skips(ReadingDigits(<<>>), <<>>) /\ Skips(ReadingDigits(<<Comma>>), <<Comma>>)
  BY <1>1, ReadingDigitsIs
<1>3. ReadingDigits(<<>>)[0] = 0
  BY <1>2 DEF Skips
<1>4. ReadingDigits(<<Comma>>)[1] = 0
  BY <1>1, <1>2 DEF Skips
<1> QED
  BY <1>1, <1>3, <1>4 DEF read_int

\* What is given back is what was converted.
LEMMA ReturnBack ==
    ASSUME HelpersInv, Return
    PROVE  ConversionsBack'
<1>1. IsJob(job) /\ Converted(job, result) /\ job' = job
  BY DEF HelpersInv, Return
<1>2. CASE /\ job.kind = "base32" /\ Len(result) < job.arg
           /\ \E word \in Typed(result) :
                 LET r == base32_decode(word, Len(job.in) + 1)
                 IN  result' = IF r.ok THEN r.out ELSE <<-1>>
  <2>1. job.in \in ByteTexts /\ job.arg \in Nat /\ result = base32_encode(job.in, job.arg)
    BY <1>1, <1>2, JobIs, ResultIs
  <2>2. PICK word \in Typed(result) :
           LET r == base32_decode(word, Len(job.in) + 1)
           IN  result' = IF r.ok THEN r.out ELSE <<-1>>
    BY <1>2
  <2>3. base32_decode(word, Len(job.in) + 1).ok /\ base32_decode(word, Len(job.in) + 1).out = job.in
    BY <1>2, <2>1, Base32Back
  <2>4. result' = job.in
    BY <2>2, <2>3
  <2> QED
    BY <1>1, <1>2, <2>4 DEF ConversionsBack
<1>3. CASE job.kind = "hex" /\ result' = unhexify(result)
  <2>1. job.in \in Seq(0..255) /\ result = hexify(job.in)
    BY <1>1, <1>3, JobIs, ResultIs DEF ByteTexts
  <2>2. result' = job.in
    BY <1>3, <2>1, HexBack
  <2> QED
    BY <1>1, <1>3, <2>2 DEF ConversionsBack
<1>4. CASE job.kind = "bcd" /\ result' = bcd2bin(result)
  <2>1. job.in \in Nat /\ job.in < Power(10, 7) /\ result = bin2bcd(job.in)
    BY <1>1, <1>4, JobIs, ResultIs
  <2>2. result' = job.in
    BY <1>4, <2>1, BcdBack
  <2> QED
    BY <1>1, <1>4, <2>2 DEF ConversionsBack
<1>5. CASE job.kind = "pad" /\ result' = remove_zero_padding(result)
  <2>1. job.in \in Seq(Nat) /\ job.arg \in Nat /\ result = left_pad(job.in, job.arg, 0)
    BY <1>1, <1>5, JobIs, ResultIs
  <2>2. result' = remove_zero_padding(SubSeq(job.in, 1, IF job.arg < Len(job.in) THEN job.arg
                                                        ELSE Len(job.in)))
    BY <1>5, <2>1, PadBack
  <2> QED
    BY <1>1, <1>5, <2>2 DEF ConversionsBack
<1>6. CASE job.kind = "separator" /\ result' = read_int(result)
  <2>1. job.in \in Seq(0..9) /\ result \in Separated(job.in)
    BY <1>1, <1>6, JobIs, ResultIs
  <2>2. ASSUME job.in # <<>> PROVE result' = ReadAs(10, job.in)
    <3>1. result = three_digit_separator(job.in)
      BY <2>1, <2>2 DEF Separated
    <3> QED
      BY <1>6, <2>1, <2>2, <3>1, SeparatorBack
  <2>3. ASSUME job.in = <<>> PROVE result' = ReadAs(10, job.in)
    <3>1. result = <<>> \/ result = <<Comma>>
      BY <2>1, <2>3 DEF Separated
    <3> QED
      BY <1>6, <2>3, <3>1, ReadsNothing, CommaReadsNothing
  <2>4. result' = ReadAs(10, job.in)
    BY <2>2, <2>3
  <2> QED
    BY <1>1, <1>6, <2>4 DEF ConversionsBack
<1> QED
  BY <1>2, <1>3, <1>4, <1>5, <1>6 DEF Return

\* Each job leaves its own result.
LEMMA HelpersStep == HelpersInv /\ [HelpersNext]_helperVars => HelpersInv'
<1> SUFFICES ASSUME HelpersInv, [HelpersNext]_helperVars PROVE HelpersInv'
  OBVIOUS
<1>1. CASE Give
  <2>1. IsJob(job') /\ stage' = "given"
    BY <1>1, JobsAssumption DEF Give
  <2> QED
    BY <2>1 DEF HelpersInv, ConversionsBack
<1>2. CASE Convert
  <2>1. IsJob(job) /\ job' = job /\ stage' = "converted"
    BY <1>2 DEF Convert, HelpersInv
  <2>2. Converted(job, result')
    BY <1>2 DEF Convert, Converted
  <2>3. Converted(job', result')
    BY <2>1, <2>2
  <2> QED
    BY <2>1, <2>3 DEF HelpersInv, ConversionsBack
<1>3. CASE Return
  <2>1. IsJob(job) /\ job' = job /\ stage' = "back"
    BY <1>3 DEF Return, HelpersInv
  <2>2. ConversionsBack'
    BY <1>3, ReturnBack
  <2>3. IsJob(job')
    BY <2>1
  <2> QED
    BY <2>1, <2>2, <2>3 DEF HelpersInv
<1>4. CASE UNCHANGED helperVars
  BY <1>4 DEF helperVars, HelpersInv, ConversionsBack, Converted
<1> QED
  BY <1>1, <1>2, <1>3, <1>4 DEF HelpersNext

\* The bounds of a conversion follow from what it was given.
LEMMA HelpersBounds == HelpersInv => StaysInside
<1> SUFFICES ASSUME HelpersInv, stage = "converted" PROVE StaysInside
  BY DEF StaysInside
<1>1. IsJob(job) /\ Converted(job, result)
  BY DEF HelpersInv
<1>2. ASSUME job.kind = "base32" PROVE Len(result) <= job.arg
  <2>1. job.in \in ByteTexts /\ job.arg \in Nat /\ result = base32_encode(job.in, job.arg)
    BY <1>1, <1>2, JobIs, ResultIs
  <2> QED
    BY <2>1, EncodedText
<1>3. ASSUME job.kind \in {"iransystem", "windows1256"}
      PROVE  /\ \A k \in 1..Len(result) : result[k] # 0
             /\ Len(result) <= Len(job.in) * (IF job.kind = "iransystem" THEN 4 ELSE 2)
  <2>1. job.in \in Seq(1..255)
    BY <1>1, <1>3, JobIs
  <2>2. CASE job.kind = "iransystem"
    <3>1. result = iransystem_to_utf_8(job.in)
      BY <1>1, <2>2, ResultIs
    <3> QED
      BY <2>1, <2>2, <3>1, PagesStayInside
  <2>3. CASE job.kind = "windows1256"
    <3>1. result = windows1256_to_utf8(job.in)
      BY <1>1, <2>3, ResultIs
    <3> QED
      BY <2>1, <2>3, <3>1, PagesStayInside
  <2> QED
    BY <1>3, <2>2, <2>3
<1>4. ASSUME job.kind = "subnet"
      PROVE  LET top == 4 * OctetBits - 1
             IN  /\ result = 0 => \E n \in 0..top : Mask(job.in) = n..top
                 /\ (\A k \in 1..4 : job.in[k] >= 0) =>
                       (result = 0 <=> /\ \A k \in 1..4 : job.in[k] < Octet
                                       /\ \E n \in 1..top : Mask(job.in) = n..top)
  <2>1. job.in \in [1..4 -> Int] /\ result = validate_ip_string(job.in, TRUE)
    BY <1>1, <1>4, JobIs, ResultIs
  <2>2. ASSUME \A k \in 1..4 : job.in[k] >= 0 PROVE job.in \in [1..4 -> Nat]
    BY <2>1, <2>2
  <2> QED
    BY <2>1, <2>2, SubnetIsOnes, AcceptedIsOnes
<1>5. ASSUME job.kind = "bitmap"
      PROVE  result \subseteq 0..(print_buffer_size(job.in, job.arg) - 1)
  <2>1. job.in \in Nat /\ job.arg \in Nat /\ result = rgba_to_bitmap(job.in, job.arg)
    BY <1>1, <1>5, JobIs, ResultIs
  <2> QED
    BY <2>1, BitmapInside
<1> QED
  BY <1>2, <1>3, <1>4, <1>5, Zenon DEF StaysInside

\* ConversionsBack for every input and every width of the accumulator: the way back gives
\* what was given, also of a text typed in otherwise. (util.c 61-213, base32.c 24-130)
THEOREM WhatIsConvertedComesBack == HelpersSpec => []ConversionsBack
<1>1. HelpersInv => ConversionsBack
  BY DEF HelpersInv
<1> QED
  BY <1>1, HelpersStart, HelpersStep, PTL DEF HelpersSpec

\* StaysInside for every input and every width of an octet: no conversion leaves its bounds,
\* and a mask is accepted just if its ones are in front. (util.c 419-549, 656-733)
THEOREM ConversionsHaveBounds == HelpersSpec => []StaysInside
BY HelpersStart, HelpersStep, HelpersBounds, PTL DEF HelpersSpec

=============================================================================
