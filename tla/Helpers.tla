------------------------------ MODULE Helpers ------------------------------
(***************************************************************************)
(* The conversions of util.c and base32.c. A job is a value and the function  *)
(* it is given to; where the code has a way back the result is given to that.  *)
(* Loops are functions of how often they went round. A char of a text is a     *)
(* number, or the digit it stands for where only that matters.                  *)
(***************************************************************************)
EXTENDS Numbers, Sequences

CONSTANTS
    Jobs,        \* what is converted: kind, in, arg
    IntWidth,    \* 2^32: where the int `buffer` of base32.c loses its high bits
    Octet        \* 256: octets of an address are below it

ASSUME WidthAssumption == \E n \in 13..IntBits : IntWidth = Power(2, n)
ASSUME OctetAssumption == \E n \in 1..8 : Octet = Power(2, n)

\* What the functions are given. Numbers have digits that an int has room for.
IsJob(j) ==
    \/ j.kind = "base32" /\ j.in \in Seq(0..255) /\ j.arg \in Nat
    \/ j.kind = "hex" /\ j.in \in Seq(0..255)
    \/ j.kind = "bcd" /\ j.in \in Nat /\ j.in < Power(10, 7)
    \/ j.kind = "pad" /\ j.in \in Seq(Nat) /\ j.arg \in Nat
    \/ j.kind = "separator" /\ j.in \in Seq(0..9) /\ Len(j.in) < 10
    \/ j.kind \in {"iransystem", "windows1256"} /\ j.in \in Seq(1..255)
    \/ j.kind = "subnet" /\ j.in \in [1..4 -> Int]
    \/ j.kind = "bitmap" /\ j.in \in Nat /\ j.arg \in Nat

ASSUME JobsAssumption == \A j \in Jobs : IsJob(j)

VARIABLES
    job,     \* the job
    stage,   \* "none", "given", "converted", "back"
    result   \* what the last function returned or wrote

helperVars == <<job, stage, result>>

-----------------------------------------------------------------------------
(* base32_encode, base32_decode *)

\* A round has five bits, if need be of the next byte, or of zeroes behind the last.
TakesByte(s, data) == s.bits < 5 /\ s.next <= Len(data)
Shift(s, data) == IF TakesByte(s, data) THEN 8 ELSE IF s.bits < 5 THEN 5 - s.bits ELSE 0

\* One round of the loop: a letter is written.
EncodeRound(s, data) ==
    LET byte == IF TakesByte(s, data) THEN data[s.next] ELSE 0
        bits == s.bits + Shift(s, data) - 5
        buffer == (s.buffer * Power(2, Shift(s, data)) + byte) % IntWidth
    IN  [buffer |-> buffer, bits |-> bits,
         next |-> IF TakesByte(s, data) THEN s.next + 1 ELSE s.next,
         out |-> Append(s.out, (buffer \div Power(2, bits)) % 32)]

\* Mutant of EncodeGoesOn: the bits left over at the end get no letter.
EncodeStops(s, data) == s.bits >= 5 \/ s.next <= Len(data)

EncodeGoesOn(s, data) == s.bits > 0 \/ s.next <= Len(data)

EncodeStart(data) ==
    IF data = <<>> THEN [buffer |-> 0, bits |-> 0, next |-> 1, out |-> <<>>]
    ELSE [buffer |-> data[1], bits |-> 8, next |-> 2, out |-> <<>>]

EncodeStep(s, data) == IF EncodeGoesOn(s, data) THEN EncodeRound(s, data) ELSE s

Encoding(data, bufSize) ==
    LET after[k \in 0..bufSize] ==
            IF k = 0 THEN EncodeStart(data) ELSE EncodeStep(after[k - 1], data)
    IN  after

base32_encode(data, bufSize) == Encoding(data, bufSize)[bufSize].out

\* A letter as it may be typed: below 32 its value, 32 more in lower case or mistyped.
Separator == 64
Unknown == 65

DecodeLetter(s, letter) ==
    LET buffer == (s.buffer * 32 + letter) % IntWidth
        bits == s.bits + 5
        byte == (buffer \div Power(2, bits - 8)) % 256
    IN  IF bits < 8 THEN [s EXCEPT !.buffer = buffer, !.bits = bits]
        ELSE [s EXCEPT !.buffer = buffer, !.bits = bits - 8, !.out = Append(@, byte)]

DecodeRound(s, ch, bufSize) ==
    IF ~s.ok \/ Len(s.out) >= bufSize \/ ch = Separator THEN s
    ELSE IF ch = Unknown THEN [s EXCEPT !.ok = FALSE]
    ELSE DecodeLetter(s, ch % 32)

DecodeStart == [ok |-> TRUE, buffer |-> 0, bits |-> 0, out |-> <<>>]

Decoding(text, bufSize) ==
    LET after[k \in 0..Len(text)] ==
            IF k = 0 THEN DecodeStart ELSE DecodeRound(after[k - 1], text[k], bufSize)
    IN  after

base32_decode(text, bufSize) == Decoding(text, bufSize)[Len(text)]

-----------------------------------------------------------------------------
(* hexify and unhexify, bin2bcd and bcd2bin, left_pad and remove_zero_padding,  *)
(* three_digit_separator and read_int                                          *)

hexify(bytes) ==
    [k \in 1..(2 * Len(bytes)) |-> IF k % 2 = 1 THEN bytes[(k + 1) \div 2] \div 16
                                   ELSE bytes[k \div 2] % 16]

\* ascii2bcd gives 0 for what is no digit, and for the terminator of an odd text.
unhexify(text) ==
    LET nibble(k) == IF k \in DOMAIN text /\ text[k] \in 0..15 THEN text[k] ELSE 0
    IN  [k \in 1..((Len(text) + 1) \div 2) |-> nibble(2 * k - 1) * 16 + nibble(2 * k)]

\* The values of the first digits
Reading(base, digits) ==
    LET value[k \in 0..Len(digits)] == IF k = 0 THEN 0 ELSE value[k - 1] * base + digits[k]
    IN  value

ReadAs(base, digits) == Reading(base, digits)[Len(digits)]

\* How many digits n has
HasDigits(base, n, c) == Power(base, c) > n /\ (c = 1 \/ Power(base, c - 1) <= n)
DigitCount(base, n) == CHOOSE c \in 1..10 : HasDigits(base, n, c)

DigitsOf(base, n) ==
    [k \in 1..DigitCount(base, n) |-> (n \div Power(base, DigitCount(base, n) - k)) % base]

\* %x reads what %d wrote, and the other way round; %d stops at a letter.
bin2bcd(n) == ReadAs(16, DigitsOf(10, n))
bcd2bin(n) == ReadAs(10, DigitsOf(16, n))

\* A text that is too long keeps its first len chars.
left_pad(in, len, pad) ==
    IF len > Len(in) THEN [k \in 1..(len - Len(in)) |-> pad] \o in ELSE SubSeq(in, 1, len)

remove_zero_padding(in) ==
    LET zeroes == {n \in 0..Len(in) : \A k \in 1..n : in[k] = 0}
    IN  SubSeq(in, 1 + CHOOSE n \in zeroes : \A k \in zeroes : k <= n, Len(in))

\* A digit is its value here, a comma its code.
Comma == 44

\* The chars before the first comma: nIndex, or 3 when that is 0.
FirstGroup(in) == IF Len(in) % 3 = 0 THEN 3 ELSE Len(in) % 3

\* A comma before every three chars: so many are among the first k.
IsComma(first, k) == k > first /\ (k - first) % 4 = 1
Commas(first, k) == (k - first + 3) \div 4

three_digit_separator(in) ==
    LET first == FirstGroup(in)
    IN  [k \in 1..(Len(in) + (Len(in) - first) \div 3) |->
            IF IsComma(first, k) THEN Comma ELSE in[k - Commas(first, k)]]

\* An empty text is passed over as if it had three chars: unless what lies there is 0, a
\* comma is written, and what comes after it is behind the end of the text.
Separated(in) == IF in = <<>> THEN {<<>>, <<Comma>>} ELSE {three_digit_separator(in)}

\* What is no digit is passed over.
ReadingDigits(text) ==
    LET value[k \in 0..Len(text)] ==
            IF k = 0 THEN 0
            ELSE IF text[k] \in 0..9 THEN value[k - 1] * 10 + text[k] ELSE value[k - 1]
    IN  value

read_int(text) == ReadingDigits(text)[Len(text)]

-----------------------------------------------------------------------------
(* The code pages. Of an entry of iransystem_arabic_table it matters which     *)
(* bytes are 0: a second one is left out, a first one would end the text.       *)

\* The text of the loops, char after char
Appended(pieces) ==
    LET text[k \in 0..Len(pieces)] == IF k = 0 THEN <<>> ELSE text[k - 1] \o pieces[k]
    IN  text

Entry(i) == IF i \notin 0..79 \/ i = \hF2 - \hB0 THEN <<0, 0>>
            ELSE IF i \in {\h8B - \h80, 79} THEN <<1, 0>> ELSE <<1, 1>>

Written(i) == IF Entry(i)[2] = 0 THEN <<Entry(i)[1]>> ELSE Entry(i)

\* Mutant of Ligature: it is looked up like the other chars.
LigatureLookedUp(c) == FALSE

\* Lam and alef in one char: the table has no entry, two others are written.
Ligature(c) == c = \hF2

iransystem_char(c) ==
    IF c <= \h7F THEN <<c>>
    ELSE IF c <= \hAF THEN Written(c - \h80)
    ELSE IF Ligature(c) THEN Entry(\hF1 - \hB0) \o Entry(\h91 - \h80)
    ELSE IF c >= \hE0 /\ c <= \hFE THEN Written(c - \hB0)
    ELSE <<1>>

iransystem_to_utf_8(src) ==
    Appended([k \in 1..Len(src) |-> iransystem_char(src[k])])[Len(src)]

iransystem_to_utf8_index(c) ==
    IF c <= \h7F THEN -1 ELSE IF c <= \hAF THEN c - \h80
    ELSE IF c >= \hE0 /\ c <= \hFF THEN c - \hB0 ELSE 79

\* The char of the other code page, for those that have one
windows1256_map ==
    {<<\h81, \h94>>, <<\h8D, \h9C>>, <<\h8E, \hA6>>, <<\h90, \hEF>>, <<\h98, \hED>>, <<\hDF, \hED>>,
     <<\hA1, \h8A>>, <<\hAA, \hFB>>, <<\hBF, \h8C>>, <<\hC0, \hF9>>, <<\hC9, \hF9>>, <<\hE5, \hF9>>,
     <<\hC1, \h8F>>, <<\hC2, \h91>>, <<\hC3, \h91>>, <<\hC5, \h91>>, <<\hC7, \h91>>, <<\hC4, \hF8>>,
     <<\hE6, \hF8>>, <<\hC6, \hFD>>, <<\hEC, \hFD>>, <<\hED, \hFD>>, <<\hC8, \h92>>, <<\hCA, \h96>>,
     <<\hCB, \h98>>, <<\hCC, \h9A>>, <<\hCD, \h9E>>, <<\hCE, \hA0>>, <<\hCF, \hA2>>, <<\hD0, \hA3>>,
     <<\hD1, \hA4>>, <<\h9A, \hA4>>, <<\hD2, \hA5>>, <<\hD3, \hA7>>, <<\hD4, \hA9>>, <<\hD5, \hAB>>,
     <<\hD6, \hAD>>, <<\hD8, \hAF>>, <<\hD9, \hE0>>, <<\hDA, \hE1>>, <<\hDB, \hE5>>, <<\hDC, \h8B>>,
     <<\hDD, \hE9>>, <<\hDE, \hEB>>, <<\hE1, \hF1>>, <<\hE3, \hF4>>, <<\hE4, \hF6>>}

OtherPage(c) ==
    IF \E m \in windows1256_map : m[1] = c
    THEN (CHOOSE m \in windows1256_map : m[1] = c)[2] ELSE \hFF

windows1256_char(c) ==
    IF c <= \h7F THEN <<c>> ELSE Written(iransystem_to_utf8_index(OtherPage(c)))

windows1256_to_utf8(src) ==
    Appended([k \in 1..Len(src) |-> windows1256_char(src[k])])[Len(src)]

-----------------------------------------------------------------------------
(* validate_ip_string; rgba_to_bitmap *)

\* mask & (~mask >> 1): a set bit in front of which one is not
Hole(mask, width) == \E i \in mask : i + 1 < width /\ i + 1 \notin mask

\* The bits of a << 24 | b << 16 | c << 8 | d. Each is an int: that of a negative octet
\* has ones up to the top, which the code does not look for.
OctetBits == CHOOSE n \in 1..8 : Power(2, n) = Octet
IsSet(x, bit) == (x \div Power(2, bit)) % 2 = 1
Mask(ip) ==
    {i \in 0..(4 * OctetBits - 1) :
        \E k \in 1..4 : /\ i >= OctetBits * (4 - k)
                       /\ IsSet(ip[k], i - OctetBits * (4 - k))}

validate_ip_string(ip, subnet) ==
    IF /\ \A k \in 1..4 : ip[k] < Octet
       /\ \E k \in 1..4 : ip[k] # 0
       /\ \E k \in 1..4 : ip[k] # Octet - 1
       /\ ip[1] # Octet \div 2 - 1
       /\ subnet => Mask(ip) # {} /\ ~Hole(Mask(ip), 4 * OctetBits)
    THEN 0 ELSE -1

row_bytes(w) == w \div 8 + (IF w % 8 = 0 THEN 0 ELSE 1)
print_buffer_size(w, h) == 1 + h * (2 + row_bytes(w))

\* The indexes rgba_to_bitmap writes: the height, the width of each row, its bits
rgba_to_bitmap(w, h) ==
    {0} \cup UNION {LET index == 1 + y * (2 + row_bytes(w))
                    IN  {index, index + 1} \cup {index + 2 + x \div 8 : x \in 0..(w - 1)}
                   : y \in 0..(h - 1)}

-----------------------------------------------------------------------------
HelpersInit ==
    job = <<>> /\ stage = "none" /\ result = <<>>

\* A caller has something to convert.
Give ==
    /\ stage = "none" /\ stage' = "given"
    /\ job' \in Jobs
    /\ UNCHANGED result

Convert ==
    /\ stage = "given" /\ stage' = "converted"
    /\ \/ job.kind = "base32" /\ result' = base32_encode(job.in, job.arg)
       \/ job.kind = "hex" /\ result' = hexify(job.in)
       \/ job.kind = "bcd" /\ result' = bin2bcd(job.in)
       \/ job.kind = "pad" /\ result' = left_pad(job.in, job.arg, 0)
       \/ job.kind = "separator" /\ result' \in Separated(job.in)
       \/ job.kind = "iransystem" /\ result' = iransystem_to_utf_8(job.in)
       \/ job.kind = "windows1256" /\ result' = windows1256_to_utf8(job.in)
       \/ job.kind = "subnet" /\ result' = validate_ip_string(job.in, TRUE)
       \/ job.kind = "bitmap" /\ result' = rgba_to_bitmap(job.in, job.arg)
    /\ UNCHANGED job

\* A text of letters as somebody types it in again: other letters, a separator
Typed(text) ==
    {text, [k \in 1..Len(text) |-> text[k] + 32]}
        \cup {[k \in 1..(Len(text) + 1) |->
                  IF k < place THEN text[k] ELSE IF k = place THEN Separator ELSE text[k - 1]]
              : place \in 1..(Len(text) + 1)}

\* The way back, of a text that is terminated: one that filled the buffer is not.
Return ==
    /\ stage = "converted" /\ stage' = "back"
    /\ \/ /\ job.kind = "base32" /\ Len(result) < job.arg
          /\ \E text \in Typed(result) :
                LET r == base32_decode(text, Len(job.in) + 1)
                IN  result' = IF r.ok THEN r.out ELSE <<-1>>
       \/ job.kind = "hex" /\ result' = unhexify(result)
       \/ job.kind = "bcd" /\ result' = bcd2bin(result)
       \/ job.kind = "pad" /\ result' = remove_zero_padding(result)
       \/ job.kind = "separator" /\ result' = read_int(result)
    /\ UNCHANGED job

HelpersNext == Give \/ Convert \/ Return

HelpersSpec == HelpersInit /\ [][HelpersNext]_helperVars

-----------------------------------------------------------------------------
(* What is converted and back is what it was: base32 whatever is typed in      *)
(* between, if the encoder's buffer was large enough to end the text; bytes in  *)
(* hexadecimal; numbers in BCD and with commas; a padded number, unless the     *)
(* field was too short and kept its beginning. (util.c 61-213, base32.c 24-130)  *)
ConversionsBack ==
    stage = "back" =>
        /\ job.kind \in {"base32", "hex", "bcd"} => result = job.in
        /\ job.kind = "pad" =>
              result = remove_zero_padding(SubSeq(job.in, 1, IF job.arg < Len(job.in)
                                                             THEN job.arg ELSE Len(job.in)))
        /\ job.kind = "separator" => result = ReadAs(10, job.in)

(* Bounds a caller counts on: base32 stays in its buffer; a text of either code *)
(* page becomes at most twice, with ligatures four times as long, and no byte   *)
(* of it is 0, so it ends where it should; a subnet mask that is accepted has its *)
(* ones in front, and of octets without a sign just those are that have neither   *)
(* none nor nothing else; and a bitmap fills what was allocated, whatever the      *)
(* width. (util.c 28-46, 419-549, 636-733, base32.c 85-130)                          *)
StaysInside ==
    stage = "converted" =>
        /\ job.kind = "base32" => Len(result) <= job.arg
        /\ job.kind \in {"iransystem", "windows1256"} =>
              /\ \A k \in 1..Len(result) : result[k] # 0
              /\ Len(result) <= Len(job.in) * (IF job.kind = "iransystem" THEN 4 ELSE 2)
        /\ job.kind = "subnet" =>
              LET top == 4 * OctetBits - 1
              IN  /\ result = 0 => \E n \in 0..top : Mask(job.in) = n..top
                  /\ (\A k \in 1..4 : job.in[k] >= 0) =>
                        (result = 0 <=> /\ \A k \in 1..4 : job.in[k] < Octet
                                        /\ \E n \in 1..top : Mask(job.in) = n..top)
        /\ job.kind = "bitmap" =>
              result \subseteq 0..(print_buffer_size(job.in, job.arg) - 1)
=============================================================================
