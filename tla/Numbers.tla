------------------------------ MODULE Numbers ------------------------------
(***************************************************************************)
(* Powers, and `^` of C on numbers that are not negative: two numbers, digit   *)
(* by binary digit. Both are recursive functions, which a proof can unfold,      *)
(* where Bitwise has a recursive operator.                                        *)
(***************************************************************************)
EXTENDS Integers

IntBits == 32

\* For n up to IntBits
Power(b, n) ==
    LET p[k \in 0..IntBits] == IF k = 0 THEN 1 ELSE b * p[k - 1] IN p[n]

None == [p \in Nat \X Nat |-> 0]

\* The last digits of two numbers, and of the others as f does it
OneMore(f) ==
    [p \in Nat \X Nat |-> 2 * f[<<p[1] \div 2, p[2] \div 2>>] + ((p[1] + p[2]) % 2)]

\* Digitwise[n]: of the last n digits
Digitwise ==
    LET digits[n \in 0..IntBits] == IF n = 0 THEN None ELSE OneMore(digits[n - 1])
    IN  digits

Xor(a, b) == Digitwise[IntBits][<<a, b>>]
=============================================================================
