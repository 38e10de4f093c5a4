-------------------------- MODULE ArithmeticProofs --------------------------
(*****************************************************************************)
(* Proofs about numbers, and about the components that reckon with them: the *)
(* passwords of a service, the encrypted messages and the calendar, for every *)
(* history of the clock, every cipher that can be undone and every day.      *)
(*****************************************************************************)
EXTENDS Ssm, Passwords, Calendar, SequenceTheorems, WellFoundedInduction, TLAPS

-----------------------------------------------------------------------------
(* Induction over numbers, without an operator for a parameter: a set of        *)
(* numbers stands for the predicate, a function for the step of a recursion.    *)

\* A set of numbers has a least one.
LEMMA LeastNumber ==
    ASSUME NEW T \in SUBSET Nat, T # {}
    PROVE  \E n \in T : \A k \in T : n <= k
<1>1. IsWellFoundedOn({p \in Nat \X Nat : p[1] < p[2]}, Nat)
  BY NatLessThanWellFounded, Zenon DEF OpToRel
<1>2. PICK n \in T : \A k \in T : ~(<<k, n>> \in {p \in Nat \X Nat : p[1] < p[2]})
  BY <1>1, WFMin, Zenon
<1>3. \A k \in T : ~(k < n)
  BY <1>2
<1> QED
  BY <1>3

\* A set with 0, and with the next of each of its numbers, has all numbers.
LEMMA AllNumbers ==
    ASSUME NEW S \in SUBSET Nat, 0 \in S, \A n \in S : n + 1 \in S
    PROVE  S = Nat
<1>1. SUFFICES ASSUME Nat \ S # {} PROVE FALSE
  OBVIOUS
<1>2. PICK n \in Nat \ S : \A k \in Nat \ S : n <= k
  BY <1>1, LeastNumber, Zenon
<1>3. n # 0
  OBVIOUS
<1>4. n - 1 \in Nat /\ n - 1 \in S
  BY <1>2, <1>3
<1> QED
  BY <1>2, <1>4

\* The same up to a bound
LEMMA AllUpTo ==
    ASSUME NEW N \in Nat, NEW S, 0 \in S, \A n \in 0..(N - 1) : n \in S => n + 1 \in S
    PROVE  0..N \subseteq S
<1> DEFINE T == {n \in Nat : n <= N => n \in S}
<1>1. 0 \in T /\ T \in SUBSET Nat
  OBVIOUS
<1>2. ASSUME NEW n \in T PROVE n + 1 \in T
  <2>1. CASE n + 1 <= N
    BY <2>1
  <2> QED
    BY <2>1
<1> HIDE DEF T
<1>3. T = Nat
  BY <1>1, <1>2, AllNumbers
<1> QED
  BY <1>3 DEF T

\* What starts among values and stays there step by step is there all the way.
LEMMA StaysAmong ==
    ASSUME NEW N \in Nat, NEW V, NEW c, c[0] \in V, \A k \in 1..N : c[k - 1] \in V => c[k] \in V
    PROVE  \A k \in 0..N : c[k] \in V
<1> DEFINE S == {n \in Nat : c[n] \in V}
<1>1. 0 \in S
  OBVIOUS
<1>2. ASSUME NEW n \in 0..(N - 1), n \in S PROVE n + 1 \in S
  <2>1. n + 1 \in 1..N /\ n + 1 - 1 = n /\ n + 1 \in Nat
    OBVIOUS
  <2> QED
    BY <1>2, <2>1
<1> HIDE DEF S
<1>3. 0..N \subseteq S
  BY <1>1, <1>2, AllUpTo
<1> QED
  BY <1>3 DEF S

\* A recursion up to a bound: from a value, by steps that stay among the values
Steps(N, V, start, step) == N \in Nat /\ start \in V /\ step \in [(1..N) \X V -> V]
\* f begins with start, and each value is the step of the one before.
Recurs(f, N, V, start, step) ==
    f \in [0..N -> V] /\ f[0] = start /\ \A i \in 1..N : f[i] = step[<<i, f[i - 1]>>]

\* There is a function that does what it says.
LEMMA Recursion ==
    ASSUME NEW N, NEW V, NEW start, NEW step, Steps(N, V, start, step)
    PROVE  \E f : Recurs(f, N, V, start, step)
<1>0. N \in Nat /\ start \in V /\ step \in [(1..N) \X V -> V]
  BY DEF Steps
<1> DEFINE Is(f, n) == Recurs(f, n, V, start, step)
           S == {n \in 0..N : \E f : Is(f, n)}
<1>1. 0 \in S
  <2>1. Is([i \in 0..0 |-> start], 0)
    BY <1>0 DEF Recurs
  <2>2. 0 \in 0..N
    BY <1>0
  <2> HIDE DEF Is
  <2> QED
    BY <2>1, <2>2
<1>2. ASSUME NEW n \in 0..(N - 1), n \in S PROVE n + 1 \in S
  <2>1. PICK f : Is(f, n)
    BY <1>2
  <2>2. step[<<n + 1, f[n]>>] \in V
    BY <1>0, <2>1 DEF Recurs
  <2> DEFINE g == [i \in 0..(n + 1) |-> IF i = n + 1 THEN step[<<n + 1, f[n]>>] ELSE f[i]]
  <2>3. g \in [0..(n + 1) -> V] /\ g[0] = start
    BY <2>1, <2>2 DEF Recurs
  <2>4. ASSUME NEW i \in 1..(n + 1) PROVE g[i] = step[<<i, g[i - 1]>>]
    <3>1. CASE i = n + 1
      <4>1. n + 1 - 1 = n /\ n # n + 1 /\ n \in 0..(n + 1)
        OBVIOUS
      <4>2. g[n] = f[n] /\ g[n + 1] = step[<<n + 1, f[n]>>]
        BY <4>1
      <4>3. i - 1 = n
        BY <3>1, <4>1
      <4> HIDE DEF g
      <4> QED
        BY <3>1, <4>2, <4>3, Zenon
    <3>2. CASE i \in 1..n
      BY <3>2, <2>1 DEF Recurs
    <3> QED
      BY <3>1, <3>2
  <2> HIDE DEF g
  <2>5. Is(g, n + 1)
    BY <2>3, <2>4 DEF Recurs
  <2> QED
    BY <1>0, <2>5
<1> HIDE DEF S
<1>3. 0..N \subseteq S
  BY <1>0, <1>1, <1>2, AllUpTo
<1> QED
  BY <1>0, <1>3 DEF S

-----------------------------------------------------------------------------
(* Powers *)

\* Power is what its recursion says.
LEMMA PowerIs ==
    ASSUME NEW b \in Nat
    PROVE  /\ Power(b, 0) = 1
           /\ \A n \in 1..IntBits : Power(b, n) = b * Power(b, n - 1)
           /\ \A n \in 0..IntBits : Power(b, n) \in Nat
<1> DEFINE Is(f) == f = [k \in 0..IntBits |-> IF k = 0 THEN 1 ELSE b * f[k - 1]]
           step == [p \in (1..IntBits) \X Nat |-> b * p[2]]
           p == CHOOSE f : Is(f)
           S == {n \in Nat : p[n] \in Nat}
<1>1. IntBits \in Nat
  BY DEF IntBits
<1>2. PICK f : Recurs(f, IntBits, Nat, 1, step)
  <2>1. Steps(IntBits, Nat, 1, step)
    BY <1>1 DEF Steps
  <2> HIDE DEF step
  <2> QED
    BY <2>1, Recursion, Zenon
<1>3. ASSUME NEW i \in 0..IntBits PROVE f[i] = IF i = 0 THEN 1 ELSE b * f[i - 1]
  <2>1. CASE i # 0
    <3>1. i \in 1..IntBits /\ i - 1 \in 0..IntBits
      BY <1>1, <2>1
    <3>2. <<i, f[i - 1]>> \in (1..IntBits) \X Nat
      BY <1>2, <3>1 DEF Recurs
    <3> QED
      BY <1>2, <2>1, <3>1, <3>2 DEF Recurs
  <2> QED
    BY <1>2, <2>1 DEF Recurs
<1>4. Is(f)
  BY <1>2, <1>3 DEF Recurs
<1>5. Is(p)
  BY <1>4
<1>6. \A n : Power(b, n) = p[n]
  BY Zenon DEF Power
<1> HIDE DEF p
<1>7. p[0] = 1 /\ \A n \in 1..IntBits : p[n] = b * p[n - 1]
  <2>1. 0 \in 0..IntBits /\ \A n \in 1..IntBits : n \in 0..IntBits /\ n # 0
    BY <1>1
  <2> QED
    BY <1>5, <2>1
<1>8. 0..IntBits \subseteq S
  <2>1. 0 \in S /\ \A n \in 0..(IntBits - 1) : n \in S => n + 1 \in S
    <3>1. ASSUME NEW n \in 0..(IntBits - 1) PROVE n + 1 \in 1..IntBits /\ n + 1 - 1 = n
      BY <1>1
    <3> QED
      BY <1>7, <3>1
  <2> HIDE DEF S
  <2> QED
    BY <1>1, <2>1, AllUpTo
<1> QED
  BY <1>6, <1>7, <1>8

\* Powers of a base grow.
LEMMA PowersGrow ==
    ASSUME NEW b \in Nat, b >= 2
    PROVE  /\ \A n \in 0..IntBits : Power(b, n) \in Nat \ {0}
           /\ \A m, n \in 0..IntBits : m <= n => Power(b, m) <= Power(b, n)
<1>1. /\ Power(b, 0) = 1 /\ \A n \in 0..IntBits : Power(b, n) \in Nat
      /\ \A n \in 1..IntBits : Power(b, n) = b * Power(b, n - 1)
  BY PowerIs
<1>2. IntBits \in Nat
  BY DEF IntBits
<1> DEFINE p(n) == Power(b, n)
           V == {n \in 0..IntBits : p(n) > 0}
<1>3. \A n \in 0..IntBits : p(n) \in Nat \ {0}
  <2> DEFINE c == [n \in 0..IntBits |-> p(n)]
  <2>1. c[0] \in Nat \ {0}
    BY <1>1, <1>2
  <2>2. ASSUME NEW n \in 1..IntBits, c[n - 1] \in Nat \ {0} PROVE c[n] \in Nat \ {0}
    <3>1. c[n] = b * c[n - 1]
      BY <1>1, <1>2
    <3> HIDE DEF c
    <3> QED
      BY <2>2, <3>1
  <2>3. \A n \in 0..IntBits : c[n] \in Nat \ {0}
    <3> HIDE DEF c
    <3> QED
      BY <1>2, <2>1, <2>2, StaysAmong
  <2> QED
    BY <2>3
<1>4. ASSUME NEW n \in 1..IntBits PROVE p(n - 1) <= p(n)
  <2>1. p(n) = b * p(n - 1) /\ p(n - 1) \in Nat
    BY <1>1, <1>2
  <2> QED
    BY <2>1
<1>5. ASSUME NEW m \in 0..IntBits PROVE \A n \in 0..IntBits : m <= n => p(m) <= p(n)
  <2> DEFINE S == {n \in Nat : m <= n => p(m) <= p(n)}
  <2>1. 0 \in S
    BY <1>1, <1>3
  <2>2. ASSUME NEW n \in 0..(IntBits - 1), n \in S PROVE n + 1 \in S
    <3>1. n + 1 \in 1..IntBits /\ n + 1 - 1 = n /\ n \in 0..IntBits /\ n + 1 \in 0..IntBits
      BY <1>2
    <3>2. p(n) <= p(n + 1) /\ p(n) \in Nat /\ p(n + 1) \in Nat /\ p(m) \in Nat
      BY <1>3, <1>4, <3>1
    <3> HIDE DEF p
    <3> QED
      BY <2>2, <3>1, <3>2
  <2> HIDE DEF S
  <2>3. 0..IntBits \subseteq S
    BY <1>2, <2>1, <2>2, AllUpTo
  <2> QED
    BY <2>3 DEF S
<1> QED
  BY <1>3, <1>5

-----------------------------------------------------------------------------
(* Division *)

\* A number is the divisor times the quotient, and a rest below the divisor.
LEMMA Divided ==
    ASSUME NEW B \in Nat \ {0}, NEW a \in Nat
    PROVE  /\ a \div B \in Nat /\ a % B \in Nat /\ a % B < B
           /\ a = B * (a \div B) + (a % B)
BY SMT

\* There is one such quotient and one such rest.
LEMMA DividedUnique ==
    ASSUME NEW B \in Nat \ {0}, NEW q \in Nat, NEW r \in Nat, r < B
    PROVE  (B * q + r) \div B = q /\ (B * q + r) % B = r
<1> DEFINE a == B * q + r
           p == a \div B
           s == a % B
<1>1. a \in Nat
  OBVIOUS
<1>2. p \in Nat /\ s \in Nat /\ s < B /\ a = B * p + s
  BY <1>1, Divided
<1>3. B * p + s = B * q + r
  BY <1>2
<1> HIDE DEF a, p, s
<1>4. \A x, y \in Nat : x < y => B * y >= B * x + B
  <2>1. ASSUME NEW x \in Nat, NEW y \in Nat, x < y PROVE B * y >= B * x + B
    <3>1. y - x - 1 \in Nat /\ B * y = B * x + B + B * (y - x - 1)
      BY <2>1
    <3>2. \A u, v \in Nat : u * v \in Nat
      OBVIOUS
    <3>3. B * (y - x - 1) \in Nat /\ B * x \in Nat /\ B * y \in Nat
      BY <3>1, <3>2
    <3> QED
      BY <3>1, <3>3
  <2> QED
    BY <2>1
<1>5. B * p \in Nat /\ B * q \in Nat
  BY <1>2
<1>6. ~(p < q) /\ ~(q < p)
  BY <1>2, <1>3, <1>4, <1>5
<1>7. p = q
  BY <1>2, <1>6
<1> QED
  BY <1>2, <1>3, <1>5, <1>7 DEF a, p, s

\* Dividing by a product is dividing by one factor and then by the other.
LEMMA DividedTwice ==
    ASSUME NEW a \in Nat, NEW B \in Nat \ {0}, NEW C \in Nat \ {0}
    PROVE  a \div (B * C) = (a \div B) \div C
<1> DEFINE q == a \div B
           r == a % B
           s == q \div C
           t == q % C
<1>1. q \in Nat /\ r \in Nat /\ r < B /\ a = B * q + r
  BY Divided
<1> HIDE DEF q, r
<1>2. s \in Nat /\ t \in Nat /\ t < C /\ q = C * s + t
  BY <1>1, Divided
<1> HIDE DEF s, t
<1>3. a = (B * C) * s + (B * t + r)
  BY <1>1, <1>2
<1>4. B * t + r \in Nat /\ B * t + r < B * C
  <2>1. B * t <= B * (C - 1)
    BY <1>2
  <2>2. B * (C - 1) = B * C - B /\ B * C \in Nat /\ B * t \in Nat
    BY <1>2
  <2> QED
    BY <1>1, <2>1, <2>2
<1>5. B * C \in Nat \ {0}
  OBVIOUS
<1> DEFINE D == B * C
           u == B * t + r
<1>6. a = D * s + u /\ D \in Nat \ {0} /\ u \in Nat /\ u < D
  BY <1>3, <1>4, <1>5
<1> HIDE DEF D, u
<1>7. a \div D = s
  BY <1>2, <1>6, DividedUnique
<1> QED
  BY <1>7 DEF D, s, q

-----------------------------------------------------------------------------
(* ^ of C *)

\* What Digitwise works on: a digit for every two digits.
Tables == [Nat \X Nat -> Nat]

\* Digitwise is what its recursion says.
LEMMA DigitwiseIs ==
    /\ Digitwise[0] = None
    /\ \A n \in 1..IntBits : Digitwise[n] = OneMore(Digitwise[n - 1])
    /\ \A n \in 0..IntBits : Digitwise[n] \in Tables
<1> DEFINE Is(f) == f = [n \in 0..IntBits |-> IF n = 0 THEN None ELSE OneMore(f[n - 1])]
           step == [p \in (1..IntBits) \X Tables |-> OneMore(p[2])]
           S == {n \in Nat : Digitwise[n] \in Tables}
<1>0. None \in Tables /\ \A f \in Tables : OneMore(f) \in Tables
  BY DEF OneMore, None, Tables
<1>1. IntBits \in Nat
  BY DEF IntBits
<1>2. PICK f : Recurs(f, IntBits, Tables, None, step)
  <2>1. Steps(IntBits, Tables, None, step)
    BY <1>0, <1>1 DEF Steps
  <2> HIDE DEF step
  <2> QED
    BY <2>1, Recursion, Zenon
<1>3. ASSUME NEW i \in 0..IntBits PROVE f[i] = IF i = 0 THEN None ELSE OneMore(f[i - 1])
  <2>1. CASE i # 0
    <3>1. i \in 1..IntBits /\ i - 1 \in 0..IntBits
      BY <1>1, <2>1
    <3>2. <<i, f[i - 1]>> \in (1..IntBits) \X Tables
      BY <1>2, <3>1 DEF Recurs
    <3> QED
      BY <1>2, <2>1, <3>1, <3>2 DEF Recurs
  <2> QED
    BY <1>2, <2>1 DEF Recurs
<1>4. Is(f)
  BY <1>2, <1>3 DEF Recurs
<1>5. Is(Digitwise)
  BY <1>4, Zenon DEF Digitwise
<1>7. Digitwise[0] = None /\ \A n \in 1..IntBits : Digitwise[n] = OneMore(Digitwise[n - 1])
  <2>1. 0 \in 0..IntBits /\ \A n \in 1..IntBits : n \in 0..IntBits /\ n # 0
    BY <1>1
  <2> QED
    BY <1>5, <2>1
<1>8. 0..IntBits \subseteq S
  <2>1. 0 \in S /\ \A n \in 0..(IntBits - 1) : n \in S => n + 1 \in S
    <3>1. ASSUME NEW n \in 0..(IntBits - 1) PROVE n + 1 \in 1..IntBits /\ n + 1 - 1 = n
      BY <1>1
    <3> QED
      BY <1>0, <1>7, <3>1
  <2> HIDE DEF S
  <2> QED
    BY <1>1, <2>1, AllUpTo
<1> QED
  BY <1>7, <1>8

\* One digit more, applied
LEMMA DigitwiseStep ==
    ASSUME NEW n \in 1..IntBits, NEW a \in Nat, NEW b \in Nat
    PROVE  Digitwise[n][<<a, b>>]
              = 2 * Digitwise[n - 1][<<a \div 2, b \div 2>>] + ((a + b) % 2)
<1>1. Digitwise[n] = OneMore(Digitwise[n - 1])
  BY DigitwiseIs
<1>2. <<a, b>> \in Nat \X Nat
  OBVIOUS
<1> QED
  BY <1>1, <1>2 DEF OneMore

\* The exclusive or is a number.
LEMMA DigitwiseType ==
    \A n \in 0..IntBits : \A a, b \in Nat : Digitwise[n][<<a, b>>] \in Nat
BY DigitwiseIs DEF Tables

\* It does not matter which number comes first.
LEMMA DigitwiseCommutes ==
    \A n \in 0..IntBits : \A a, b \in Nat : Digitwise[n][<<a, b>>] = Digitwise[n][<<b, a>>]
<1> DEFINE P(n) == \A a, b \in Nat : Digitwise[n][<<a, b>>] = Digitwise[n][<<b, a>>]
           S == {n \in Nat : n <= IntBits => P(n)}
<1>0. IntBits \in Nat
  BY DEF IntBits
<1>1. 0 \in S
  <2>1. \A a, b \in Nat : Digitwise[0][<<a, b>>] = 0
    BY DigitwiseIs DEF None
  <2> QED
    BY <2>1
<1>2. ASSUME NEW n \in S PROVE n + 1 \in S
  <2>1. SUFFICES ASSUME n + 1 <= IntBits, NEW a \in Nat, NEW b \in Nat
                 PROVE  Digitwise[n + 1][<<a, b>>] = Digitwise[n + 1][<<b, a>>]
    OBVIOUS
  <2>2. n + 1 \in 1..IntBits /\ n + 1 - 1 = n
    BY <2>1, <1>0
  <2>3. /\ Digitwise[n + 1][<<a, b>>] = 2 * Digitwise[n][<<a \div 2, b \div 2>>] + ((a + b) % 2)
        /\ Digitwise[n + 1][<<b, a>>] = 2 * Digitwise[n][<<b \div 2, a \div 2>>] + ((b + a) % 2)
    BY <2>2, DigitwiseStep
  <2>4. Digitwise[n][<<a \div 2, b \div 2>>] = Digitwise[n][<<b \div 2, a \div 2>>]
    BY <2>1, <1>0
  <2> QED
    BY <2>3, <2>4
<1>3. S = Nat
  <2>1. S \in SUBSET Nat
    OBVIOUS
  <2> HIDE DEF S
  <2> QED
    BY <1>1, <1>2, <2>1, AllNumbers
<1>4. ASSUME NEW n \in 0..IntBits PROVE P(n)
  <2>1. n \in Nat /\ n <= IntBits
    BY <1>0
  <2> QED
    BY <2>1, <1>3
<1> QED
  BY <1>4

\* Done twice with the same number, the first one's digits are left.
LEMMA DigitwiseTwice ==
    \A n \in 0..IntBits : \A a, b \in Nat :
        Digitwise[n][<<Digitwise[n][<<a, b>>], b>>] = Digitwise[n][<<a, 0>>]
<1> DEFINE P(n) == \A a, b \in Nat :
                      Digitwise[n][<<Digitwise[n][<<a, b>>], b>>] = Digitwise[n][<<a, 0>>]
           S == {n \in Nat : n <= IntBits => P(n)}
<1>0. IntBits \in Nat
  BY DEF IntBits
<1>1. 0 \in S
  <2>1. \A a, b \in Nat : Digitwise[0][<<a, b>>] = 0
    BY DigitwiseIs DEF None
  <2> QED
    BY <2>1
<1>2. ASSUME NEW n \in S PROVE n + 1 \in S
  <2>1. SUFFICES ASSUME n + 1 <= IntBits, NEW a \in Nat, NEW b \in Nat
                 PROVE  Digitwise[n + 1][<<Digitwise[n + 1][<<a, b>>], b>>] = Digitwise[n + 1][<<a, 0>>]
    OBVIOUS
  <2>2. n + 1 \in 1..IntBits /\ n + 1 - 1 = n /\ n \in 0..IntBits
    BY <2>1, <1>0
  <2> DEFINE x == Digitwise[n + 1][<<a, b>>]
             y == Digitwise[n][<<a \div 2, b \div 2>>]
  <2>3. y \in Nat /\ a \div 2 \in Nat /\ b \div 2 \in Nat
    BY <2>2, DigitwiseType
  <2>4. x = 2 * y + ((a + b) % 2)
    BY <2>2, DigitwiseStep
  <2> HIDE DEF x, y
  <2>5. x \in Nat /\ x \div 2 = y /\ (x + b) % 2 = a % 2
    BY <2>3, <2>4
  <2>6. Digitwise[n + 1][<<x, b>>] = 2 * Digitwise[n][<<y, b \div 2>>] + (a % 2)
    BY <2>2, <2>5, DigitwiseStep
  <2>7. Digitwise[n + 1][<<a, 0>>] = 2 * Digitwise[n][<<a \div 2, 0>>] + (a % 2)
    <3>1. 0 \div 2 = 0 /\ a + 0 = a /\ 0 \in Nat
      OBVIOUS
    <3> QED
      BY <2>2, <3>1, DigitwiseStep
  <2>8. Digitwise[n][<<y, b \div 2>>] = Digitwise[n][<<a \div 2, 0>>]
    BY <2>1, <2>3, <1>0 DEF y
  <2> QED
    BY <2>6, <2>7, <2>8 DEF x
<1>3. S = Nat
  <2>1. S \in SUBSET Nat
    OBVIOUS
  <2> HIDE DEF S
  <2> QED
    BY <1>1, <1>2, <2>1, AllNumbers
<1>4. ASSUME NEW n \in 0..IntBits PROVE P(n)
  <2>1. n \in Nat /\ n <= IntBits
    BY <1>0
  <2> QED
    BY <2>1, <1>3
<1> QED
  BY <1>4

\* A number below 2^n has all its digits among the last n, and so does what is made of them.
LEMMA DigitwiseFits ==
    \A n \in 0..IntBits :
        /\ \A a \in Nat : a < Power(2, n) => Digitwise[n][<<a, 0>>] = a
        /\ \A a, b \in Nat : Digitwise[n][<<a, b>>] < Power(2, n)
<1> DEFINE P(n) == /\ \A a \in Nat : a < Power(2, n) => Digitwise[n][<<a, 0>>] = a
                   /\ \A a, b \in Nat : Digitwise[n][<<a, b>>] < Power(2, n)
           S == {n \in Nat : n <= IntBits => P(n)}
<1>0. IntBits \in Nat /\ 2 \in Nat
  BY DEF IntBits
<1>1. 0 \in S
  <2>1. \A a, b \in Nat : Digitwise[0][<<a, b>>] = 0
    BY DigitwiseIs DEF None
  <2>2. Power(2, 0) = 1
    BY PowerIs
  <2> QED
    BY <2>1, <2>2
<1>2. ASSUME NEW n \in S PROVE n + 1 \in S
  <2>1. SUFFICES ASSUME n + 1 <= IntBits PROVE P(n + 1)
    OBVIOUS
  <2>2. n + 1 \in 1..IntBits /\ n + 1 - 1 = n /\ n \in 0..IntBits /\ P(n)
    BY <2>1, <1>0
  <2>3. Power(2, n) \in Nat /\ Power(2, n + 1) = 2 * Power(2, n)
    BY <1>0, <2>2, PowerIs
  <2>4. ASSUME NEW a \in Nat, NEW b \in Nat
        PROVE  Digitwise[n + 1][<<a, b>>] < Power(2, n + 1)
    <3>1. Digitwise[n + 1][<<a, b>>] = 2 * Digitwise[n][<<a \div 2, b \div 2>>] + ((a + b) % 2)
      BY <2>2, DigitwiseStep
    <3>2. a \div 2 \in Nat /\ b \div 2 \in Nat
      OBVIOUS
    <3>3. Digitwise[n][<<a \div 2, b \div 2>>] \in Nat
      BY <2>2, <3>2, DigitwiseType
    <3>4. Digitwise[n][<<a \div 2, b \div 2>>] < Power(2, n)
      BY <2>2, <3>2
    <3> QED
      BY <2>3, <3>1, <3>3, <3>4
  <2>5. ASSUME NEW a \in Nat, a < Power(2, n + 1)
        PROVE  Digitwise[n + 1][<<a, 0>>] = a
    <3>1. 0 \div 2 = 0 /\ a + 0 = a /\ 0 \in Nat /\ a \div 2 \in Nat
      OBVIOUS
    <3>2. Digitwise[n + 1][<<a, 0>>] = 2 * Digitwise[n][<<a \div 2, 0>>] + (a % 2)
      BY <2>2, <3>1, DigitwiseStep
    <3>3. a \div 2 < Power(2, n)
      BY <2>3, <2>5
    <3>4. Digitwise[n][<<a \div 2, 0>>] = a \div 2
      BY <2>2, <3>1, <3>3
    <3> QED
      BY <3>2, <3>4
  <2> QED
    BY <2>4, <2>5
<1>3. S = Nat
  <2>1. S \in SUBSET Nat
    OBVIOUS
  <2> HIDE DEF S
  <2> QED
    BY <1>1, <1>2, <2>1, AllNumbers
<1>4. ASSUME NEW n \in 0..IntBits PROVE P(n)
  <2>1. n \in Nat /\ n <= IntBits
    BY <1>0
  <2> QED
    BY <2>1, <1>3
<1> QED
  BY <1>4

\* The powers up to the width of an int. (Zenon writes a number in strokes.)
LEMMA PowersOfTwo ==
    /\ Power(2, 8) = 256
    /\ Power(2, 13) = 8192
    /\ Power(2, 26) = 67108864
    /\ Power(2, IntBits) = 4294967296
<1>1. Power(2, 0) = 1 /\ \A n \in 1..IntBits : Power(2, n) = 2 * Power(2, n - 1)
  BY PowerIs
<1>2. \A n \in 1..32 : Power(2, n) = 2 * Power(2, n - 1)
  BY <1>1 DEF IntBits
<1>3. Power(2, 8) = 256 /\ Power(2, 13) = 8192
  BY <1>1, <1>2, SMT
<1>4. Power(2, 20) = 1048576
  BY <1>3, <1>2, SMT
<1>5. Power(2, 26) = 67108864
  BY <1>4, <1>2, SMT
<1>6. Power(2, 32) = 4294967296
  BY <1>5, <1>2, SMT
<1> QED
  BY <1>3, <1>5, <1>6, SMT DEF IntBits

\* The exclusive or of two numbers is one of an int's digits, whichever is first; done
\* twice with the same number it gives the other.
LEMMA XorFacts ==
    ASSUME NEW a \in Nat, NEW b \in Nat
    PROVE  /\ Xor(a, b) \in Nat /\ Xor(a, b) < Power(2, IntBits)
           /\ Xor(a, b) = Xor(b, a)
           /\ a < Power(2, IntBits) => Xor(Xor(a, b), b) = a
<1>1. IntBits \in 0..IntBits
  BY DEF IntBits
<1>2. Digitwise[IntBits][<<a, b>>] \in Nat /\ Digitwise[IntBits][<<a, b>>] < Power(2, IntBits)
  BY <1>1, DigitwiseType, DigitwiseFits
<1>3. Digitwise[IntBits][<<a, b>>] = Digitwise[IntBits][<<b, a>>]
  BY <1>1, DigitwiseCommutes
<1>4. Digitwise[IntBits][<<Digitwise[IntBits][<<a, b>>], b>>] = Digitwise[IntBits][<<a, 0>>]
  BY <1>1, DigitwiseTwice
<1>5. a < Power(2, IntBits) => Digitwise[IntBits][<<a, 0>>] = a
  BY <1>1, DigitwiseFits
<1> QED
  BY <1>2, <1>3, <1>4, <1>5 DEF Xor

-----------------------------------------------------------------------------
(* Sequences *)

\* A function of 1..n is a sequence of that length.
LEMMA AsSequence ==
    ASSUME NEW S, NEW n \in Nat, NEW f \in [1..n -> S]
    PROVE  f \in Seq(S) /\ Len(f) = n
OBVIOUS

\* Two sequences in one
IsJoin(q, s, t, S) ==
    /\ q \in Seq(S) /\ Len(q) = Len(s) + Len(t)
    /\ \A i \in 1..Len(s) : q[i] = s[i]
    /\ \A i \in 1..Len(t) : q[i + Len(s)] = t[i]

\* Joining two sequences gives their join.
LEMMA TwoParts ==
    ASSUME NEW S, NEW s \in Seq(S), NEW t \in Seq(S)
    PROVE  IsJoin(s \o t, s, t, S)
<1>1. s \o t \in Seq(S) /\ Len(s \o t) = Len(s) + Len(t)
  BY ConcatProperties
<1>2. \A j \in 1..(Len(s) + Len(t)) : (s \o t)[j] = IF j <= Len(s) THEN s[j] ELSE t[j - Len(s)]
  BY ConcatProperties
<1>3. Len(s) \in Nat /\ Len(t) \in Nat
  BY LenProperties
<1>4. ASSUME NEW i \in 1..Len(s) PROVE (s \o t)[i] = s[i]
  BY <1>2, <1>3
<1>5. ASSUME NEW i \in 1..Len(t) PROVE (s \o t)[i + Len(s)] = t[i]
  <2>1. PICK j \in 1..(Len(s) + Len(t)) : j = i + Len(s) /\ ~(j <= Len(s)) /\ j - Len(s) = i
    BY <1>3
  <2> QED
    BY <1>2, <2>1
<1> QED
  BY <1>1, <1>4, <1>5 DEF IsJoin

\* n elements of a sequence, from behind the first a
IsPart(q, s, a, n, S) == q \in Seq(S) /\ Len(q) = n /\ \A i \in 1..n : q[i] = s[i + a]

\* Cutting a part out of a sequence gives that part.
LEMMA PartOf ==
    ASSUME NEW S, NEW s \in Seq(S), NEW a \in Nat, NEW n \in Nat, a + n <= Len(s)
    PROVE  \A lo : lo = a + 1 => IsPart(SubSeq(s, lo, a + n), s, a, n, S)
<1> DEFINE lo == a + 1
           hi == a + n
           q == SubSeq(s, lo, hi)
<1>1. lo \in Int /\ hi \in Int /\ Len(s) \in Nat
  BY LenProperties
<1>2. \A i \in lo..hi : i \in 1..Len(s)
  BY <1>1
<1>3. \A i \in lo..hi : s[i] \in S
  BY <1>2, ElementOfSeq
<1>4. hi - lo + 1 = n /\ (lo <= hi <=> n > 0)
  OBVIOUS
<1>5. \A i \in 1..n : lo + i - 1 = i + a
  OBVIOUS
<1> HIDE DEF lo, hi
<1>6. /\ q \in Seq(S) /\ Len(q) = IF lo <= hi THEN hi - lo + 1 ELSE 0
      /\ \A i \in 1..(hi - lo + 1) : q[i] = s[lo + i - 1]
  BY <1>1, <1>3, SubSeqProperties
<1> HIDE DEF q
<1>7. q \in Seq(S) /\ Len(q) = n /\ \A i \in 1..n : q[i] = s[lo + i - 1]
  BY <1>4, <1>6
<1>8. IsPart(q, s, a, n, S)
  BY <1>5, <1>7 DEF IsPart
<1> QED
  BY <1>8 DEF q, lo, hi

-----------------------------------------------------------------------------
(* The passwords of a service *)

\* The number a password codes gives its time and its menu back.
LEMMA CodedFacts ==
    ASSUME NEW m \in 0..99, NEW time \in Times
    PROVE  LET c == Coded(m, time) IN
              /\ c \in Nat /\ c < Power(2, IntBits)
              /\ EightDigits(c) /\ TimeIn(c) = time /\ MenuIn(c) = m
<1> DEFINE d == m \div 10
           e == m % 10
<1>1. d \in 0..9 /\ e \in 0..9 /\ m = 10 * d + e
  OBVIOUS
<1>1a. time \in Nat /\ time < 10000
  BY DEF Times
<1> HIDE DEF d, e
<1>2. Coded(m, time) = 30300000 + d * 1000000 + 10000 * e + time
  BY SMT DEF Coded, d, e
<1>3. 30300000 + d * 1000000 + 10000 * e + time < 67108864
  BY <1>1, <1>1a, SMT
<1>4. (30300000 + d * 1000000 + 10000 * e + time) % 10000 = time
  BY <1>1, <1>1a, SMT
<1>5. (30300000 + d * 1000000 + 10000 * e + time) \div 10000 = 3030 + 100 * d + e
  BY <1>1, <1>1a, SMT
<1>6. (30300000 + d * 1000000 + 10000 * e + time) \div 1000000 = 30 + d
  BY <1>1, <1>1a, SMT
<1> QED
  BY <1>1, <1>1a, <1>2, <1>3, <1>4, <1>5, <1>6, PowersOfTwo, SMT DEF EightDigits, TimeIn, MenuIn

\* What passwd_debug writes at a date and time
Password(d, t) == Xor(Xor(d, Coded(menu, t)), terminal)

\* The moments, by their numbers
Indexes == 1..Len(Moments)

\* The date and the time of reading i of the clock.
DateOf(i) == Moments[read[i]].date
TimeOf(i) == Moments[read[i]].time

\* What the next reading may rely on, before each of the four.
PasswordsInv ==
    /\ now \in Indexes
    /\ next \in 0..5
    /\ next > 0 => terminal \in Terminals /\ menu \in Menus
    /\ read \in Seq(Indexes) /\ Len(read) = (IF next = 0 THEN 0 ELSE next - 1)
    /\ next = 2 => date = DateOf(1)
    /\ next = 4 => date = DateOf(3)
    /\ next \in {3, 4} => pin = Password(DateOf(1), TimeOf(2))
    /\ PinTells

\* Undone with the same date and terminal, it is the code.
LEMMA PasswordUndone ==
    ASSUME NEW d \in Nat, NEW t \in Times, menu \in Menus, terminal \in Terminals
    PROVE  Xor(Xor(Password(d, t), terminal), d) = Coded(menu, t)
<1>1. terminal \in Nat /\ menu \in 0..99
  BY MenusAssumption
<1> DEFINE c == Coded(menu, t)
           x == Xor(d, c)
<1>2. c \in Nat /\ c < Power(2, IntBits)
  BY <1>1, CodedFacts
<1> HIDE DEF c
<1>3. x \in Nat /\ x < Power(2, IntBits) /\ x = Xor(c, d)
  BY <1>2, XorFacts
<1> HIDE DEF x
<1>4. Xor(Xor(x, terminal), terminal) = x
  BY <1>1, <1>3, XorFacts
<1>5. Xor(x, d) = c
  BY <1>2, <1>3, XorFacts
<1> QED
  BY <1>4, <1>5 DEF Password, c, x

\* The course of the clock is not empty, and dates and times are in range.
LEMMA MomentsFacts ==
    /\ Len(Moments) \in Nat /\ Len(Moments) > 0
    /\ \A i \in Indexes : Moments[i].date \in Nat /\ Moments[i].time \in Times
<1> DEFINE M == [date : Nat, time : Times]
<1>1. Moments \in Seq(M) /\ Moments # <<>>
  BY MomentsAssumption
<1>2. \A x \in M : x.date \in Nat /\ x.time \in Times
  OBVIOUS
<1> HIDE DEF M
<1>3. Len(Moments) \in Nat /\ Len(Moments) > 0 /\ \A i \in 1..Len(Moments) : Moments[i] \in M
  BY <1>1
<1> QED
  BY <1>2, <1>3 DEF Indexes

\* A reading is recorded.
LEMMA ReadAgain ==
    ASSUME NEW S, NEW s \in Seq(S), NEW e \in S
    PROVE  /\ Append(s, e) \in Seq(S) /\ Len(Append(s, e)) = Len(s) + 1
           /\ Append(s, e)[Len(s) + 1] = e
           /\ \A i \in 1..Len(s) : Append(s, e)[i] = s[i] /\ s[i] \in S
OBVIOUS

\* Nothing is made or checked yet.
LEMMA PasswordsInitOk == PasswordsInit => PasswordsInv
<1> SUFFICES ASSUME PasswordsInit PROVE PasswordsInv
  OBVIOUS
<1>1. Len(Moments) \in Nat /\ Len(Moments) > 0
  BY MomentsFacts
<1> QED
  BY <1>1 DEF PasswordsInit, PasswordsInv, PinTells, Indexes

\* What is written and told follows from the readings of the clock so far.
LEMMA PasswordsStep == PasswordsInv /\ [PasswordsNext]_passwordVars => PasswordsInv'
<1> SUFFICES ASSUME PasswordsInv, [PasswordsNext]_passwordVars PROVE PasswordsInv'
  OBVIOUS
<1>1. CASE Ask
  BY <1>1 DEF Ask, PasswordsInv, PinTells
<1>2. CASE ReadDate
  <2>1. now \in Indexes /\ next \in {1, 3} /\ next' = next + 1
    BY <1>2 DEF ReadDate, PasswordsInv
  <2>2. /\ read' \in Seq(Indexes) /\ Len(read') = next
        /\ read'[next] = now /\ \A i \in 1..(next - 1) : read'[i] = read[i]
    <3>1. read \in Seq(Indexes) /\ Len(read) = next - 1 /\ read' = Append(read, now)
      BY <1>2, <2>1 DEF ReadDate, PasswordsInv
    <3> QED
      BY <2>1, <3>1, ReadAgain
  <2>3. UNCHANGED <<now, terminal, menu, pin, told>> /\ date' = Moments[now].date
    BY <1>2 DEF ReadDate
  <2>4. date' = Moments[read'[next]].date
    BY <2>2, <2>3
  <2>5. next' = 4 => pin' = Password(DateOf(1), TimeOf(2))'
    BY <2>1, <2>2, <2>3 DEF DateOf, TimeOf, Password, PasswordsInv
  <2>6. (next' = 2 => date' = DateOf(1)') /\ (next' = 4 => date' = DateOf(3)')
    BY <2>1, <2>4 DEF DateOf
  <2>7. terminal' \in Terminals /\ menu' \in Menus /\ next' \in {2, 4}
    BY <2>1, <2>3 DEF PasswordsInv
  <2> QED
    BY <2>1, <2>2, <2>3, <2>5, <2>6, <2>7 DEF PasswordsInv, PinTells
<1>3. CASE passwd_debug
  <2>1. now \in Indexes /\ next = 2 /\ next' = 3
    BY <1>3 DEF passwd_debug, PasswordsInv
  <2>2. /\ read' \in Seq(Indexes) /\ Len(read') = 2
        /\ read'[2] = now /\ read'[1] = read[1]
    <3>1. read \in Seq(Indexes) /\ Len(read) = 1 /\ read' = Append(read, now)
      BY <1>3, <2>1 DEF passwd_debug, PasswordsInv
    <3> QED
      BY <2>1, <3>1, ReadAgain
  <2>3. UNCHANGED <<now, terminal, menu, date, told>>
    BY <1>3 DEF passwd_debug
  <2>4. pin' = Password(DateOf(1), TimeOf(2))'
    BY <1>3, <2>1, <2>2, <2>3 DEF passwd_debug, DateOf, TimeOf, Password, PasswordsInv
  <2> QED
    BY <2>1, <2>2, <2>3, <2>4 DEF PasswordsInv, PinTells
<1>4. CASE passwd_debug_check
  <2>1. now \in Indexes /\ next = 4 /\ next' = 5
    BY <1>4 DEF passwd_debug_check, PasswordsInv
  <2>2. /\ read' \in Seq(Indexes) /\ Len(read') = 4 /\ Len(read) = 3
        /\ read'[4] = now /\ read'[3] = read[3] /\ read'[2] = read[2] /\ read'[1] = read[1]
    <3>1. read \in Seq(Indexes) /\ Len(read) = 3 /\ read' = Append(read, now)
      BY <1>4, <2>1 DEF passwd_debug_check, PasswordsInv
    <3> QED
      BY <2>1, <3>1, ReadAgain
  <2>3. UNCHANGED <<now, terminal, menu, pin, date>>
    BY <1>4 DEF passwd_debug_check
  <2>4. read[1] \in Indexes /\ read[2] \in Indexes
    <3>1. read \in Seq(Indexes)
      BY DEF PasswordsInv
    <3> QED
      BY <2>2, <3>1, ReadAgain
  <2>5. DateOf(1) \in Nat /\ TimeOf(2) \in Times /\ Moments[now].time \in Times
    BY <2>1, <2>4, MomentsFacts DEF DateOf, TimeOf
  <2>6. menu \in Menus /\ terminal \in Terminals /\ date = DateOf(3) /\ pin = Password(DateOf(1), TimeOf(2))
    BY <2>1 DEF PasswordsInv
  <2> DEFINE temp == Xor(Xor(pin, terminal), date)
  <2>7. ASSUME DateOf(1) = DateOf(3)
        PROVE  told' = IF TimeOf(2) = Moments[now].time THEN menu ELSE -1
    <3>1. temp = Coded(menu, TimeOf(2))
      BY <2>5, <2>6, <2>7, PasswordUndone
    <3>2. menu \in 0..99
      BY <2>6, MenusAssumption
    <3>3. EightDigits(temp) /\ TimeIn(temp) = TimeOf(2) /\ MenuIn(temp) = menu
      BY <2>5, <3>1, <3>2, CodedFacts
    <3>4. told' = IF EightDigits(temp) /\ TimeIn(temp) = Moments[now].time
                  THEN MenuIn(temp) ELSE -1
      BY <1>4, Zenon DEF passwd_debug_check
    <3> HIDE DEF temp
    <3> QED
      BY <3>3, <3>4
  <2>8. PinTells'
    BY <2>1, <2>2, <2>3, <2>7 DEF PinTells, DateOf, TimeOf
  <2> QED
    BY <2>1, <2>2, <2>3, <2>6, <2>8 DEF PasswordsInv
<1>5. CASE ClockMoves
  <2>1. now' \in Indexes
    BY <1>5, MomentsFacts DEF ClockMoves, PasswordsInv, Indexes
  <2> QED
    BY <1>5, <2>1 DEF ClockMoves, PasswordsInv, PinTells, DateOf, TimeOf, Password
<1>6. CASE UNCHANGED passwordVars
  BY <1>6 DEF passwordVars, PasswordsInv, PinTells, DateOf, TimeOf, Password
<1> QED
  BY <1>1, <1>2, <1>3, <1>4, <1>5, <1>6 DEF PasswordsNext

\* PinTells for every terminal, menu and course of the clock: with both dates the same, a
\* password is accepted in the minute it was made in and in no other. (util.c 604-633)
THEOREM PasswordTells == PasswordsSpec => []PinTells
<1>1. PasswordsInv => PinTells
  BY DEF PasswordsInv
<1> QED
  BY <1>1, PasswordsInitOk, PasswordsStep, PTL DEF PasswordsSpec

-----------------------------------------------------------------------------
(* Messages and their blocks *)

\* A message is whole blocks and a remainder shorter than a block.
LEMMA Sizes ==
    ASSUME NEW m \in Seq(Bytes)
    PROVE  /\ Whole(m) \in Nat /\ Remain(m) \in Nat /\ Remain(m) < Block
           /\ Len(m) \in Nat /\ Len(m) = Block * Whole(m) + Remain(m)
           /\ Count(m) \in Nat /\ Whole(m) <= Count(m) /\ Len(m) <= Block * Count(m)
           /\ Remain(m) = 0 => Count(m) = Whole(m)
           /\ Remain(m) > 0 => Count(m) = Whole(m) + 1
           /\ Count(m) <= Whole(m) + 1
<1>1. Block \in Nat \ {0} /\ Len(m) \in Nat
  BY BlockAssumption
<1>2. /\ Whole(m) \in Nat /\ Remain(m) \in Nat /\ Remain(m) < Block
      /\ Len(m) = Block * Whole(m) + Remain(m)
  BY <1>1, Divided DEF Whole, Remain
<1>3. Block * (Whole(m) + 1) = Block * Whole(m) + Block /\ Block * Whole(m) \in Nat
  BY <1>1, <1>2
<1> QED
  BY <1>1, <1>2, <1>3 DEF Count

\* Byte r of block i has its place among n blocks,
LEMMA PlaceOf ==
    ASSUME NEW n \in Nat, NEW i \in 1..n, NEW r \in 1..Block
    PROVE  /\ Place(i, r) \in 1..(Block * n)
           /\ BlockNo(Place(i, r)) = i /\ ByteNo(Place(i, r)) = r
<1>1. Block \in Nat \ {0} /\ i - 1 \in Nat /\ r - 1 \in Nat /\ r - 1 < Block /\ n - i \in Nat
  BY BlockAssumption
<1>2. (Block * (i - 1) + (r - 1)) \div Block = i - 1 /\ (Block * (i - 1) + (r - 1)) % Block = r - 1
  BY <1>1, DividedUnique
<1>3. /\ Block * (i - 1) \in Nat /\ Block * (n - i) \in Nat
      /\ Block * n = Block * (i - 1) + Block + Block * (n - i)
  BY <1>1
<1>4. Block * (i - 1) + r - 1 = Block * (i - 1) + (r - 1)
  BY <1>1, <1>3
<1> QED
  BY <1>1, <1>2, <1>3, <1>4 DEF Place, BlockNo, ByteNo

\* and each place is one of a block.
LEMMA BlockOf ==
    ASSUME NEW n \in Nat, NEW j \in 1..(Block * n)
    PROVE  BlockNo(j) \in 1..n /\ ByteNo(j) \in 1..Block /\ j = Place(BlockNo(j), ByteNo(j))
<1>1. Block \in Nat \ {0} /\ j - 1 \in Nat /\ j - 1 < Block * n /\ j \in Nat
  BY BlockAssumption
<1>2. PICK q \in Nat, s \in Nat :
          s < Block /\ j - 1 = Block * q + s /\ (j - 1) \div Block = q /\ (j - 1) % Block = s
  BY <1>1, Divided
<1>3. BlockNo(j) = q + 1 /\ ByteNo(j) = s + 1
  BY <1>2 DEF BlockNo, ByteNo
<1>4. q < n
  <2>1. SUFFICES ASSUME q >= n PROVE FALSE
    OBVIOUS
  <2>2. q - n \in Nat /\ Block * q = Block * n + Block * (q - n)
    BY <1>1, <2>1
  <2>3. Block * (q - n) \in Nat /\ Block * n \in Nat
    BY <1>1, <2>2
  <2> QED
    BY <1>1, <1>2, <2>2, <2>3
<1>5. q + 1 \in 1..n /\ s + 1 \in 1..Block /\ q + 1 - 1 = q
  BY <1>1, <1>2, <1>4
<1>6. Block * q \in Nat
  BY <1>1
<1>7. j = Block * q + (s + 1)
  BY <1>1, <1>2, <1>6
<1>8. Place(q + 1, s + 1) = Block * q + (s + 1)
  BY <1>5 DEF Place
<1> QED
  BY <1>3, <1>5, <1>7, <1>8

\* Blocks put together are found again.
LEMMA JoinedBlocks ==
    ASSUME NEW n \in Nat, NEW bs \in [1..n -> Blocks]
    PROVE  /\ Joined(bs, n) \in [1..(Block * n) -> Bytes]
           /\ \A i \in 1..n : BlockAt(Joined(bs, n), i) = bs[i]
<1>1. ASSUME NEW j \in 1..(Block * n) PROVE Joined(bs, n)[j] \in Bytes
  BY <1>1, BlockOf DEF Joined, Blocks
<1>2. Joined(bs, n) \in [1..(Block * n) -> Bytes]
  BY <1>1 DEF Joined
<1>3. ASSUME NEW i \in 1..n PROVE BlockAt(Joined(bs, n), i) = bs[i]
  <2>1. ASSUME NEW r \in 1..Block PROVE Joined(bs, n)[Place(i, r)] = bs[i][r]
    BY PlaceOf DEF Joined
  <2>2. bs[i] = [r \in 1..Block |-> bs[i][r]]
    BY DEF Blocks
  <2> QED
    BY <2>1, <2>2 DEF BlockAt
<1> QED
  BY <1>2, <1>3

\* A text of whole blocks
LEMMA WholeText ==
    ASSUME NEW n \in Nat, NEW t \in [1..(Block * n) -> Bytes]
    PROVE  /\ t \in Seq(Bytes) /\ Len(t) = Block * n
           /\ Whole(t) = n /\ Remain(t) = 0 /\ Count(t) = n
           /\ \A i \in 1..n : Input(t, i) = BlockAt(t, i) /\ Input(t, i) \in Blocks
<1>1. Block \in Nat \ {0} /\ Block * n \in Nat
  BY BlockAssumption
<1>2. t \in Seq(Bytes) /\ Len(t) = Block * n
  BY <1>1
<1>3. (Block * n + 0) \div Block = n /\ (Block * n + 0) % Block = 0 /\ Block * n + 0 = Block * n
  BY <1>1, DividedUnique
<1>4. Whole(t) = n /\ Remain(t) = 0 /\ Count(t) = n
  BY <1>2, <1>3 DEF Whole, Remain, Count
<1>5. ASSUME NEW i \in 1..n PROVE BlockAt(t, i) \in Blocks
  BY <1>5, PlaceOf DEF BlockAt, Blocks
<1> QED
  BY <1>2, <1>4, <1>5 DEF Input

\* What is taken from a message are blocks,
LEMMA InputBlock ==
    ASSUME NEW m \in Seq(Bytes), NEW i \in 1..Count(m)
    PROVE  Input(m, i) \in Blocks
<1>1. Block \in Nat \ {0} /\ 0 \in Bytes /\ \A j \in 1..Len(m) : m[j] \in Bytes
  BY BlockAssumption, BytesAssumption
<1>2. CASE i <= Whole(m)
  <2>1. i \in 1..Whole(m) /\ Whole(m) \in Nat
    BY <1>2, Sizes
  <2>2. ASSUME NEW r \in 1..Block PROVE m[Place(i, r)] \in Bytes
    <3>1. Place(i, r) \in 1..(Block * Whole(m))
      BY <2>1, PlaceOf
    <3>2. Place(i, r) \in 1..Len(m)
      BY <1>1, <2>1, <3>1, Sizes
    <3> QED
      BY <1>1, <3>2
  <2> QED
    BY <1>2, <2>2 DEF Input, BlockAt, Blocks
<1>3. CASE i > Whole(m)
  <2>1. ASSUME NEW r \in 1..Block, r <= Remain(m)
        PROVE  r \in 1..Remain(m) /\ m[Place(Whole(m) + 1, r)] \in Bytes
    <3>1. Block * Whole(m) \in Nat /\ Whole(m) + 1 - 1 = Whole(m)
      BY <1>1, Sizes
    <3>2. Place(Whole(m) + 1, r) \in 1..Len(m)
      BY <1>1, <2>1, <3>1, Sizes DEF Place
    <3> QED
      BY <1>1, <2>1, <3>2, Sizes
  <2>2. Filled(Rest(m), Remain(m)) \in Blocks
    BY <1>1, <2>1 DEF Filled, Rest, Blocks
  <2> QED
    BY <1>3, <2>2, Sizes DEF Input
<1> QED
  BY <1>2, <1>3, Sizes

\* and put together they are the message and its zeroes.
LEMMA InputsJoined ==
    ASSUME NEW m \in Seq(Bytes), NEW bs, bs = [i \in 1..Count(m) |-> Input(m, i)]
    PROVE  Joined(bs, Count(m)) = Padded(m)
<1>1. Block \in Nat \ {0} /\ Count(m) \in Nat /\ Whole(m) \in Nat /\ Remain(m) \in Nat
  BY BlockAssumption, Sizes
<1>2. ASSUME NEW i \in 1..Count(m), NEW r \in 1..Block
      PROVE  Input(m, i)[r] = LET j == Place(i, r) IN IF j <= Len(m) THEN m[j] ELSE 0
  <2>1. CASE i <= Whole(m)
    <3>0. i \in 1..Whole(m) /\ Block * Whole(m) \in Nat
      BY <1>1, <2>1
    <3>1. Place(i, r) \in 1..(Block * Whole(m)) /\ Block * Whole(m) \in Nat
      BY <1>1, <3>0, PlaceOf
    <3>2. Place(i, r) <= Len(m)
      BY <1>1, <3>1, Sizes
    <3> QED
      BY <2>1, <3>2 DEF Input, BlockAt
  <2>2. CASE i > Whole(m)
    <3>0. Count(m) <= Whole(m) + 1
      BY Sizes
    <3>1. i = Whole(m) + 1 /\ i - 1 = Whole(m) /\ ~(i <= Whole(m))
      BY <1>1, <2>2, <3>0
    <3>2. Block * Whole(m) \in Nat /\ Len(m) = Block * Whole(m) + Remain(m)
      BY <1>1, Sizes
    <3>2a. \A x \in Nat : x + r <= x + Remain(m) <=> r <= Remain(m)
      BY <1>1
    <3>3. Place(i, r) <= Len(m) <=> r <= Remain(m)
      BY <3>1, <3>2, <3>2a, Zenon DEF Place
    <3>4. Input(m, i)[r] = IF r <= Remain(m) THEN Rest(m)[r] ELSE 0
      BY <3>1 DEF Input, Filled
    <3>5. r <= Remain(m) => Rest(m)[r] = m[Place(i, r)]
      BY <1>1, <3>1 DEF Rest
    <3> QED
      BY <3>1, <3>3, <3>4, <3>5
  <2> QED
    BY <1>1, <2>1, <2>2
<1>3. ASSUME NEW j \in 1..(Block * Count(m))
      PROVE  bs[BlockNo(j)][ByteNo(j)] = IF j <= Len(m) THEN m[j] ELSE 0
  <2>1. BlockNo(j) \in 1..Count(m) /\ ByteNo(j) \in 1..Block /\ j = Place(BlockNo(j), ByteNo(j))
    BY <1>1, BlockOf
  <2>2. bs[BlockNo(j)] = Input(m, BlockNo(j))
    BY <2>1
  <2> QED
    BY <1>2, <2>1, <2>2
<1> QED
  BY <1>3 DEF Joined, Padded

-----------------------------------------------------------------------------
(* The cipher and the exclusive or *)

\* A block is decrypted to what was encrypted.
LEMMA CipherBack ==
    ASSUME NEW k \in Keys, NEW b \in Blocks
    PROVE  Enc(k, b) \in Blocks /\ Dec(k, Enc(k, b)) = b
<1>1. Cipher[k][b] \in Blocks /\ \A c \in Blocks : Cipher[k][c] = Cipher[k][b] => c = b
  BY CipherAssumption
<1> QED
  BY <1>1 DEF Enc, Dec

\* A byte is one of an int's numbers.
LEMMA ByteFits == \A x \in 0..255 : x \in Nat /\ x < Power(2, IntBits)
BY PowersOfTwo, SMT

\* Two blocks XORed give a block, and XORing again takes the second off.
LEMMA XorBlocksFacts ==
    ASSUME NEW a \in Blocks, NEW b \in Blocks
    PROVE  /\ XorBlocks(a, b) \in Blocks /\ XorBlocks(a, b) = XorBlocks(b, a)
           /\ XorBlocks(XorBlocks(a, b), b) = a
<1>1. ASSUME NEW x \in Bytes, NEW y \in Bytes
      PROVE  Xor(x, y) \in Bytes /\ Xor(x, y) = Xor(y, x) /\ Xor(Xor(x, y), y) = x
  <2>1. x \in Nat /\ y \in Nat /\ x < Power(2, IntBits)
    BY BytesAssumption, ByteFits, Zenon
  <2> QED
    BY <2>1, BytesAssumption, XorFacts, Zenon
<1>2. /\ DOMAIN a = 1..Block /\ DOMAIN b = 1..Block
      /\ \A r \in 1..Block : a[r] \in Bytes /\ b[r] \in Bytes
      /\ a = [r \in 1..Block |-> a[r]]
  BY DEF Blocks
<1>3. XorBlocks(a, b) = [r \in 1..Block |-> Xor(a[r], b[r])]
  BY <1>2 DEF XorBlocks
<1>4. XorBlocks(b, a) = [r \in 1..Block |-> Xor(b[r], a[r])]
  BY <1>2 DEF XorBlocks
<1>5. XorBlocks(XorBlocks(a, b), b) = [r \in 1..Block |-> Xor(Xor(a[r], b[r]), b[r])]
  BY <1>3 DEF XorBlocks
<1>6. XorBlocks(a, b) \in Blocks
  <2>1. \A r \in 1..Block : Xor(a[r], b[r]) \in Bytes
    BY <1>1, <1>2
  <2> QED
    BY <1>3, <2>1 DEF Blocks
<1>7. XorBlocks(a, b) = XorBlocks(b, a)
  BY <1>1, <1>2, <1>3, <1>4
<1>8. XorBlocks(XorBlocks(a, b), b) = a
  BY <1>1, <1>2, <1>5
<1> QED
  BY <1>6, <1>7, <1>8

-----------------------------------------------------------------------------
(* CBC and MAC *)

\* f goes from block to block as the chain does.
Chains(f, k, m) ==
    /\ f[0] = Zero
    /\ \A i \in 1..Count(m) : f[i] = Enc(k, XorBlocks(Input(m, i), f[i - 1]))

\* A step of the chain encrypts a block into a block.
LEMMA ChainStep ==
    ASSUME NEW k \in Keys, NEW m \in Seq(Bytes), NEW i \in 1..Count(m), NEW v \in Blocks
    PROVE  Enc(k, XorBlocks(Input(m, i), v)) \in Blocks
BY InputBlock, XorBlocksFacts, CipherBack

\* The block the chain begins with.
LEMMA ZeroBlock == Zero \in Blocks
BY BytesAssumption DEF Zero, Blocks

\* There is such a function,
LEMMA ChainExists ==
    ASSUME NEW k \in Keys, NEW m \in Seq(Bytes)
    PROVE  \E f \in [0..Count(m) -> Blocks] : Chains(f, k, m)
<1> DEFINE step == [p \in (1..Count(m)) \X Blocks |-> Enc(k, XorBlocks(Input(m, p[1]), p[2]))]
<1>1. Steps(Count(m), Blocks, Zero, step)
  BY Sizes, ZeroBlock, ChainStep DEF Steps
<1>2. Count(m) \in Nat
  BY Sizes
<1>3. ASSUME NEW i \in 1..Count(m), NEW v \in Blocks
      PROVE  step[<<i, v>>] = Enc(k, XorBlocks(Input(m, i), v))
  OBVIOUS
<1> HIDE DEF step
<1>4. PICK f : Recurs(f, Count(m), Blocks, Zero, step)
  BY <1>1, Recursion, Zenon
<1>5. f \in [0..Count(m) -> Blocks] /\ f[0] = Zero
  BY <1>4 DEF Recurs
<1>6. ASSUME NEW i \in 1..Count(m) PROVE f[i] = Enc(k, XorBlocks(Input(m, i), f[i - 1]))
  <2>1. i - 1 \in 0..Count(m)
    BY <1>2
  <2>2. f[i] = step[<<i, f[i - 1]>>] /\ f[i - 1] \in Blocks
    BY <1>4, <1>5, <2>1 DEF Recurs
  <2> QED
    BY <1>3, <2>2
<1> QED
  BY <1>5, <1>6 DEF Chains

\* and only one.
LEMMA ChainUnique ==
    ASSUME NEW k \in Keys, NEW m \in Seq(Bytes)
    PROVE  \A f, g : Chains(f, k, m) /\ Chains(g, k, m) => \A i \in 0..Count(m) : f[i] = g[i]
<1> SUFFICES ASSUME NEW f, NEW g, Chains(f, k, m), Chains(g, k, m)
             PROVE  \A i \in 0..Count(m) : f[i] = g[i]
  OBVIOUS
<1> DEFINE S == {i \in Nat : f[i] = g[i]}
<1>1. Count(m) \in Nat
  BY Sizes
<1>2. 0 \in S
  BY DEF Chains
<1>3. ASSUME NEW i \in 0..(Count(m) - 1), i \in S PROVE i + 1 \in S
  <2>1. i + 1 \in 1..Count(m) /\ i + 1 - 1 = i /\ i + 1 \in Nat
    BY <1>1
  <2>2. f[i + 1] = Enc(k, XorBlocks(Input(m, i + 1), f[i])) /\ g[i + 1] = Enc(k, XorBlocks(Input(m, i + 1), g[i]))
    BY <2>1 DEF Chains
  <2> QED
    BY <1>3, <2>1, <2>2
<1> HIDE DEF S
<1>4. 0..Count(m) \subseteq S
  BY <1>1, <1>2, <1>3, AllUpTo
<1> QED
  BY <1>4 DEF S

\* Chained is the one,
LEMMA ChainedIs ==
    ASSUME NEW k \in Keys, NEW m \in Seq(Bytes)
    PROVE  Chains(Chained(k, m), k, m) /\ \A i \in 0..Count(m) : Chained(k, m)[i] \in Blocks
<1> DEFINE Is(c) == c = [i \in 0..Count(m) |->
                            IF i = 0 THEN Zero
                            ELSE Enc(k, XorBlocks(Input(m, i), Iv(m, i, c[i - 1])))]
<1>1. Count(m) \in Nat /\ \A i \in 1..Count(m) : i \in 0..Count(m) /\ i # 0
  BY Sizes
<1>2. \A i, iv : Iv(m, i, iv) = iv
  BY DEF Iv, IvOfRest
<1>3. PICK f \in [0..Count(m) -> Blocks] : Chains(f, k, m)
  BY ChainExists
<1>4. ASSUME NEW i \in 0..Count(m)
      PROVE  f[i] = IF i = 0 THEN Zero ELSE Enc(k, XorBlocks(Input(m, i), Iv(m, i, f[i - 1])))
  <2>1. i # 0 => i \in 1..Count(m)
    BY <1>1
  <2> QED
    BY <1>2, <1>3, <2>1 DEF Chains
<1>5. Is(f)
  BY <1>3, <1>4
<1>6. Is(Chained(k, m))
  BY <1>5, Zenon DEF Chained
<1>7. Chains(Chained(k, m), k, m)
  <2> DEFINE c == Chained(k, m)
  <2> HIDE DEF c
  <2>1. Is(c)
    BY <1>6 DEF c
  <2>2. c[0] = Zero
    BY <1>1, <2>1
  <2>3. ASSUME NEW i \in 1..Count(m) PROVE c[i] = Enc(k, XorBlocks(Input(m, i), c[i - 1]))
    BY <1>1, <1>2, <2>1
  <2>4. Chains(c, k, m)
    BY <2>2, <2>3 DEF Chains
  <2> QED
    BY <2>4 DEF c
<1>8. \A u, v : Chains(u, k, m) /\ Chains(v, k, m) => \A i \in 0..Count(m) : u[i] = v[i]
  BY ChainUnique, Zenon
<1>9. \A i \in 0..Count(m) : f[i] = Chained(k, m)[i]
  BY <1>3, <1>7, <1>8, Zenon
<1> QED
  BY <1>3, <1>7, <1>9

\* and what mac_des returns is its last block.
LEMMA MacIs ==
    ASSUME NEW k \in Keys, NEW m \in Seq(Bytes)
    PROVE  mac_des(k, m) = Chained(k, m)[Count(m)]
<1> DEFINE Is(c) == c = [i \in 0..Count(m) |->
                            IF i = 0 THEN Zero ELSE Enc(k, XorBlocks(c[i - 1], Input(m, i)))]
           out == CHOOSE c : Is(c)
<1>1. Count(m) \in Nat /\ \A i \in 1..Count(m) : i \in 0..Count(m) /\ i # 0 /\ i - 1 \in 0..Count(m)
  BY Sizes
<1>2. PICK f \in [0..Count(m) -> Blocks] : Chains(f, k, m)
  BY ChainExists
<1>3. \A i \in 1..Count(m), v \in Blocks : XorBlocks(Input(m, i), v) = XorBlocks(v, Input(m, i))
  BY InputBlock, XorBlocksFacts
<1>4. ASSUME NEW i \in 0..Count(m)
      PROVE  f[i] = IF i = 0 THEN Zero ELSE Enc(k, XorBlocks(f[i - 1], Input(m, i)))
  <2>1. CASE i # 0
    <3>1. i \in 1..Count(m) /\ i - 1 \in 0..Count(m)
      BY <1>1, <2>1
    <3>2. XorBlocks(Input(m, i), f[i - 1]) = XorBlocks(f[i - 1], Input(m, i))
      BY <1>2, <1>3, <3>1
    <3> QED
      BY <1>2, <2>1, <3>1, <3>2 DEF Chains
  <2> QED
    BY <1>2, <2>1 DEF Chains
<1>5. Is(f)
  BY <1>2, <1>4
<1>6. Is(out)
  BY <1>5
<1>7. mac_des(k, m) = out[Count(m)]
  BY Zenon DEF mac_des
<1> DEFINE S == {i \in Nat : out[i] = f[i]}
<1> HIDE DEF out
<1>8. 0..Count(m) \subseteq S
  <2>1. 0 \in S
    BY <1>1, <1>2, <1>6 DEF Chains
  <2>2. ASSUME NEW i \in 0..(Count(m) - 1), i \in S PROVE i + 1 \in S
    <3>1. i + 1 \in 1..Count(m) /\ i + 1 - 1 = i /\ i + 1 \in Nat /\ i \in 0..Count(m)
      BY <1>1
    <3>2. out[i + 1] = Enc(k, XorBlocks(out[i], Input(m, i + 1)))
      BY <1>1, <1>6, <3>1
    <3>3. f[i + 1] = Enc(k, XorBlocks(Input(m, i + 1), f[i]))
      BY <1>2, <3>1 DEF Chains
    <3>4. out[i] = f[i] /\ f[i] \in Blocks
      BY <1>2, <2>2, <3>1
    <3> QED
      BY <1>3, <3>1, <3>2, <3>3, <3>4
  <2> HIDE DEF S
  <2> QED
    BY <1>1, <2>1, <2>2, AllUpTo
<1>9. \A i \in 0..Count(m) : f[i] = Chained(k, m)[i]
  <2>1. Chains(Chained(k, m), k, m)
    BY ChainedIs
  <2>2. \A u, v : Chains(u, k, m) /\ Chains(v, k, m) => \A i \in 0..Count(m) : u[i] = v[i]
    BY ChainUnique, Zenon
  <2> QED
    BY <1>2, <2>1, <2>2, Zenon
<1> QED
  BY <1>1, <1>7, <1>8, <1>9

\* With three keys that are one, the MAC is the same.
LEMMA MacOfOneKey ==
    ASSUME NEW k \in Keys, NEW m \in Seq(Bytes), m # <<>>
    PROVE  mac_des_3des(k, k, k, m) = mac_des(k, m)
<1> DEFINE n == Count(m)
           v == Chained(k, m)[n - 1]
<1>1. n \in 1..n /\ n - 1 \in 0..n
  <2>1. Len(m) \in Nat /\ Len(m) # 0
    OBVIOUS
  <2>2. Block * 0 = 0
    BY BlockAssumption
  <2>3. n \in Nat /\ n # 0
    BY <2>1, <2>2, Sizes
  <2> HIDE DEF n
  <2> QED
    BY <2>3
<1>2. v \in Blocks /\ Chained(k, m)[n] = Enc(k, XorBlocks(Input(m, n), v))
  BY <1>1, ChainedIs DEF Chains
<1> HIDE DEF n, v
<1>3. XorBlocks(Input(m, n), v) \in Blocks
  BY <1>1, <1>2, InputBlock, XorBlocksFacts DEF n
<1>4. mac_des(k, m) = Enc(k, XorBlocks(Input(m, n), v))
  BY <1>2, MacIs DEF n
<1>5. Dec(k, mac_des(k, m)) = XorBlocks(Input(m, n), v)
  BY <1>3, <1>4, CipherBack
<1> QED
  BY <1>4, <1>5 DEF mac_des_3des

\* The blocks of the CBC are the chain,
LEMMA CbcBlocks ==
    ASSUME NEW k \in Keys, NEW m \in Seq(Bytes)
    PROVE  /\ Cbc(k, "encrypt", m) \in [1..(Block * Count(m)) -> Bytes]
           /\ \A i \in 1..Count(m) : BlockAt(Cbc(k, "encrypt", m), i) = Chained(k, m)[i]
<1> DEFINE bs == [i \in 1..Count(m) |-> Chained(k, m)[i]]
<1>1. Count(m) \in Nat
  BY Sizes
<1>2. bs \in [1..Count(m) -> Blocks]
  BY <1>1, ChainedIs
<1>3. Cbc(k, "encrypt", m) = Joined(bs, Count(m))
  BY DEF Cbc
<1>4. \A i \in 1..Count(m) : bs[i] = Chained(k, m)[i]
  OBVIOUS
<1> HIDE DEF bs
<1> QED
  BY <1>1, <1>2, <1>3, <1>4, JoinedBlocks

\* and are decrypted to the message and its zeroes.
LEMMA CbcBack ==
    ASSUME NEW k \in Keys, NEW m \in Seq(Bytes)
    PROVE  Cbc(k, "decrypt", Cbc(k, "encrypt", m)) = Padded(m)
<1> DEFINE n == Count(m)
           t == Cbc(k, "encrypt", m)
           c == Chained(k, m)
           before(i) == IF i = 1 THEN Zero ELSE Input(t, i - 1)
           bs == [i \in 1..n |-> XorBlocks(Dec(k, Input(t, i)), Iv(t, i, before(i)))]
           ins == [i \in 1..n |-> Input(m, i)]
<1>1. n \in Nat
  BY Sizes
<1>2. t \in [1..(Block * n) -> Bytes] /\ \A i \in 1..n : BlockAt(t, i) = c[i]
  BY CbcBlocks
<1>3. Chains(c, k, m) /\ \A i \in 0..n : c[i] \in Blocks
  BY ChainedIs
<1> HIDE DEF t, c, n
<1>4. Count(t) = n /\ \A i \in 1..n : Input(t, i) = c[i]
  BY <1>1, <1>2, WholeText
<1>5. ASSUME NEW i \in 1..n
      PROVE  XorBlocks(Dec(k, Input(t, i)), Iv(t, i, before(i))) = Input(m, i)
  <2>1. i - 1 \in 0..n /\ (i # 1 => i - 1 \in 1..n) /\ (i = 1 => i - 1 = 0)
    BY <1>1
  <2>2. before(i) = c[i - 1] /\ c[i - 1] \in Blocks
    BY <1>3, <1>4, <2>1 DEF Chains
  <2>3. Input(m, i) \in Blocks
    BY InputBlock DEF n
  <2>4. Input(t, i) = Enc(k, XorBlocks(Input(m, i), c[i - 1]))
    BY <1>3, <1>4 DEF Chains, n
  <2>5. Dec(k, Input(t, i)) = XorBlocks(Input(m, i), c[i - 1])
    BY <2>2, <2>3, <2>4, XorBlocksFacts, CipherBack
  <2>6. Iv(t, i, before(i)) = c[i - 1]
    BY <2>2 DEF Iv, IvOfRest
  <2> HIDE DEF before
  <2> QED
    BY <2>2, <2>3, <2>5, <2>6, XorBlocksFacts
<1>6. bs = ins
  BY <1>5
<1>7. Cbc(k, "decrypt", t) = Joined(bs, n)
  BY <1>4 DEF Cbc
<1>8. Joined(ins, n) = Padded(m)
  BY InputsJoined DEF n
<1> QED
  BY <1>6, <1>7, <1>8 DEF t

-----------------------------------------------------------------------------
(* ECB *)

\* Not in the same buffer, or without a partial block that the loop takes
Straight(alg, m, inPlace) == ~(inPlace /\ Remain(m) > 0 /\ LoopsOver(alg, m))

\* t is the blocks of m, each encrypted.
AreBlocks(t, k, m) ==
    /\ t \in [1..(Block * Count(m)) -> Bytes]
    /\ \A i \in 1..Count(m) : BlockAt(t, i) = Enc(k, Input(m, i))

\* What is not in the same buffer, or has no partial block that the loop takes, is
\* encrypted block by block,
LEMMA EcbBlocks ==
    ASSUME NEW alg, NEW k \in Keys, NEW m \in Seq(Bytes), NEW behind \in Seq(Bytes),
           NEW inPlace \in BOOLEAN, Straight(alg, m, inPlace)
    PROVE  AreBlocks(Ecb(alg, k, "encrypt", m, behind, inPlace), k, m)
<1> DEFINE n == Count(m)
           done(i) == Crypt(k, "encrypt", BlockAt(m \o behind, i))
           partial == IF inPlace /\ LoopsOver(alg, m) THEN done(n) ELSE Rest(m)
           last == Crypt(k, "encrypt", Filled(partial, Remain(m)))
           bs == [i \in 1..n |-> IF i <= Whole(m) THEN done(i) ELSE last]
           es == [i \in 1..n |-> Enc(k, Input(m, i))]
<1>1. /\ n \in Nat /\ Whole(m) \in Nat /\ Len(m) \in Nat /\ Block \in Nat \ {0}
      /\ (n > Whole(m) => Remain(m) > 0)
  BY Sizes, BlockAssumption
<1>2. ASSUME NEW i \in 1..n, i <= Whole(m) PROVE done(i) = Enc(k, Input(m, i))
  <2>1. i \in 1..Whole(m)
    BY <1>1, <1>2
  <2>2. ASSUME NEW r \in 1..Block PROVE (m \o behind)[Place(i, r)] = m[Place(i, r)]
    <3>1. Place(i, r) \in 1..(Block * Whole(m))
      BY <1>1, <2>1, PlaceOf
    <3>2. Block * Whole(m) \in Nat
      BY <1>1
    <3>3. Len(m) = Block * Whole(m) + Remain(m) /\ Remain(m) \in Nat
      BY Sizes
    <3>4. Place(i, r) \in 1..Len(m)
      BY <1>1, <3>1, <3>2, <3>3
    <3> QED
      BY <3>4
  <2>3. BlockAt(m \o behind, i) = BlockAt(m, i)
    BY <2>2 DEF BlockAt
  <2> QED
    BY <1>2, <2>3 DEF Crypt, Input
<1>3. ASSUME NEW i \in 1..n, ~(i <= Whole(m)) PROVE last = Enc(k, Input(m, i))
  <2>1. Remain(m) > 0
    BY <1>1, <1>3
  <2>2. partial = Rest(m)
    BY <2>1 DEF Straight
  <2> HIDE DEF partial
  <2> QED
    BY <1>3, <2>2 DEF Crypt, Input
<1>4. bs = es
  BY <1>2, <1>3
<1>5. Ecb(alg, k, "encrypt", m, behind, inPlace) = Joined(bs, n)
  BY DEF Ecb
<1>6. es \in [1..n -> Blocks]
  BY InputBlock, CipherBack
<1>7. \A i \in 1..n : es[i] = Enc(k, Input(m, i))
  OBVIOUS
<1> HIDE DEF bs, es
<1>8. Joined(es, n) \in [1..(Block * n) -> Bytes] /\ \A i \in 1..n : BlockAt(Joined(es, n), i) = es[i]
  BY <1>1, <1>6, JoinedBlocks
<1> QED
  BY <1>4, <1>5, <1>7, <1>8 DEF AreBlocks

\* and decrypted to the message and its zeroes.
LEMMA EcbBack ==
    ASSUME NEW alg, NEW k \in Keys, NEW m \in Seq(Bytes), NEW behind \in Seq(Bytes),
           NEW inPlace \in BOOLEAN, Straight(alg, m, inPlace)
    PROVE  Ecb(alg, k, "decrypt", Ecb(alg, k, "encrypt", m, behind, inPlace), <<>>, inPlace)
              = Padded(m)
<1> DEFINE n == Count(m)
           t == Ecb(alg, k, "encrypt", m, behind, inPlace)
           done(i) == Crypt(k, "decrypt", BlockAt(t \o <<>>, i))
           partial == IF inPlace /\ LoopsOver(alg, t) THEN done(Count(t)) ELSE Rest(t)
           last == Crypt(k, "decrypt", Filled(partial, Remain(t)))
           bs == [i \in 1..Count(t) |-> IF i <= Whole(t) THEN done(i) ELSE last]
           ins == [i \in 1..n |-> Input(m, i)]
<1>1. n \in Nat
  BY Sizes
<1>2. t \in [1..(Block * n) -> Bytes] /\ \A i \in 1..n : BlockAt(t, i) = Enc(k, Input(m, i))
  <2>1. AreBlocks(t, k, m)
    BY EcbBlocks
  <2> QED
    BY <2>1 DEF AreBlocks
<1>3. Ecb(alg, k, "decrypt", t, <<>>, inPlace) = Joined(bs, Count(t))
  BY DEF Ecb
<1> HIDE DEF t, n
<1>4. t \in Seq(Bytes) /\ Whole(t) = n /\ Count(t) = n
  BY <1>1, <1>2, WholeText
<1>5. t \o <<>> = t
  BY <1>4
<1>6. ASSUME NEW i \in 1..n PROVE done(i) = Input(m, i)
  <2>1. Input(m, i) \in Blocks
    BY InputBlock DEF n
  <2>2. Dec(k, Enc(k, Input(m, i))) = Input(m, i)
    BY <2>1, CipherBack
  <2> QED
    BY <1>2, <1>5, <2>2 DEF Crypt
<1>7. bs = ins
  <2> HIDE DEF done, last
  <2> QED
    BY <1>1, <1>4, <1>6
<1>8. Joined(ins, n) = Padded(m)
  BY InputsJoined DEF n
<1> QED
  BY <1>3, <1>4, <1>7, <1>8 DEF t

-----------------------------------------------------------------------------
(* The PIN *)

\* Three sequences in one: the first has two elements.
IsJoinOfThree(q, h, p, f, S) ==
    /\ q \in Seq(S) /\ Len(q) = 2 + Len(p) + Len(f)
    /\ q[2] = h[2] /\ \A i \in 1..Len(p) : q[i + 2] = p[i]

\* Joining three sequences gives their join.
LEMMA ThreeParts ==
    ASSUME NEW S, NEW h \in Seq(S), NEW p \in Seq(S), NEW f \in Seq(S), Len(h) = 2
    PROVE  IsJoinOfThree(h \o p \o f, h, p, f, S)
<1> DEFINE q == h \o p
           r == q \o f
<1>1. Len(p) \in Nat /\ Len(h) \in Nat
  BY LenProperties
<1>2. IsJoin(q, h, p, S)
  BY TwoParts
<1> HIDE DEF q
<1>3. IsJoin(r, q, f, S)
  <2>1. q \in Seq(S)
    BY <1>2 DEF IsJoin
  <2> QED
    BY <2>1, TwoParts
<1> HIDE DEF r
<1>4. 2 \in 1..Len(q) /\ 2 \in 1..Len(h) /\ \A i \in 1..Len(p) : i + 2 \in 1..Len(q)
  BY <1>1, <1>2 DEF IsJoin
<1>5. r[2] = h[2]
  BY <1>2, <1>3, <1>4 DEF IsJoin
<1>6. ASSUME NEW i \in 1..Len(p) PROVE r[i + 2] = p[i]
  <2>1. r[i + 2] = q[i + 2]
    BY <1>3, <1>4 DEF IsJoin
  <2> QED
    BY <1>2, <2>1 DEF IsJoin
<1>7. r \in Seq(S) /\ Len(r) = 2 + Len(p) + Len(f)
  BY <1>2, <1>3 DEF IsJoin
<1>8. IsJoinOfThree(r, h, p, f, S)
  BY <1>5, <1>6, <1>7 DEF IsJoinOfThree
<1> QED
  BY <1>8 DEF q, r

\* What pin_encrypt is given: a PIN of at most 14 digits and 12 of a card number.
IsPin(num, track) ==
    /\ num \in Seq(0..9) /\ Len(num) <= 14
    /\ track \in Seq(0..9) /\ Len(track) = 12

\* The digits of a block of half bytes.
LEMMA Digits == 0 \in 0..15 /\ 15 \in 0..15 /\ 0..9 \subseteq 0..15
OBVIOUS

\* The block of a PIN holds its length and its digits.
LEMMA PinParts ==
    ASSUME NEW num, NEW track, IsPin(num, track)
    PROVE  /\ PinPart(num) \in [1..16 -> 0..15]
           /\ TrackPart(track) \in [1..16 -> 0..15]
           /\ PinPart(num)[2] = IF Len(num) <= 9 THEN Len(num) ELSE 0
           /\ \A i \in 1..Len(num) : PinPart(num)[i + 2] = num[i]
<1> DEFINE n == Len(num)
           d == IF n <= 9 THEN n ELSE 0
           h == <<0, d>>
           f == [i \in 1..(14 - n) |-> 15]
           S == 0..15
<1>0. 0 \in S /\ 15 \in S /\ 0..9 \subseteq S
  BY Digits
<1>1. n \in Nat /\ n <= 14
  BY LenProperties DEF IsPin
<1>2. d \in S
  <2>1. \A x \in Nat : x <= 9 => x \in 0..15
    OBVIOUS
  <2> HIDE DEF n
  <2> QED
    BY <1>0, <1>1, <2>1, Zenon
<1>3. num \in Seq(S) /\ track \in Seq(S) /\ Len(track) = 12
  BY <1>0, SeqMonotonic DEF IsPin
<1>4. PinPart(num) = h \o num \o f
  BY DEF PinPart
<1> HIDE DEF S, d
<1>5. h \in Seq(S) /\ Len(h) = 2 /\ h[2] = d
  BY <1>0, <1>2
<1>6. f \in Seq(S) /\ Len(f) = 14 - n
  <2>1. 14 - n \in Nat /\ f \in [1..(14 - n) -> S]
    BY <1>0, <1>1
  <2> HIDE DEF f, n
  <2> QED
    BY <2>1, AsSequence
<1> HIDE DEF h, f
<1>7. /\ PinPart(num) \in Seq(S) /\ Len(PinPart(num)) = 2 + n + (14 - n) /\ PinPart(num)[2] = d
      /\ \A i \in 1..n : PinPart(num)[i + 2] = num[i]
  <2>1. IsJoinOfThree(PinPart(num), h, num, f, S)
    BY <1>3, <1>4, <1>5, <1>6, ThreeParts
  <2> QED
    BY <1>5, <1>6, <2>1 DEF IsJoinOfThree
<1>8. PinPart(num) \in [1..16 -> S]
  <2>1. Len(PinPart(num)) = 16
    BY <1>1, <1>7
  <2> QED
    BY <1>7, <2>1, LenProperties
<1>9. TrackPart(track) \in [1..16 -> S]
  <2>1. <<0, 0, 0, 0>> \in Seq(S) /\ Len(<<0, 0, 0, 0>>) = 4
    BY <1>0
  <2>2. TrackPart(track) \in Seq(S) /\ Len(TrackPart(track)) = 4 + 12
    <3>1. IsJoin(TrackPart(track), <<0, 0, 0, 0>>, track, S)
      BY <1>3, <2>1, TwoParts DEF TrackPart
    <3> QED
      BY <1>3, <2>1, <3>1 DEF IsJoin
  <2>3. Len(TrackPart(track)) = 16
    BY <2>2
  <2> QED
    BY <2>2, <2>3, LenProperties
<1> QED
  BY <1>7, <1>8, <1>9 DEF S, d

\* A PIN is read back from its block, if one digit says how long it is.
LEMMA PinBack ==
    ASSUME NEW num, NEW track, IsPin(num, track), Len(num) <= 9,
           NEW clear, clear = XorBlocks(calc_pin_block(num, track), TrackPart(track))
    PROVE  SubSeq(clear, 3, 2 + clear[2]) = num
<1> DEFINE p == PinPart(num)
           t == TrackPart(track)
<1>1. /\ p \in [1..16 -> 0..15] /\ t \in [1..16 -> 0..15] /\ p[2] = Len(num)
      /\ \A i \in 1..Len(num) : p[i + 2] = num[i]
  BY PinParts
<1>2. clear = XorBlocks(XorBlocks(p, t), t)
  BY DEF calc_pin_block
<1> HIDE DEF p, t
<1>3. ASSUME NEW i \in 1..16 PROVE Xor(Xor(p[i], t[i]), t[i]) = p[i]
  <2>1. p[i] \in 0..255 /\ t[i] \in 0..255
    <3>1. p[i] \in 0..15 /\ t[i] \in 0..15
      BY <1>1, Zenon
    <3> HIDE DEF p, t
    <3> QED
      BY <3>1
  <2>2. p[i] \in Nat /\ t[i] \in Nat /\ p[i] < Power(2, IntBits)
    BY <2>1, ByteFits, Zenon
  <2> QED
    BY <2>2, XorFacts, Zenon
<1>4. DOMAIN p = 1..16 /\ p = [i \in 1..16 |-> p[i]]
  BY <1>1
<1>5. XorBlocks(XorBlocks(p, t), t) = [i \in 1..16 |-> Xor(Xor(p[i], t[i]), t[i])]
  BY <1>4, Zenon DEF XorBlocks
<1>6. clear = p
  BY <1>2, <1>3, <1>4, <1>5
<1>7. num \in Seq(0..9) /\ Len(num) \in Nat /\ 2 + Len(num) <= 16
  BY LenProperties DEF IsPin
<1> DEFINE S == 0..15
           n == Len(num)
<1>8. p \in Seq(S) /\ Len(p) = 16 /\ num \in Seq(S)
  <2>1. 16 \in Nat /\ p \in [1..16 -> S] /\ 0..9 \subseteq S
    BY <1>1, Digits
  <2> HIDE DEF S
  <2> QED
    BY <1>7, <2>1, AsSequence, SeqMonotonic, Zenon
<1> HIDE DEF S
<1>9. IsPart(SubSeq(p, 3, 2 + n), p, 2, n, S)
  <2>1. 2 \in Nat /\ 3 = 2 + 1
    OBVIOUS
  <2> QED
    BY <1>7, <1>8, <2>1, PartOf
<1>10. SubSeq(p, 3, 2 + n) = num
  <2> DEFINE q == SubSeq(p, 3, 2 + n)
  <2> HIDE DEF q
  <2>1. q \in Seq(S) /\ Len(q) = n /\ \A i \in 1..n : q[i] = p[i + 2]
    BY <1>9 DEF IsPart, q
  <2>2. \A i \in 1..n : q[i] = num[i]
    BY <1>1, <2>1
  <2>3. q = num
    BY <1>8, <2>1, <2>2, SeqEqual
  <2> QED
    BY <2>3 DEF q
<1> QED
  BY <1>1, <1>6, <1>10

-----------------------------------------------------------------------------
(* The theorem *)

\* What Encrypt and Decrypt leave in the buffer
Encrypted(t) ==
    CASE t.alg = "cbc" -> Cbc(t.key, "encrypt", t.m)
      [] t.alg = "mac" -> mac_des(t.key, t.m)
      [] t.alg = "pin" -> calc_pin_block(t.m.pin, t.m.track)
      [] OTHER -> Ecb(t.alg, t.key, "encrypt", t.m, t.behind, t.inPlace)

\* The digits a clear block holds, as many as it says.
PinOf(clear) == SubSeq(clear, 3, 2 + clear[2])

\* What the cipher gives back of a message.
Decrypted(t, e) ==
    CASE t.alg = "cbc" -> Cbc(t.key, "decrypt", e)
      [] t.alg = "pin" -> PinOf(XorBlocks(e, TrackPart(t.m.track)))
      [] OTHER -> Ecb(t.alg, t.key, "decrypt", e, <<>>, t.inPlace)

\* The buffer holds what the steps so far have made of the task.
SsmInv ==
    /\ phase \in {"none", "plain", "encrypted", "decrypted"}
    /\ phase # "none" => task \in Tasks
    /\ phase = "encrypted" => text = Encrypted(task)
    /\ phase = "decrypted" => task.alg # "mac" /\ text = Decrypted(task, Encrypted(task))

\* Nothing is encrypted at the start.
LEMMA SsmInvInit == SsmInit => SsmInv
BY DEF SsmInit, SsmInv

\* Each task leaves its own result.
LEMMA SsmInvNext == SsmInv /\ [SsmNext]_ssmVars => SsmInv'
<1> SUFFICES ASSUME SsmInv, [SsmNext]_ssmVars PROVE SsmInv'
  OBVIOUS
<1>1. CASE Compose
  BY <1>1 DEF Compose, SsmInv
<1>2. CASE Encrypt
  <2>1. text' = Encrypted(task)
    BY <1>2 DEF Encrypt, Encrypted
  <2> QED
    BY <1>2, <2>1 DEF Encrypt, SsmInv
<1>3. CASE Decrypt
  <2>1. text' = Decrypted(task, text)
    BY <1>3 DEF Decrypt, Decrypted, PinOf
  <2>2. text = Encrypted(task) /\ task.alg # "mac"
    BY <1>3 DEF Decrypt, SsmInv
  <2> QED
    BY <1>3, <2>1, <2>2 DEF Decrypt, SsmInv
<1>4. CASE UNCHANGED ssmVars
  BY <1>4 DEF SsmInv, ssmVars
<1> QED
  BY <1>1, <1>2, <1>3, <1>4 DEF SsmNext

\* A message of a block cipher comes back, or is one the loop reads over.
LEMMA EcbTaskBack ==
    ASSUME NEW t \in EcbTasks
    PROVE  /\ t.alg \in {"des", "3des"}
           /\ \/ Decrypted(t, Encrypted(t)) = Padded(t.m)
              \/ t.inPlace /\ Remain(t.m) > 0 /\ LoopsOver(t.alg, t.m)
<1>1. PICK m \in Messages : t \in [alg : {"des", "3des"}, key : Keys, m : {m},
                                    behind : Behinds(m), inPlace : BOOLEAN]
  BY DEF EcbTasks
<1>2. /\ t.alg \in {"des", "3des"} /\ t.key \in Keys /\ t.m = m
      /\ t.behind \in Behinds(m) /\ t.inPlace \in BOOLEAN
  BY <1>1
<1>3. t.m \in Seq(Bytes)
  BY <1>2, MessagesAssumption
<1>4. t.behind \in Seq(Bytes)
  <2>1. Block \in Nat /\ Count(m) \in Nat /\ Len(m) \in Nat /\ Len(m) <= Block * Count(m)
    BY <1>2, <1>3, BlockAssumption, Sizes
  <2>2. Block * Count(m) \in Nat
    BY <2>1
  <2>3. Block * Count(m) - Len(m) \in Nat
    BY <2>1, <2>2
  <2> QED
    BY <1>2, <2>3, AsSequence DEF Behinds
<1>5. CASE Straight(t.alg, t.m, t.inPlace)
  <2>1. Ecb(t.alg, t.key, "decrypt", Ecb(t.alg, t.key, "encrypt", t.m, t.behind, t.inPlace),
            <<>>, t.inPlace) = Padded(t.m)
    BY <1>2, <1>3, <1>4, <1>5, EcbBack, Zenon
  <2> QED
    BY <1>2, <2>1 DEF Encrypted, Decrypted
<1>6. CASE ~Straight(t.alg, t.m, t.inPlace)
  BY <1>2, <1>6 DEF Straight
<1> QED
  BY <1>2, <1>5, <1>6

\* A chained message comes back.
LEMMA ChainTaskBack ==
    ASSUME NEW t \in ChainTasks
    PROVE  /\ t.alg \in {"cbc", "mac"}
           /\ t.alg = "cbc" => Decrypted(t, Encrypted(t)) = Padded(t.m)
           /\ t.alg = "mac" /\ t.m # <<>> =>
                 /\ Encrypted(t) = BlockAt(Cbc(t.key, "encrypt", t.m), Count(t.m))
                 /\ Encrypted(t) = mac_des_3des(t.key, t.key, t.key, t.m)
<1>1. t.alg \in {"cbc", "mac"} /\ t.key \in Keys /\ t.m \in Seq(Bytes)
  BY MessagesAssumption DEF ChainTasks
<1>2. CASE t.alg = "cbc"
  BY <1>1, <1>2, CbcBack DEF Encrypted, Decrypted
<1>3. CASE t.alg = "mac" /\ t.m # <<>>
  <2>1. Encrypted(t) = mac_des(t.key, t.m)
    BY <1>3 DEF Encrypted
  <2>2. Count(t.m) \in 1..Count(t.m)
    <3>1. Len(t.m) \in Nat /\ Len(t.m) # 0 /\ Block * 0 = 0
      BY <1>1, <1>3, BlockAssumption
    <3>2. Count(t.m) \in Nat /\ Count(t.m) # 0
      BY <1>1, <3>1, Sizes
    <3> QED
      BY <3>2
  <2>3. BlockAt(Cbc(t.key, "encrypt", t.m), Count(t.m)) = Chained(t.key, t.m)[Count(t.m)]
    BY <1>1, <2>2, CbcBlocks
  <2>4. mac_des(t.key, t.m) = Chained(t.key, t.m)[Count(t.m)]
    BY <1>1, MacIs
  <2>5. mac_des_3des(t.key, t.key, t.key, t.m) = mac_des(t.key, t.m)
    BY <1>1, <1>3, MacOfOneKey
  <2> QED
    BY <1>3, <2>1, <2>3, <2>4, <2>5
<1> QED
  BY <1>1, <1>2, <1>3

\* A PIN comes back.
LEMMA PinTaskBack ==
    ASSUME NEW t \in PinTasks
    PROVE  /\ t.alg = "pin"
           /\ Len(t.m.pin) <= 9 => Decrypted(t, Encrypted(t)) = t.m.pin
<1>1. t.alg = "pin" /\ t.m \in Pins
  BY DEF PinTasks
<1>2. IsPin(t.m.pin, t.m.track)
  BY <1>1, PinsAssumption DEF IsPin
<1>3. ASSUME Len(t.m.pin) <= 9 PROVE Decrypted(t, Encrypted(t)) = t.m.pin
  <2> DEFINE clear == XorBlocks(calc_pin_block(t.m.pin, t.m.track), TrackPart(t.m.track))
  <2>1. PinOf(clear) = t.m.pin
    BY <1>2, <1>3, PinBack DEF PinOf
  <2>2. Encrypted(t) = calc_pin_block(t.m.pin, t.m.track)
    BY <1>1 DEF Encrypted
  <2>3. Decrypted(t, Encrypted(t)) = PinOf(clear)
    BY <1>1, <2>2 DEF Decrypted
  <2> QED
    BY <2>1, <2>3
<1> QED
  BY <1>1, <1>3

\* So what the tasks leave is what BlocksBack says.
LEMMA SsmInvGives == SsmInv => BlocksBack
<1> SUFFICES ASSUME SsmInv PROVE BlocksBack
  OBVIOUS
<1>1. ASSUME phase = "decrypted"
      PROVE  CASE task.alg = "cbc" -> text = Padded(task.m)
               [] task.alg = "pin" -> Len(task.m.pin) <= 9 => text = task.m.pin
               [] OTHER -> \/ text = Padded(task.m)
                           \/ task.inPlace /\ Remain(task.m) > 0 /\ LoopsOver(task.alg, task.m)
  <2>1. task \in Tasks /\ task.alg # "mac" /\ text = Decrypted(task, Encrypted(task))
    BY <1>1 DEF SsmInv
  <2>2. CASE task \in EcbTasks
    BY <2>1, <2>2, EcbTaskBack
  <2>3. CASE task \in ChainTasks
    BY <2>1, <2>3, ChainTaskBack
  <2>4. CASE task \in PinTasks
    BY <2>1, <2>4, PinTaskBack
  <2> QED
    BY <2>1, <2>2, <2>3, <2>4 DEF Tasks
<1>2. ASSUME phase = "encrypted", task.alg = "mac", task.m # <<>>
      PROVE  /\ text = BlockAt(Cbc(task.key, "encrypt", task.m), Count(task.m))
             /\ text = mac_des_3des(task.key, task.key, task.key, task.m)
  <2>1. task \in Tasks /\ text = Encrypted(task)
    BY <1>2 DEF SsmInv
  <2>2. task \in ChainTasks
    BY <1>2, <2>1, EcbTaskBack, PinTaskBack DEF Tasks
  <2> QED
    BY <1>2, <2>1, <2>2, ChainTaskBack
<1> QED
  BY <1>1, <1>2 DEF BlocksBack

\* BlocksBack for every block cipher, length of a block, set of messages and of PINs: what
\* ssm.c encrypts comes back, and its MACs are the last block of the CBC. (ssm.c 23-419)
THEOREM EncryptedComesBack == SsmSpec => []BlocksBack
<1>1. SsmInit => SsmInv
  BY SsmInvInit
<1>2. SsmInv /\ [SsmNext]_ssmVars => SsmInv'
  BY SsmInvNext
<1>3. SsmInv => BlocksBack
  BY SsmInvGives
<1> QED
  BY <1>1, <1>2, <1>3, PTL DEF SsmSpec

-----------------------------------------------------------------------------
(* The Gregorian year *)

\* A day of the Gregorian calendar.
IsDay(t) ==
    /\ t \in [year : Nat \ {0}, mon : 1..12, mday : 1..31]
    /\ t.mday <= LastDay(t)

\* The day more of a leap year, the table of its months, and their days.
Leap(y) == IF miladi_is_leap(y) THEN 1 ELSE 0
Table(y) == IF miladi_is_leap(y) THEN sumDayMiladiMonthLeap ELSE sumDayMiladiMonth
MonthDays(y, m) == miladiMonthDays[m] + (IF m = 2 THEN Leap(y) ELSE 0)

\* Which day of its year a date is
DayNo(t) == t.mday + Table(t.year)[t.mon]

\* The tables are sums of the months.
LEMMA Months ==
    ASSUME NEW y
    PROVE  /\ Table(y)[1] = 0 /\ Leap(y) \in {0, 1}
           /\ \A m \in 1..12 : Table(y)[m] \in Nat /\ Table(y)[m] <= 335 /\ MonthDays(y, m) \in Nat /\ MonthDays(y, m) >= 28 /\ MonthDays(y, m) <= 31
           /\ \A m \in 1..11 : m + 1 \in 1..12 /\ Table(y)[m + 1] = Table(y)[m] + MonthDays(y, m)
           /\ Table(y)[12] + MonthDays(y, 12) = 365 + Leap(y)
<1>1. CASE miladi_is_leap(y)
  BY <1>1 DEF Table, MonthDays, Leap, sumDayMiladiMonthLeap, miladiMonthDays
<1>2. CASE ~miladi_is_leap(y)
  BY <1>2 DEF Table, MonthDays, Leap, sumDayMiladiMonth, miladiMonthDays
<1> QED
  BY <1>1, <1>2

\* Tomorrow is the next day of the year, or the first of the next.
LEMMA TomorrowIs ==
    ASSUME NEW t, IsDay(t)
    PROVE  /\ IsDay(Tomorrow(t)) /\ DayNo(t) \in 1..(365 + Leap(t.year))
           /\ \/ /\ Tomorrow(t).year = t.year /\ DayNo(Tomorrow(t)) = DayNo(t) + 1
                 /\ DayNo(t) < 365 + Leap(t.year)
              \/ /\ Tomorrow(t) = Date(t.year + 1, 1, 1) /\ DayNo(Tomorrow(t)) = 1
                 /\ DayNo(t) = 365 + Leap(t.year)
<1> DEFINE y == t.year
           m == t.mon
           d == t.mday
           n == Tomorrow(t)
<1>1. y \in Nat \ {0} /\ m \in 1..12 /\ d \in 1..31 /\ t = Date(y, m, d)
  BY DEF IsDay, Date
<1>2. LastDay(t) = MonthDays(y, m) /\ d <= MonthDays(y, m)
  BY DEF IsDay, LastDay, MonthDays, Leap
<1>3. /\ \A k \in 1..12 : Table(y)[k] \in Nat /\ Table(y)[k] <= 335 /\ MonthDays(y, k) \in Nat /\ MonthDays(y, k) >= 28 /\ MonthDays(y, k) <= 31
      /\ \A k \in 1..11 : k + 1 \in 1..12 /\ Table(y)[k + 1] = Table(y)[k] + MonthDays(y, k)
      /\ Table(y)[12] + MonthDays(y, 12) = 365 + Leap(y) /\ Leap(y) \in {0, 1}
  BY Months
<1>4. Table(y)[m] \in Nat /\ Table(y)[m] <= 335 /\ MonthDays(y, m) \in Nat /\ MonthDays(y, m) >= 28 /\ MonthDays(y, m) <= 31
  BY <1>1, <1>3
<1>5. DayNo(t) = d + Table(y)[m]
  BY DEF DayNo
<1>6. /\ n = IF d < MonthDays(y, m) THEN Date(y, m, d + 1)
            ELSE IF m < 12 THEN Date(y, m + 1, 1) ELSE Date(y + 1, 1, 1)
      /\ DayNo(n) = n.mday + Table(n.year)[n.mon]
      /\ IsDay(n) <=> /\ n \in [year : Nat \ {0}, mon : 1..12, mday : 1..31]
                      /\ n.mday <= MonthDays(n.year, n.mon)
  <2>1. [t EXCEPT !.mday = @ + 1] = Date(y, m, d + 1)
    BY <1>1 DEF Date
  <2>2. n = IF d < MonthDays(y, m) THEN Date(y, m, d + 1)
            ELSE IF m < 12 THEN Date(y, m + 1, 1) ELSE Date(y + 1, 1, 1)
    BY <1>2, <2>1, Zenon DEF Tomorrow
  <2> HIDE DEF n
  <2>3. LastDay(n) = MonthDays(n.year, n.mon)
    BY DEF LastDay, MonthDays, Leap
  <2> QED
    BY <2>2, <2>3 DEF DayNo, IsDay
<1> HIDE DEF y, m, d, n
<1>7. CASE d < MonthDays(y, m)
  <2>1. /\ n \in [year : Nat \ {0}, mon : 1..12, mday : 1..31]
        /\ n.year = y /\ n.mon = m /\ n.mday = d + 1
    BY <1>1, <1>4, <1>6, <1>7 DEF Date
  <2>2. IsDay(n)
    BY <1>1, <1>4, <1>6, <1>7, <2>1
  <2>3. DayNo(n) = d + 1 + Table(y)[m]
    BY <1>6, <2>1
  <2>4. Table(y)[m] + MonthDays(y, m) <= 365 + Leap(y)
    <3>1. CASE m = 12
      BY <1>3, <3>1
    <3>2. CASE m \in 1..11
      <4>1. Table(y)[m + 1] = Table(y)[m] + MonthDays(y, m) /\ Table(y)[m + 1] \in Nat /\ Table(y)[m + 1] <= 335
        BY <1>3, <3>2
      <4> QED
        BY <1>3, <4>1
    <3> QED
      BY <1>1, <3>1, <3>2
  <2>5. DayNo(n) = DayNo(t) + 1 /\ DayNo(t) \in 1..(365 + Leap(y)) /\ DayNo(t) < 365 + Leap(y)
    <3>1. Leap(y) \in {0, 1}
      BY <1>3
    <3>2. DayNo(n) = DayNo(t) + 1
      BY <1>1, <1>4, <1>5, <2>3
    <3>3. DayNo(t) \in Nat \ {0} /\ DayNo(t) < 365 + Leap(y)
      BY <1>1, <1>4, <1>5, <1>7, <2>4, <3>1
    <3> QED
      BY <3>1, <3>2, <3>3
  <2> QED
    BY <2>1, <2>2, <2>5 DEF n, y
<1>8. CASE d = MonthDays(y, m) /\ m \in 1..11
  <2>1. /\ n \in [year : Nat \ {0}, mon : 1..12, mday : 1..31]
        /\ n.year = y /\ n.mon = m + 1 /\ n.mday = 1
    BY <1>1, <1>4, <1>6, <1>8 DEF Date
  <2>2. MonthDays(y, m + 1) \in Nat /\ MonthDays(y, m + 1) >= 28 /\ MonthDays(y, m + 1) <= 31 /\ Table(y)[m + 1] = Table(y)[m] + MonthDays(y, m)
        /\ Table(y)[m + 1] \in Nat /\ Table(y)[m + 1] <= 335
    BY <1>3, <1>8
  <2>3. IsDay(n)
    BY <1>6, <2>1, <2>2
  <2>4. DayNo(n) = 1 + Table(y)[m + 1]
    BY <1>6, <2>1
  <2>5. DayNo(n) = DayNo(t) + 1 /\ DayNo(t) \in 1..(365 + Leap(y)) /\ DayNo(t) < 365 + Leap(y)
    BY <1>1, <1>3, <1>4, <1>5, <1>8, <2>2, <2>4
  <2> QED
    BY <2>1, <2>3, <2>5 DEF n, y
<1>9. CASE d = MonthDays(y, m) /\ m = 12
  <2>1. /\ n \in [year : Nat \ {0}, mon : 1..12, mday : 1..31]
        /\ n.year = y + 1 /\ n.mon = 1 /\ n.mday = 1 /\ n = Date(y + 1, 1, 1)
    BY <1>1, <1>4, <1>6, <1>9 DEF Date
  <2>2. MonthDays(y + 1, 1) \in Nat /\ MonthDays(y + 1, 1) >= 28 /\ MonthDays(y + 1, 1) <= 31 /\ Table(y + 1)[1] = 0
    BY Months
  <2>3. IsDay(n)
    BY <1>6, <2>1, <2>2
  <2>4. DayNo(n) = 1 + Table(y + 1)[1]
    BY <1>6, <2>1
  <2>5. DayNo(n) = 1 /\ DayNo(t) \in 1..(365 + Leap(y)) /\ DayNo(t) = 365 + Leap(y)
    BY <1>3, <1>5, <1>9, <2>2, <2>4
  <2> QED
    BY <2>1, <2>3, <2>5 DEF n, y
<1> QED
  BY <1>1, <1>2, <1>4, <1>7, <1>8, <1>9

-----------------------------------------------------------------------------
(* The Persian year *)

\* The Persian date of day d of a year.
FromDay(y, d) ==
    IF d <= 79 THEN InMonths(y - 622, d + deyDayDiff(y), 30, 9)
    ELSE IF d - 79 <= 186 THEN InMonths(y - 621, d - 79, 31, 0)
    ELSE InMonths(y - 621, d - 79 - 186, 30, 6)

\* The conversion is one of the day of the year.
LEMMA ToPersianIs ==
    ASSUME NEW t
    PROVE  ToPersian(t) = FromDay(t.year, DayNo(t))
BY DEF ToPersian, FromDay, DayNo, Table

\* A day of months of the same length is the r-th after q of them,
IsAt(n, length, q, r) ==
    length \in {30, 31} /\ n \in Nat \ {0} /\ q \in Nat /\ r \in 1..length /\ n = q * length + r

\* A day has a month and a day in months of one length.
LEMMA MonthAndDay ==
    ASSUME NEW n \in Nat \ {0}, NEW length \in {30, 31}
    PROVE  \E q, r : IsAt(n, length, q, r)
<1>1. CASE length = 30
  <2>1. (n - 1) \div 30 \in Nat /\ ((n - 1) % 30) + 1 \in 1..30
        /\ n = ((n - 1) \div 30) * 30 + (((n - 1) % 30) + 1)
    OBVIOUS
  <2> QED
    BY <1>1, <2>1 DEF IsAt
<1>2. CASE length = 31
  <2>1. (n - 1) \div 31 \in Nat /\ ((n - 1) % 31) + 1 \in 1..31
        /\ n = ((n - 1) \div 31) * 31 + (((n - 1) % 31) + 1)
    OBVIOUS
  <2> QED
    BY <1>2, <2>1 DEF IsAt
<1> QED
  BY <1>1, <1>2

\* and so it is written.
LEMMA InMonthsIs ==
    \A y, n, length, before, q, r :
        before \in Nat /\ IsAt(n, length, q, r) => InMonths(y, n, length, before) = Date(y, before + q + 1, r)
<1> SUFFICES ASSUME NEW y, NEW n, NEW length, NEW before \in Nat, NEW q, NEW r,
                    IsAt(n, length, q, r)
             PROVE  InMonths(y, n, length, before) = Date(y, before + q + 1, r)
  OBVIOUS
<1>1. CASE length = 30
  BY <1>1 DEF InMonths, IsAt
<1>2. CASE length = 31
  BY <1>2 DEF InMonths, IsAt
<1> QED
  BY <1>1, <1>2 DEF IsAt

\* Within months of one length, one day follows another.
LEMMA InMonthsFollows ==
    ASSUME NEW y \in Int, NEW n \in Nat \ {0}, NEW length \in {30, 31}, NEW before \in Nat,
           n < length * (12 - before), before <= 11,
           length = 31 => before = 0 /\ n < 186, length = 30 => before >= 6
    PROVE  Follows(InMonths(y, n, length, before), InMonths(y, n + 1, length, before))
<1>1. PICK q, r : IsAt(n, length, q, r)
  BY MonthAndDay
<1>9. q \in Nat /\ r \in 1..length /\ n = q * length + r
  BY <1>1 DEF IsAt
<1>2. InMonths(y, n, length, before) = Date(y, before + q + 1, r)
  BY <1>1, InMonthsIs
<1>3. CASE r < length
  <2>1. IsAt(n + 1, length, q, r + 1)
    BY <1>9, <1>3 DEF IsAt
  <2>2. InMonths(y, n + 1, length, before) = Date(y, before + q + 1, r + 1)
    BY <2>1, InMonthsIs
  <2> QED
    BY <1>2, <2>2 DEF Follows, Date
<1>4. CASE r = length
  <2>1. IsAt(n + 1, length, q + 1, 1)
    BY <1>9, <1>4 DEF IsAt
  <2>2. InMonths(y, n + 1, length, before) = Date(y, before + (q + 1) + 1, 1)
    BY <2>1, InMonthsIs
  <2>3. before + q + 1 < 12 /\ (before + q + 1 <= 6 <=> length = 31)
    <3>1. CASE length = 30
      BY <1>9, <1>4, <3>1
    <3>2. CASE length = 31
      BY <1>9, <1>4, <3>2
    <3> QED
      BY <3>1, <3>2
  <2> DEFINE k == before + q + 1
  <2>4. before + (q + 1) + 1 = k + 1 /\ k \in Nat
    BY <1>9
  <2> HIDE DEF k
  <2>5. InMonths(y, n, length, before) = Date(y, k, length) /\ k < 12 /\ (k <= 6 <=> length = 31)
    BY <1>2, <1>4, <2>3 DEF k
  <2>6. InMonths(y, n + 1, length, before) = Date(y, k + 1, 1)
    BY <2>2, <2>4
  <2>7. length = IF k <= 6 THEN 31 ELSE 30
    BY <2>5
  <2> QED
    BY <2>5, <2>6, <2>7 DEF Follows, Date
<1> QED
  BY <1>9, <1>3, <1>4

\* From a day of the Gregorian year to the next the Persian date moves on by one,
LEMMA FollowsInYear ==
    ASSUME NEW y \in Nat, NEW d \in Nat \ {0}, d < 366
    PROVE  Follows(FromDay(y, d), FromDay(y, d + 1))
<1>1. deyDayDiff(y) \in {10, 11} /\ y - 622 \in Int /\ y - 621 \in Int
  BY DEF deyDayDiff
<1>2. CASE d < 79
  <2> DEFINE n == d + deyDayDiff(y)
  <2>1. n \in Nat \ {0} /\ n < 90 /\ d + 1 + deyDayDiff(y) = n + 1 /\ d <= 79 /\ d + 1 <= 79
    BY <1>1, <1>2
  <2> HIDE DEF n
  <2>2. Follows(InMonths(y - 622, n, 30, 9), InMonths(y - 622, n + 1, 30, 9))
    BY <1>1, <2>1, InMonthsFollows
  <2>3. FromDay(y, d) = InMonths(y - 622, n, 30, 9) /\ FromDay(y, d + 1) = InMonths(y - 622, n + 1, 30, 9)
    BY <2>1 DEF FromDay, n
  <2> QED
    BY <2>2, <2>3
<1>3. CASE d = 79
  <2>1. \/ deyDayDiff(y) = 10 /\ IsAt(89, 30, 2, 29)
        \/ deyDayDiff(y) = 11 /\ IsAt(90, 30, 2, 30)
    BY <1>1 DEF IsAt
  <2>2. \/ FromDay(y, d) = Date(y - 622, 12, 29)
        \/ FromDay(y, d) = Date(y - 622, 12, 30)
    <3>1. FromDay(y, d) = InMonths(y - 622, 79 + deyDayDiff(y), 30, 9)
      BY <1>3 DEF FromDay
    <3>2. \/ InMonths(y - 622, 79 + deyDayDiff(y), 30, 9) = Date(y - 622, 9 + 2 + 1, 29)
          \/ InMonths(y - 622, 79 + deyDayDiff(y), 30, 9) = Date(y - 622, 9 + 2 + 1, 30)
      BY <2>1, InMonthsIs
    <3> QED
      BY <3>1, <3>2
  <2>3. FromDay(y, d + 1) = Date(y - 621, 1, 1)
    <3>1. FromDay(y, d + 1) = InMonths(y - 621, 1, 31, 0)
      BY <1>3 DEF FromDay
    <3>2. IsAt(1, 31, 0, 1)
      BY DEF IsAt
    <3>3. InMonths(y - 621, 1, 31, 0) = Date(y - 621, 0 + 0 + 1, 1)
      BY <3>2, InMonthsIs
    <3> QED
      BY <3>1, <3>3
  <2>4. y - 622 + 1 = y - 621
    OBVIOUS
  <2> QED
    BY <2>2, <2>3, <2>4 DEF Follows, Date
<1>4. CASE d > 79 /\ d < 265
  <2> DEFINE n == d - 79
  <2>1. n \in Nat \ {0} /\ n < 186 /\ d + 1 - 79 = n + 1 /\ ~(d <= 79) /\ ~(d + 1 <= 79)
        /\ n <= 186 /\ n + 1 <= 186
    BY <1>4
  <2> HIDE DEF n
  <2>2. Follows(InMonths(y - 621, n, 31, 0), InMonths(y - 621, n + 1, 31, 0))
    BY <1>1, <2>1, InMonthsFollows
  <2>3. FromDay(y, d) = InMonths(y - 621, n, 31, 0) /\ FromDay(y, d + 1) = InMonths(y - 621, n + 1, 31, 0)
    BY <2>1 DEF FromDay, n
  <2> QED
    BY <2>2, <2>3
<1>5. CASE d = 265
  <2>1. FromDay(y, d) = Date(y - 621, 6, 31)
    <3>1. FromDay(y, d) = InMonths(y - 621, 186, 31, 0)
      BY <1>5 DEF FromDay
    <3>2. IsAt(186, 31, 5, 31)
      BY DEF IsAt
    <3>3. InMonths(y - 621, 186, 31, 0) = Date(y - 621, 0 + 5 + 1, 31)
      BY <3>2, InMonthsIs
    <3> QED
      BY <3>1, <3>3
  <2>2. FromDay(y, d + 1) = Date(y - 621, 7, 1)
    <3>1. FromDay(y, d + 1) = InMonths(y - 621, 1, 30, 6)
      BY <1>5 DEF FromDay
    <3>2. IsAt(1, 30, 0, 1)
      BY DEF IsAt
    <3>3. InMonths(y - 621, 1, 30, 6) = Date(y - 621, 6 + 0 + 1, 1)
      BY <3>2, InMonthsIs
    <3> QED
      BY <3>1, <3>3
  <2> QED
    BY <2>1, <2>2 DEF Follows, Date
<1>6. CASE d > 265
  <2> DEFINE n == d - 79 - 186
  <2>1. n \in Nat \ {0} /\ n < 180 /\ d + 1 - 79 - 186 = n + 1 /\ ~(d <= 79) /\ ~(d + 1 <= 79)
        /\ ~(d - 79 <= 186) /\ ~(d + 1 - 79 <= 186)
    BY <1>6
  <2> HIDE DEF n
  <2>2. Follows(InMonths(y - 621, n, 30, 6), InMonths(y - 621, n + 1, 30, 6))
    BY <1>1, <2>1, InMonthsFollows
  <2>3. FromDay(y, d) = InMonths(y - 621, n, 30, 6) /\ FromDay(y, d + 1) = InMonths(y - 621, n + 1, 30, 6)
    BY <2>1 DEF FromDay, n
  <2> QED
    BY <2>2, <2>3
<1> QED
  BY <1>2, <1>3, <1>4, <1>5, <1>6

\* and so it does from the last day of a year to the first of the next.
LEMMA FollowsNextYear ==
    ASSUME NEW y \in Nat \ {0}
    PROVE  Follows(FromDay(y, 365 + Leap(y)), FromDay(y + 1, 1))
<1>1. /\ FromDay(y, 365 + Leap(y)) = InMonths(y - 621, 100 + Leap(y), 30, 6)
      /\ Leap(y) \in {0, 1}
  BY DEF FromDay, Leap
<1>2. FromDay(y + 1, 1) = InMonths(y - 621, 11 + Leap(y), 30, 9)
  <2>1. 1 + deyDayDiff(y + 1) = 11 + Leap(y)
    BY DEF deyDayDiff, Leap
  <2>2. FromDay(y + 1, 1) = InMonths(y + 1 - 622, 1 + deyDayDiff(y + 1), 30, 9)
    BY DEF FromDay
  <2> QED
    BY <2>1, <2>2
<1>3. CASE Leap(y) = 0
  <2>1. IsAt(100, 30, 3, 10) /\ IsAt(11, 30, 0, 11)
    BY DEF IsAt
  <2>2. InMonths(y - 621, 100, 30, 6) = Date(y - 621, 6 + 3 + 1, 10)
    BY <2>1, InMonthsIs
  <2>3. InMonths(y - 621, 11, 30, 9) = Date(y - 621, 9 + 0 + 1, 11)
    BY <2>1, InMonthsIs
  <2> QED
    BY <1>1, <1>2, <1>3, <2>2, <2>3 DEF Follows, Date
<1>4. CASE Leap(y) = 1
  <2>1. IsAt(101, 30, 3, 11) /\ IsAt(12, 30, 0, 12)
    BY DEF IsAt
  <2>2. InMonths(y - 621, 101, 30, 6) = Date(y - 621, 6 + 3 + 1, 11)
    BY <2>1, InMonthsIs
  <2>3. InMonths(y - 621, 12, 30, 9) = Date(y - 621, 9 + 0 + 1, 12)
    BY <2>1, InMonthsIs
  <2> QED
    BY <1>1, <1>2, <1>4, <2>2, <2>3 DEF Follows, Date
<1> QED
  BY <1>1, <1>3, <1>4

-----------------------------------------------------------------------------
(* The way back *)

\* From 1901 to 2099 every fourth year is a leap year.
LEMMA EveryFourth ==
    ASSUME NEW y \in Nat, 1901 <= y, y <= 2099
    PROVE  miladi_is_leap(y) <=> y % 4 = 0
BY SMT DEF miladi_is_leap

\* A month starts behind those before it.
LEMMA MonthsInOrder ==
    ASSUME NEW y, NEW k \in 1..12, NEW j \in 1..12, j < k
    PROVE  Table(y)[j] + MonthDays(y, j) <= Table(y)[k]
<1>1. CASE miladi_is_leap(y)
  BY <1>1 DEF Table, MonthDays, Leap, sumDayMiladiMonthLeap, miladiMonthDays
<1>2. CASE ~miladi_is_leap(y)
  BY <1>2 DEF Table, MonthDays, Leap, sumDayMiladiMonth, miladiMonthDays
<1> QED
  BY <1>1, <1>2

\* Some function is what the recursion of UpTo says, so UpTo is,
SumsUp(f, y) == f = [m \in 0..12 |-> IF m = 0 THEN 0 ELSE f[m - 1] + delta(y, m)]

\* The days up to a month are those of the months before it.
LEMMA UpToSums ==
    ASSUME NEW y, NEW f, SumsUp(f, y)
    PROVE  SumsUp(UpTo(y), y)
BY Zenon DEF SumsUp, UpTo

\* which makes it the table and the days of the month.
LEMMA UpToIs ==
    ASSUME NEW y \in Nat, 1901 <= y, y <= 2099
    PROVE  UpTo(y)[0] = 0 /\ \A m \in 1..12 : UpTo(y)[m] = Table(y)[m] + MonthDays(y, m)
<1> DEFINE f == [m \in 0..12 |-> IF m = 0 THEN 0 ELSE Table(y)[m] + MonthDays(y, m)]
           S == {m \in Nat : UpTo(y)[m] = f[m]}
<1>1. \A m : delta(y, m) = MonthDays(y, m)
  BY EveryFourth DEF delta, MonthDays, Leap
<1>2. /\ Table(y)[1] = 0
      /\ \A m \in 1..12 : Table(y)[m] \in Nat /\ MonthDays(y, m) \in Nat
      /\ \A m \in 1..11 : Table(y)[m + 1] = Table(y)[m] + MonthDays(y, m)
  BY Months
<1>3. ASSUME NEW m \in 0..12 PROVE f[m] = IF m = 0 THEN 0 ELSE f[m - 1] + delta(y, m)
  <2>1. CASE m = 0
    BY <2>1
  <2>2. CASE m = 1
    BY <1>1, <1>2, <2>2
  <2>3. CASE m \in 2..12
    <3>1. m - 1 \in 1..11 /\ m - 1 + 1 = m /\ m - 1 \in 0..12 /\ m - 1 # 0
      BY <2>3
    <3>2. f[m] = Table(y)[m] + MonthDays(y, m) /\ f[m - 1] = Table(y)[m - 1] + MonthDays(y, m - 1)
      BY <2>3, <3>1
    <3>3. Table(y)[m] = Table(y)[m - 1] + MonthDays(y, m - 1)
      BY <1>2, <3>1
    <3> QED
      BY <1>1, <2>3, <3>2, <3>3
  <2> QED
    BY <2>1, <2>2, <2>3
<1>4. f = [m \in 0..12 |-> f[m]]
  OBVIOUS
<1> HIDE DEF f
<1>5. SumsUp(f, y)
  BY <1>3, <1>4 DEF SumsUp
<1>6. SumsUp(UpTo(y), y)
  BY <1>5, UpToSums
<1>7. /\ UpTo(y)[0] = 0
      /\ \A m \in 1..12 : UpTo(y)[m] = UpTo(y)[m - 1] + delta(y, m)
  <2>1. 0 \in 0..12 /\ \A m \in 1..12 : m \in 0..12 /\ m # 0
    OBVIOUS
  <2> QED
    BY <1>6, <2>1 DEF SumsUp
<1>8. 0..12 \subseteq S
  <2>1. 0 \in S
    BY <1>3, <1>7
  <2>2. ASSUME NEW m \in 0..(12 - 1), m \in S PROVE m + 1 \in S
    <3>1. m + 1 \in 1..12 /\ m + 1 \in 0..12 /\ m + 1 - 1 = m /\ m + 1 # 0
      OBVIOUS
    <3>2. UpTo(y)[m + 1] = UpTo(y)[m] + delta(y, m + 1) /\ f[m + 1] = f[m] + delta(y, m + 1)
      BY <1>3, <1>7, <3>1
    <3> QED
      BY <2>2, <3>2
  <2> HIDE DEF S
  <2> QED
    BY <2>1, <2>2, AllUpTo
<1>9. ASSUME NEW m \in 1..12 PROVE UpTo(y)[m] = Table(y)[m] + MonthDays(y, m)
  <2>1. m \in 0..12 /\ m # 0
    OBVIOUS
  <2>2. m \in S
    BY <1>8, <2>1
  <2>3. f[m] = Table(y)[m] + MonthDays(y, m)
    BY <2>1 DEF f
  <2> QED
    BY <2>2, <2>3
<1> QED
  BY <1>7, <1>9

\* The month the loop stops at
IsMonth(y, n, m) == m \in 0..13 /\ StopsAt(y, n, m)

\* The month that is looked for is the one the day is in.
LEMMA MonthFound ==
    ASSUME NEW y \in Nat, 1901 <= y, y <= 2099, NEW n \in Nat, NEW mon, IsMonth(y, n, mon)
    PROVE  InYear(y, n) = Date(y, mon, n - (IF mon = 0 THEN 0 ELSE UpTo(y)[mon - 1]))
<1>1. \A k \in 0..12 : UpTo(y)[k] \in Nat
  <2>1. \A k \in 1..12 : Table(y)[k] \in Nat /\ MonthDays(y, k) \in Nat
    BY Months
  <2>2. \A k \in 0..12 : k = 0 \/ k \in 1..12
    OBVIOUS
  <2> QED
    BY <2>1, <2>2, UpToIs
<1>2. ASSUME NEW k, IsMonth(y, n, k) PROVE k = mon
  <2>1. mon \in 0..13 /\ k \in 0..13
    BY <1>2 DEF IsMonth
  <2>2. CASE k < mon
    <3>1. k \in 0..(mon - 1) /\ k <= 12 /\ k \in 0..12
      BY <2>1, <2>2
    <3> QED
      BY <1>1, <1>2, <3>1 DEF IsMonth, StopsAt
  <2>3. CASE mon < k
    <3>1. mon \in 0..(k - 1) /\ mon <= 12 /\ mon \in 0..12
      BY <2>1, <2>3
    <3> QED
      BY <1>1, <1>2, <3>1 DEF IsMonth, StopsAt
  <2> QED
    BY <2>1, <2>2, <2>3
<1>3. IsMonth(y, n, MonthOf(y, n))
  BY DEF IsMonth, MonthOf
<1>4. MonthOf(y, n) = mon
  BY <1>2, <1>3
<1> QED
  BY <1>4 DEF InYear

\* The day of the year a date is on is that date.
LEMMA InYearIs ==
    ASSUME NEW t, IsDay(t), 1901 <= t.year, t.year <= 2099
    PROVE  InYear(t.year, DayNo(t)) = t
<1> DEFINE y == t.year
           m == t.mon
           d == t.mday
           n == DayNo(t)
<1>1. /\ y \in Nat /\ 1901 <= y /\ y <= 2099 /\ m \in 1..12 /\ d \in Nat \ {0}
      /\ t = Date(y, m, d) /\ d <= MonthDays(y, m) /\ n = d + Table(y)[m]
  BY DEF IsDay, Date, LastDay, MonthDays, Leap, DayNo
<1> HIDE DEF y, m, d, n
<1>2. \A k \in 1..12 : Table(y)[k] \in Nat /\ MonthDays(y, k) \in Nat
  BY Months
<1>3. UpTo(y)[0] = 0 /\ \A k \in 1..12 : UpTo(y)[k] = Table(y)[k] + MonthDays(y, k)
  BY <1>1, UpToIs
<1>4. n \in Nat /\ n > Table(y)[m] /\ n <= UpTo(y)[m] /\ n > 0
  BY <1>1, <1>2, <1>3
<1>5. ASSUME NEW k \in 0..(m - 1) PROVE UpTo(y)[k] < n
  <2>1. CASE k = 0
    BY <1>3, <1>4, <2>1
  <2>2. CASE k # 0
    <3>1. k \in 1..12 /\ k < m
      BY <1>1, <2>2
    <3>2. UpTo(y)[k] <= Table(y)[m] /\ UpTo(y)[k] \in Nat
      BY <1>1, <1>2, <1>3, <3>1, MonthsInOrder
    <3> QED
      BY <1>1, <1>2, <1>4, <3>2
  <2> QED
    BY <2>1, <2>2
<1>6. IsMonth(y, n, m)
  BY <1>1, <1>4, <1>5 DEF IsMonth, StopsAt
<1>7. UpTo(y)[m - 1] = Table(y)[m]
  <2>1. CASE m = 1
    BY <1>3, <2>1, Months
  <2>2. CASE m \in 2..12
    <3>1. m - 1 \in 1..11 /\ m - 1 + 1 = m /\ m - 1 \in 1..12
      BY <2>2
    <3>2. Table(y)[m - 1 + 1] = Table(y)[m - 1] + MonthDays(y, m - 1)
      BY <3>1, Months
    <3> QED
      BY <1>3, <3>1, <3>2
  <2> QED
    BY <1>1, <2>1, <2>2
<1>8. InYear(y, n) = Date(y, m, n - (IF m = 0 THEN 0 ELSE UpTo(y)[m - 1]))
  BY <1>1, <1>4, <1>6, MonthFound
<1>9. n - UpTo(y)[m - 1] = d /\ m # 0
  BY <1>1, <1>2, <1>7
<1>10. InYear(y, n) = t
  BY <1>1, <1>8, <1>9
<1> QED
  BY <1>10 DEF y, n

\* The day behind the last of the year is the first of month 13.
LEMMA MonthThirteen ==
    ASSUME NEW y \in Nat, 1901 <= y, y <= 2099
    PROVE  InYear(y, 366 + Leap(y)) = Date(y, 13, 1)
<1> DEFINE n == 366 + Leap(y)
<1>1. UpTo(y)[0] = 0 /\ \A m \in 1..12 : UpTo(y)[m] = Table(y)[m] + MonthDays(y, m)
  BY UpToIs
<1>2. /\ Leap(y) \in {0, 1} /\ Table(y)[12] + MonthDays(y, 12) = 365 + Leap(y)
      /\ \A m \in 1..12 : Table(y)[m] \in Nat /\ Table(y)[m] <= 335 /\ MonthDays(y, m) \in Nat
  BY Months
<1>3. n \in Nat /\ n >= 366 /\ UpTo(y)[12] = n - 1
  BY <1>1, <1>2
<1>4. ASSUME NEW k \in 0..12 PROVE UpTo(y)[k] < n
  <2>1. CASE k = 0
    BY <1>1, <1>3, <2>1
  <2>2. CASE k = 12
    BY <1>3, <2>2
  <2>3. CASE k \in 1..11
    <3>1. k \in 1..12 /\ 12 \in 1..12 /\ k < 12
      BY <2>3
    <3>2. Table(y)[k] + MonthDays(y, k) <= Table(y)[12]
      BY <3>1, MonthsInOrder
    <3>3. Table(y)[12] <= 335 /\ Table(y)[12] \in Nat /\ Table(y)[k] \in Nat /\ MonthDays(y, k) \in Nat
      BY <1>2, <3>1
    <3>4. UpTo(y)[k] = Table(y)[k] + MonthDays(y, k)
      BY <1>1, <3>1
    <3> QED
      BY <1>3, <3>2, <3>3, <3>4
  <2> QED
    BY <2>1, <2>2, <2>3
<1> HIDE DEF n
<1>5. IsMonth(y, n, 13)
  <2>1. 13 \in 0..13 /\ ~(13 <= 12) /\ 13 - 1 = 12
    OBVIOUS
  <2> QED
    BY <1>4, <2>1 DEF IsMonth, StopsAt
<1>6. InYear(y, n) = Date(y, 13, n - (IF 13 = 0 THEN 0 ELSE UpTo(y)[13 - 1]))
  BY <1>3, <1>5, MonthFound
<1>7. n - (IF 13 = 0 THEN 0 ELSE UpTo(y)[13 - 1]) = 1
  BY <1>3
<1> QED
  BY <1>6, <1>7 DEF n

\* Every day but the first of its year has one before it,
LEMMA Yesterday ==
    ASSUME NEW t, IsDay(t), DayNo(t) # 1
    PROVE  \E u : IsDay(u) /\ u.year = t.year /\ DayNo(u) = DayNo(t) - 1 /\ Tomorrow(u) = t
<1> DEFINE y == t.year
           m == t.mon
           d == t.mday
<1>1. /\ y \in Nat \ {0} /\ m \in 1..12 /\ d \in 1..31 /\ t = Date(y, m, d)
      /\ d <= MonthDays(y, m) /\ DayNo(t) = d + Table(y)[m]
  BY DEF IsDay, Date, LastDay, MonthDays, Leap, DayNo
<1> HIDE DEF y, m, d
<1>2. /\ Table(y)[1] = 0
      /\ \A k \in 1..12 : Table(y)[k] \in Nat /\ MonthDays(y, k) \in Nat /\ MonthDays(y, k) >= 28 /\ MonthDays(y, k) <= 31
      /\ \A k \in 1..11 : Table(y)[k + 1] = Table(y)[k] + MonthDays(y, k)
  BY Months
<1>3. CASE d > 1
  <2> DEFINE u == Date(y, m, d - 1)
  <2>1. /\ u \in [year : Nat \ {0}, mon : 1..12, mday : 1..31]
        /\ u.year = y /\ u.mon = m /\ u.mday = d - 1 /\ d - 1 < MonthDays(y, m)
        /\ [u EXCEPT !.mday = @ + 1] = Date(y, m, d)
    BY <1>1, <1>2, <1>3 DEF Date
  <2> HIDE DEF u
  <2>2. LastDay(u) = MonthDays(y, m)
    BY <2>1 DEF LastDay, MonthDays, Leap
  <2>3. IsDay(u) /\ Tomorrow(u) = t
    BY <1>1, <1>2, <2>1, <2>2 DEF IsDay, Tomorrow
  <2>4. DayNo(u) = DayNo(t) - 1
    BY <1>1, <1>2, <2>1 DEF DayNo
  <2> QED
    BY <2>1, <2>3, <2>4 DEF y
<1>4. CASE d = 1 /\ m # 1
  <2> DEFINE k == m - 1
             u == Date(y, k, MonthDays(y, k))
  <2>1. k \in 1..11 /\ k \in 1..12 /\ k + 1 = m /\ k < 12
    BY <1>1, <1>4
  <2>2. MonthDays(y, k) \in 1..31 /\ Table(y)[m] = Table(y)[k] + MonthDays(y, k) /\ Table(y)[k] \in Nat
    BY <1>2, <2>1
  <2> HIDE DEF k
  <2>3. /\ u \in [year : Nat \ {0}, mon : 1..12, mday : 1..31]
        /\ u.year = y /\ u.mon = k /\ u.mday = MonthDays(y, k)
    BY <1>1, <2>1, <2>2 DEF Date
  <2> HIDE DEF u
  <2>4. LastDay(u) = MonthDays(y, k)
    BY <2>3 DEF LastDay, MonthDays, Leap
  <2>5. IsDay(u) /\ Tomorrow(u) = t
    BY <1>1, <1>4, <2>1, <2>2, <2>3, <2>4 DEF IsDay, Tomorrow
  <2>6. DayNo(u) = DayNo(t) - 1
    BY <1>1, <1>4, <2>2, <2>3 DEF DayNo
  <2> QED
    BY <2>3, <2>5, <2>6 DEF y
<1>5. ~(d = 1 /\ m = 1)
  BY <1>1, <1>2
<1> QED
  BY <1>1, <1>3, <1>4, <1>5

\* which is the first of January.
LEMMA FirstDay ==
    ASSUME NEW t, IsDay(t), DayNo(t) = 1
    PROVE  t = Date(t.year, 1, 1)
<1> DEFINE y == t.year
           m == t.mon
           d == t.mday
<1>1. m \in 1..12 /\ d \in Nat \ {0} /\ t = Date(y, m, d) /\ d + Table(y)[m] = 1
  BY DEF IsDay, Date, DayNo
<1> HIDE DEF y, m, d
<1>2. \A k \in 1..12 : Table(y)[k] \in Nat /\ MonthDays(y, k) \in Nat /\ MonthDays(y, k) >= 28
  BY Months
<1>3. m = 1
  <2> SUFFICES ASSUME m # 1 PROVE FALSE
    OBVIOUS
  <2>1. 1 \in 1..12 /\ 1 < m
    BY <1>1
  <2>2. Table(y)[1] + MonthDays(y, 1) <= Table(y)[m]
    BY <1>1, <2>1, MonthsInOrder
  <2>3. Table(y)[1] \in Nat /\ MonthDays(y, 1) \in Nat /\ MonthDays(y, 1) >= 28 /\ Table(y)[m] \in Nat
    BY <1>1, <1>2, <2>1
  <2> QED
    BY <1>1, <2>2, <2>3
<1>4. d = 1
  BY <1>1, <1>2, <1>3
<1> QED
  BY <1>1, <1>3, <1>4 DEF y

\* The day of the Persian year, and the year it is in
LEMMA DayOfYearIs ==
    ASSUME NEW y \in Nat, NEW d \in Nat \ {0}, d <= 366
    PROVE  /\ FromDay(y, d).year = IF d <= 79 THEN y - 622 ELSE y - 621
           /\ DayOfYear(FromDay(y, d)) = IF d <= 79 THEN d + 276 + deyDayDiff(y) ELSE d - 79
<1>1. deyDayDiff(y) \in {10, 11}
  BY DEF deyDayDiff
<1>2. CASE d <= 79
  <2> DEFINE n == d + deyDayDiff(y)
  <2>1. n \in Nat \ {0} /\ FromDay(y, d) = InMonths(y - 622, n, 30, 9)
    BY <1>1, <1>2 DEF FromDay
  <2>2. PICK q, r : IsAt(n, 30, q, r)
    BY <2>1, MonthAndDay
  <2>3. FromDay(y, d) = Date(y - 622, 9 + q + 1, r)
    BY <2>1, <2>2, InMonthsIs
  <2>4. q \in Nat /\ r \in Nat /\ n = q * 30 + r
    BY <2>2 DEF IsAt
  <2> HIDE DEF n
  <2>5. DayOfYear(FromDay(y, d)) = 276 + n
    BY <2>3, <2>4 DEF DayOfYear, Date
  <2>6. FromDay(y, d).year = y - 622
    BY <2>3 DEF Date
  <2>7. 276 + n = d + 276 + deyDayDiff(y)
    BY <1>1 DEF n
  <2> QED
    BY <1>2, <2>5, <2>6, <2>7
<1>3. CASE d > 79 /\ d - 79 <= 186
  <2> DEFINE n == d - 79
  <2>1. n \in Nat \ {0} /\ FromDay(y, d) = InMonths(y - 621, n, 31, 0)
    BY <1>3 DEF FromDay
  <2>2. PICK q, r : IsAt(n, 31, q, r)
    BY <2>1, MonthAndDay
  <2>3. FromDay(y, d) = Date(y - 621, 0 + q + 1, r)
    BY <2>1, <2>2, InMonthsIs
  <2>4. q \in Nat /\ r \in Nat \ {0} /\ n = q * 31 + r
    BY <2>2 DEF IsAt
  <2>5. q + 1 < 7
    BY <1>3, <2>4
  <2> HIDE DEF n
  <2>6. DayOfYear(FromDay(y, d)) = n
    BY <2>3, <2>4, <2>5 DEF DayOfYear, Date
  <2>7. FromDay(y, d).year = y - 621
    BY <2>3 DEF Date
  <2> QED
    BY <1>3, <2>6, <2>7 DEF n
<1>4. CASE d - 79 > 186
  <2> DEFINE n == d - 79 - 186
  <2>1. n \in Nat \ {0} /\ FromDay(y, d) = InMonths(y - 621, n, 30, 6)
    BY <1>4 DEF FromDay
  <2>2. PICK q, r : IsAt(n, 30, q, r)
    BY <2>1, MonthAndDay
  <2>3. FromDay(y, d) = Date(y - 621, 6 + q + 1, r)
    BY <2>1, <2>2, InMonthsIs
  <2>4. q \in Nat /\ r \in Nat \ {0} /\ n = q * 30 + r
    BY <2>2 DEF IsAt
  <2> HIDE DEF n
  <2>5. DayOfYear(FromDay(y, d)) = 186 + n
    BY <2>3, <2>4 DEF DayOfYear, Date
  <2>6. FromDay(y, d).year = y - 621
    BY <2>3 DEF Date
  <2>7. 186 + n = d - 79
    BY DEF n
  <2> QED
    BY <1>4, <2>5, <2>6, <2>7
<1> QED
  BY <1>2, <1>3, <1>4

\* What the formula of change_date_to_gregorian comes to in the two centuries
Behind(z) == IF z <= 1962 THEN 286 ELSE 287
\* The days of a Gregorian year before the Persian new year, as the code has it.
Before(z) == IF z <= 1962 THEN 80 ELSE 79

\* The conversion back is one of the day of the Persian year.
LEMMA ToGregorianIs ==
    ASSUME NEW p, NEW z \in Nat, 1900 <= z, z <= 2099, p.year = z - 621
    PROVE  ToGregorian(p) = IF DayOfYear(p) <= Behind(z) THEN InYear(z, DayOfYear(p) + Before(z))
                            ELSE InYear(z + 1, DayOfYear(p) - Behind(z))
<1> DEFINE y == p.year
           d_4 == (y + 1) % 4
           r == (y - 55) % 132
           d_33 == (r * 10000) \div 305
           early == IF (y - 19) \div 63 = 20 THEN 1 ELSE 0
           a == (IF d_33 # 3 /\ d_4 <= d_33 THEN 287 ELSE 286) - early
           b == (IF d_33 \in {1, 2} /\ (d_33 = d_4 \/ d_4 = 1) THEN 78
                 ELSE IF d_33 = 3 /\ d_4 = 0 THEN 80 ELSE 79) + early
<1>1. y \in Nat /\ 1279 <= y /\ y <= 1478 /\ y + 621 = z /\ y + 622 = z + 1
  OBVIOUS
<1>2. ToGregorian(p) = IF DayOfYear(p) <= a THEN InYear(y + 621, DayOfYear(p) + b)
                       ELSE InYear(y + 622, DayOfYear(p) - a)
  BY DEF ToGregorian
<1> HIDE DEF y
<1>3. early = IF z <= 1962 THEN 1 ELSE 0
  BY <1>1
<1>4. d_4 \in {0, 1, 2, 3} /\ r \in Nat
  BY <1>1
<1>5. r = 0 => d_4 = 0
  <2>1. r = 0 => y = 1375
    BY <1>1
  <2> QED
    BY <2>1
<1> HIDE DEF d_4, r, early
<1>6. (d_33 = 0 /\ d_4 = 0) \/ (d_33 > 3 /\ d_33 \in Nat)
  <2>1. CASE r = 0
    BY <1>5, <2>1
  <2>2. CASE r # 0
    BY <1>4, <2>2
  <2> QED
    BY <2>1, <2>2
<1> HIDE DEF d_33
<1>7. a = 287 - early /\ b = 79 + early
  BY <1>3, <1>4, <1>6
<1>8. a = Behind(z) /\ b = Before(z)
  BY <1>3, <1>7 DEF Behind, Before
<1> QED
  BY <1>1, <1>2, <1>8

\* The date that comes back is today or next to it.
Beside(back, t) == back = t \/ Tomorrow(back) = t \/ back = Tomorrow(t)

\* Day n of the year is beside day d of it when they are one apart.
LEMMA BesideInYear ==
    ASSUME NEW t, IsDay(t), 1901 <= t.year, t.year <= 2099, NEW n \in Nat \ {0},
           n \in {DayNo(t) - 1, DayNo(t), DayNo(t) + 1}
    PROVE  Beside(Taken(InYear(t.year, n)), t)
<1>1. \A u : IsDay(u) => Taken(u) = u
  BY DEF IsDay, Taken
<1>2. t.year \in Nat /\ Leap(t.year) \in {0, 1}
  BY DEF IsDay, Leap
<1>3. DayNo(t) \in 1..(365 + Leap(t.year))
  BY TomorrowIs
<1>4. CASE n = DayNo(t)
  BY <1>1, <1>4, InYearIs DEF Beside
<1>5. CASE n = DayNo(t) - 1
  <2>1. DayNo(t) # 1
    BY <1>3, <1>5
  <2>2. PICK u : IsDay(u) /\ u.year = t.year /\ DayNo(u) = DayNo(t) - 1 /\ Tomorrow(u) = t
    BY <2>1, Yesterday
  <2>3. InYear(u.year, DayNo(u)) = u
    BY <2>2, InYearIs
  <2> QED
    BY <1>1, <1>5, <2>2, <2>3 DEF Beside
<1>6. CASE n = DayNo(t) + 1
  <2> DEFINE u == Tomorrow(t)
  <2>1. /\ IsDay(u)
        /\ \/ u.year = t.year /\ DayNo(u) = DayNo(t) + 1
           \/ u = Date(t.year + 1, 1, 1) /\ DayNo(t) = 365 + Leap(t.year)
    BY TomorrowIs
  <2> HIDE DEF u
  <2>2. CASE u.year = t.year /\ DayNo(u) = DayNo(t) + 1
    <3>1. InYear(u.year, DayNo(u)) = u
      BY <2>1, <2>2, InYearIs
    <3> QED
      BY <1>1, <1>6, <2>1, <2>2, <3>1 DEF Beside, u
  <2>3. CASE u = Date(t.year + 1, 1, 1) /\ DayNo(t) = 365 + Leap(t.year)
    <3>1. n = 366 + Leap(t.year)
      BY <1>2, <1>6, <2>3
    <3>2. InYear(t.year, n) = Date(t.year, 13, 1)
      BY <1>2, <3>1, MonthThirteen
    <3>3. Taken(Date(t.year, 13, 1)) = u
      BY <2>3 DEF Taken, Date
    <3> QED
      BY <3>2, <3>3 DEF Beside, u
  <2> QED
    BY <2>1, <2>2, <2>3
<1> QED
  BY <1>4, <1>5, <1>6

\* There and back is the same day or one beside it.
LEMMA BackBeside ==
    ASSUME NEW t, IsDay(t), 1901 <= t.year, t.year <= 2099
    PROVE  Beside(Taken(ToGregorian(ToPersian(t))), t)
<1> DEFINE y == t.year
           d == DayNo(t)
           p == ToPersian(t)
           back == ToGregorian(p)
<1>1. y \in Nat /\ 1901 <= y /\ y <= 2099
  BY DEF IsDay
<1>2. d \in 1..(365 + Leap(y)) /\ Leap(y) \in {0, 1} /\ Leap(y - 1) \in {0, 1}
  BY TomorrowIs DEF Leap
<1>3. p = FromDay(y, d)
  BY ToPersianIs
<1> HIDE DEF p, back
<1>4. /\ p.year = IF d <= 79 THEN y - 622 ELSE y - 621
      /\ DayOfYear(p) = IF d <= 79 THEN d + 286 + Leap(y - 1) ELSE d - 79
  <2>1. d \in Nat \ {0} /\ d <= 366
    BY <1>2
  <2>2. deyDayDiff(y) = 10 + Leap(y - 1)
    BY DEF deyDayDiff, Leap
  <2> HIDE DEF y, d
  <2>3. /\ FromDay(y, d).year = IF d <= 79 THEN y - 622 ELSE y - 621
        /\ DayOfYear(FromDay(y, d)) = IF d <= 79 THEN d + 276 + deyDayDiff(y) ELSE d - 79
    BY <1>1, <2>1, DayOfYearIs
  <2>4. d + 276 + deyDayDiff(y) = d + 286 + Leap(y - 1)
    BY <1>2, <2>1, <2>2
  <2> QED
    BY <1>3, <2>3, <2>4
<1>5. \A n \in Nat \ {0} : n \in {d - 1, d, d + 1} => Beside(Taken(InYear(y, n)), t)
  BY BesideInYear
<1>6. d = 366 => Tomorrow(t) = Date(y + 1, 1, 1)
  BY <1>2, TomorrowIs
<1>7. d = 1 => t = Date(y, 1, 1)
  BY FirstDay
<1> HIDE DEF y, d
<1>8. ASSUME d > 79 PROVE Beside(Taken(back), t)
  <2> DEFINE n == DayOfYear(p)
  <2>1. n = d - 79 /\ p.year = y - 621
    BY <1>2, <1>4, <1>8
  <2>2. back = IF n <= Behind(y) THEN InYear(y, n + Before(y)) ELSE InYear(y + 1, n - Behind(y))
    BY <1>1, <2>1, ToGregorianIs DEF back
  <2> HIDE DEF n
  <2>3. CASE n <= Behind(y)
    <3>1. n + Before(y) \in Nat \ {0} /\ n + Before(y) \in {d - 1, d, d + 1}
      BY <1>2, <1>8, <2>1 DEF Before
    <3>2. back = InYear(y, n + Before(y))
      BY <2>2, <2>3
    <3> QED
      BY <1>5, <3>1, <3>2
  <2>4. CASE ~(n <= Behind(y))
    <3>1. y <= 1962 /\ d = 366 /\ n - Behind(y) = 1
      BY <1>1, <1>2, <2>1, <2>4 DEF Behind
    <3>2. back = InYear(y + 1, 1)
      BY <2>2, <2>4, <3>1
    <3> DEFINE u == Tomorrow(t)
    <3>3. u = Date(y + 1, 1, 1) /\ IsDay(u) /\ DayNo(u) = 1
      <4>1. IsDay(u)
        BY TomorrowIs
      <4>2. u = Date(y + 1, 1, 1)
        BY <1>6, <3>1
      <4>3. Table(y + 1)[1] = 0
        BY Months
      <4> HIDE DEF u
      <4>4. u.year = y + 1 /\ u.mon = 1 /\ u.mday = 1
        BY <4>2 DEF Date
      <4> QED
        BY <4>1, <4>2, <4>3, <4>4 DEF DayNo
    <3> HIDE DEF u
    <3>4. u.year = y + 1 /\ 1901 <= u.year /\ u.year <= 2099 /\ u.mon = 1
      BY <1>1, <3>1, <3>3 DEF Date
    <3>5. InYear(u.year, DayNo(u)) = u
      BY <3>3, <3>4, InYearIs
    <3>6. Taken(u) = u
      BY <3>4 DEF Taken
    <3>7. Taken(back) = u
      BY <3>2, <3>3, <3>4, <3>5, <3>6
    <3> QED
      BY <3>7 DEF Beside, u
  <2> QED
    BY <2>3, <2>4
<1>9. ASSUME d <= 79 PROVE Beside(Taken(back), t)
  <2> DEFINE n == DayOfYear(p)
             z == y - 1
  <2>1. n = d + 286 + Leap(z) /\ p.year = z - 621 /\ z \in Nat /\ 1900 <= z /\ z <= 2099 /\ z + 1 = y
    BY <1>1, <1>2, <1>4, <1>9
  <2> HIDE DEF n, z
  <2>2. back = IF n <= Behind(z) THEN InYear(z, n + Before(z)) ELSE InYear(z + 1, n - Behind(z))
    BY <2>1, ToGregorianIs DEF n, back
  <2>3. Leap(z) \in {0, 1} /\ d \in Nat \ {0} /\ n \in Nat
    BY <1>2, <2>1 DEF z
  <2>4. CASE n <= Behind(z)
    <3>1. z > 1962 /\ d = 1 /\ Leap(z) = 0 /\ n + Before(z) = 366 + Leap(z)
      BY <2>1, <2>3, <2>4 DEF Behind, Before
    <3>2. InYear(z, 366 + Leap(z)) = Date(z, 13, 1)
      BY <2>1, <3>1, MonthThirteen
    <3>3. back = Date(z, 13, 1)
      BY <2>2, <2>4, <3>1, <3>2
    <3>4. Taken(back) = Date(y, 1, 1)
      BY <2>1, <3>3 DEF Taken, Date
    <3> QED
      BY <1>7, <3>1, <3>4 DEF Beside
  <2>5. CASE ~(n <= Behind(z))
    <3>1. n - Behind(z) \in Nat \ {0} /\ n - Behind(z) \in {d - 1, d, d + 1}
      BY <2>1, <2>3, <2>5 DEF Behind
    <3>2. back = InYear(y, n - Behind(z))
      BY <2>1, <2>2, <2>5
    <3> QED
      BY <1>5, <3>1, <3>2
  <2> QED
    BY <2>4, <2>5
<1>10. Beside(Taken(back), t)
  BY <1>2, <1>8, <1>9
<1> QED
  BY <1>10 DEF back, p

-----------------------------------------------------------------------------
(* The walk *)

\* Today is a day, and persian is what is made of it.
CalendarInv == IsDay(today) /\ persian = ToPersian(today)

\* The walk begins with a day and its Persian date.
LEMMA CalendarInvInit == Init => CalendarInv
<1> SUFFICES ASSUME Init PROVE CalendarInv
  OBVIOUS
<1>1. PICK y \in Nat \ {0} : today = Date(y, 1, 1)
  BY YearsAssumption DEF Init
<1>2. IsDay(today)
  BY <1>1 DEF IsDay, Date, LastDay, miladiMonthDays
<1> QED
  BY <1>2 DEF Init, CalendarInv

\* Each step goes to the next day.
LEMMA CalendarInvNext == CalendarInv /\ [Next]_vars => CalendarInv'
<1> SUFFICES ASSUME CalendarInv, [Next]_vars PROVE CalendarInv'
  OBVIOUS
<1>1. CASE NextDay
  <2>1. IsDay(Tomorrow(today))
    BY TomorrowIs DEF CalendarInv
  <2> QED
    BY <1>1, <2>1 DEF NextDay, CalendarInv
<1>2. CASE UNCHANGED vars
  BY <1>2 DEF vars, CalendarInv
<1> QED
  BY <1>1, <1>2 DEF Next

\* The next day has the next Persian date.
LEMMA EveryDayFollows ==
    ASSUME NEW t, IsDay(t)
    PROVE  Follows(ToPersian(t), ToPersian(Tomorrow(t)))
<1> DEFINE y == t.year
           d == DayNo(t)
           n == Tomorrow(t)
<1>1. y \in Nat \ {0}
  BY DEF IsDay
<1>2. ToPersian(t) = FromDay(y, d) /\ ToPersian(n) = FromDay(n.year, DayNo(n))
  BY ToPersianIs
<1>3. Leap(y) \in {0, 1}
  BY DEF Leap
<1>4. /\ d \in 1..(365 + Leap(y))
      /\ \/ n.year = y /\ DayNo(n) = d + 1 /\ d < 365 + Leap(y)
         \/ n.year = y + 1 /\ DayNo(n) = 1 /\ d = 365 + Leap(y)
  BY TomorrowIs DEF Date
<1> HIDE DEF y, d, n
<1>5. CASE n.year = y /\ DayNo(n) = d + 1 /\ d < 365 + Leap(y)
  <2>1. d \in Nat \ {0} /\ d < 366 /\ y \in Nat
    BY <1>1, <1>3, <1>4, <1>5
  <2> QED
    BY <1>2, <1>5, <2>1, FollowsInYear DEF n
<1>6. CASE n.year = y + 1 /\ DayNo(n) = 1 /\ d = 365 + Leap(y)
  BY <1>1, <1>2, <1>6, FollowsNextYear DEF n
<1> QED
  BY <1>4, <1>5, <1>6

\* PersianFollows for every set of years: the Persian date never skips a day. (util.c 263-352)
THEOREM NoDaySkipped == Spec => PersianFollows
<1>1. CalendarInv /\ [Next]_vars => [Follows(persian, persian')]_vars
  <2> SUFFICES ASSUME CalendarInv, NextDay PROVE Follows(persian, persian')
    BY DEF Next
  <2>1. Follows(ToPersian(today), ToPersian(Tomorrow(today)))
    BY EveryDayFollows DEF CalendarInv
  <2> QED
    BY <2>1 DEF CalendarInv, NextDay
<1>2. Init => CalendarInv
  BY CalendarInvInit
<1>3. CalendarInv /\ [Next]_vars => CalendarInv'
  BY CalendarInvNext
<1> QED
  BY <1>1, <1>2, <1>3, PTL DEF Spec, PersianFollows

\* BackWithinADay for every set of years: converted back, a date of the two
\* centuries is off by one day at most. (util.c 354-400)
THEOREM OffByADayAtMost == Spec => []BackWithinADay
<1>1. CalendarInv => BackWithinADay
  <2> SUFFICES ASSUME CalendarInv, today.year \in 1901..2099
               PROVE  Beside(Taken(ToGregorian(persian)), today)
    BY DEF BackWithinADay, Beside
  <2>1. IsDay(today) /\ 1901 <= today.year /\ today.year <= 2099 /\ persian = ToPersian(today)
    BY DEF CalendarInv
  <2> QED
    BY <2>1, BackBeside
<1>2. Init => CalendarInv
  BY CalendarInvInit
<1>3. CalendarInv /\ [Next]_vars => CalendarInv'
  BY CalendarInvNext
<1> QED
  BY <1>1, <1>2, <1>3, PTL DEF Spec

=============================================================================
