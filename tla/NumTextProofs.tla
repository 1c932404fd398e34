--------------------------- MODULE NumTextProofs ---------------------------
(***************************************************************************)
(* Theorems of NumText, for words of any width, buffers of any length that *)
(* suffices for an octal number, and any literals.                         *)
(*                                                                         *)
(* The argument has four layers.  What a recursive function of the model   *)
(* computes is an induction over a set of numbers (SetInduction): powers,  *)
(* the digits of a number, the value of digits.  A number's digits read    *)
(* back as the number (DigitsRead), and there are no more of them than the *)
(* buffer has room for (Room).  The multiplication and shift that stand    *)
(* for a division by ten are one (DivisionByTen).  The state's invariant   *)
(* IInv says for every place of the routine what the buffer holds, and     *)
(* that the digits taken and those of what is left are the number's.       *)
(***************************************************************************)
EXTENDS NumText, FiniteSetTheorems, WellFoundedInduction, SequenceTheorems, TLAPS

----------------------------------------------------------------------------
(* Induction over sets of numbers, and powers.                             *)

(* A set with zero and every successor has every number: the induction     *)
(* theorems of the library take an operator, and this takes a set.         *)
LEMMA SetInduction ==
  ASSUME NEW S, 0 \in S, \A n \in S \cap Nat : n + 1 \in S
  PROVE  Nat \subseteq S
  <1> DEFINE T == Nat \ S
             Upto(k) == {a \in T : a <= k}
             F == {Upto(k) : k \in T}
             R == StrictSubsetOrdering(T)
  <1>1. IsWellFoundedOn(R, FiniteSubsetsOf(T))
    BY FS_StrictSubsetOrderingWellFounded
  <1>2. \A k \in T : Upto(k) \in SUBSET T /\ IsFiniteSet(Upto(k))
    <2> TAKE k \in T
    <2> DEFINE U == Upto(k)
    <2>1. U \in SUBSET Nat /\ k \in Nat /\ \A s \in U : s <= k
      OBVIOUS
    <2> HIDE DEF U
    <2>2. IsFiniteSet(U)
      BY <2>1, FS_BoundedSetOfNaturals
    <2>3. QED
      BY <2>2 DEF U
  <1>3. \A a, b \in SUBSET T : IsFiniteSet(a) /\ IsFiniteSet(b) /\ a \subseteq b /\ a # b
                                 => <<a, b>> \in R
    BY DEF StrictSubsetOrdering, FiniteSubsetsOf
  <1>4. F \subseteq FiniteSubsetsOf(T)
    BY <1>2 DEF FiniteSubsetsOf
  <1>5. SUFFICES ASSUME T # {} PROVE FALSE
    OBVIOUS
  <1>6. F # {}
    BY <1>5
  <1> HIDE DEF R, F
  <1>7. PICK x \in F : \A y \in F : ~(<<y, x>> \in R)
    BY <1>1, <1>4, <1>6, WFMin
  <1>8. PICK k \in T : x = Upto(k)
    BY DEF F
  <1>9. k \in Nat /\ k \notin S /\ k # 0
    OBVIOUS
  <1>10. k - 1 \in Nat /\ k = (k - 1) + 1
    BY <1>9
  <1>11. k - 1 \in T
    BY <1>9, <1>10
  <1>12. Upto(k - 1) \in F
    BY <1>11 DEF F
  <1>13. Upto(k - 1) \subseteq Upto(k) /\ k \in Upto(k) /\ k \notin Upto(k - 1)
    BY <1>9, <1>10
  <1>14. <<Upto(k - 1), Upto(k)>> \in R
    <2> DEFINE a == Upto(k - 1)
               b == Upto(k)
    <2>1. /\ a \in SUBSET T /\ b \in SUBSET T /\ IsFiniteSet(a) /\ IsFiniteSet(b)
          /\ a \subseteq b /\ a # b
      BY <1>2, <1>11, <1>13
    <2> HIDE DEF a, b
    <2>2. <<a, b>> \in R
      BY <1>3, <2>1
    <2>3. QED
      BY <2>2 DEF a, b
  <1>15. QED
    BY <1>7, <1>8, <1>12, <1>14

(* g has a at 0 and goes on by step, up to k or without end.               *)
Starts(g, k, T, a, step) ==
  g \in [0..k -> T] /\ g[0] = a /\ \A i \in 0..(k - 1) : g[i + 1] = step[i + 1][g[i]]

Goes(f, T, a, step) ==
  f \in [Nat -> T] /\ f[0] = a /\ \A i \in Nat : f[i + 1] = step[i + 1][f[i]]

(* Two functions built by the same steps from the same start agree. *)
LEMMA Unique ==
  ASSUME NEW k \in Nat, NEW T, NEW a, NEW step, NEW g, NEW h,
         Starts(g, k, T, a, step), Starts(h, k, T, a, step)
  PROVE  g = h
  <1> DEFINE S == {i \in Nat : i <= k => g[i] = h[i]}
  <1>1. 0 \in S
    BY DEF Starts
  <1>2. \A n \in S \cap Nat : n + 1 \in S
    <2> SUFFICES ASSUME NEW n \in Nat, n \in S, n + 1 <= k PROVE g[n + 1] = h[n + 1]
      OBVIOUS
    <2>1. n \in 0..(k - 1) /\ g[n] = h[n]
      OBVIOUS
    <2>2. QED
      BY <2>1 DEF Starts
  <1> HIDE DEF S
  <1>3. Nat \subseteq S
    BY <1>1, <1>2, SetInduction
  <1>4. \A i \in 0..k : g[i] = h[i]
    BY <1>3 DEF S
  <1>5. g \in [0..k -> T] /\ h \in [0..k -> T]
    BY DEF Starts
  <1>6. QED
    BY <1>4, <1>5

(* A first value and a way from each to the next define a function.        *)
LEMMA Recursion ==
  ASSUME NEW T, NEW a \in T, NEW step \in [Nat -> [T -> T]]
  PROVE  \E f : Goes(f, T, a, step)
  <1> DEFINE Start(k, g) == Starts(g, k, T, a, step)
             S == {k \in Nat : \E g : Start(k, g)}
  <1>1. 0 \in S
    <2>1. Start(0, [i \in 0..0 |-> a])
      BY DEF Starts
    <2>2. QED
      BY <2>1
  <1>2. \A n \in S \cap Nat : n + 1 \in S
    <2> TAKE n \in S \cap Nat
    <2>1. PICK g : Start(n, g)
      OBVIOUS
    <2> DEFINE x == step[n + 1][g[n]]
               h == [i \in 0..(n + 1) |-> IF i = n + 1 THEN x ELSE g[i]]
    <2>2. x \in T /\ g \in [0..n -> T] /\ g[0] = a
      BY <2>1 DEF Starts
    <2>3. h \in [0..(n + 1) -> T] /\ h[0] = a
      BY <2>2
    <2>4. ASSUME NEW i \in 0..n PROVE h[i + 1] = step[i + 1][h[i]]
      <3>1. CASE i = n
        BY <2>1, <3>1 DEF Starts
      <3>2. CASE i < n
        BY <2>1, <3>2 DEF Starts
      <3>3. QED
        BY <3>1, <3>2
    <2>5. Start(n + 1, h)
      <3> HIDE DEF h
      <3>1. QED
        BY <2>3, <2>4 DEF Starts
    <2> HIDE DEF Start
    <2>6. \E e : Start(n + 1, e)
      BY <2>5
    <2>7. QED
      BY <2>6
  <1> HIDE DEF S
  <1>3. Nat \subseteq S
    BY <1>1, <1>2, SetInduction
  <1> DEFINE c(k) == CHOOSE g : Start(k, g)
             f == [k \in Nat |-> c(k)[k]]
  <1>4. \A k \in Nat : Start(k, c(k))
    BY <1>3, Zenon DEF S
  <1> HIDE DEF c
  <1>5. f \in [Nat -> T] /\ f[0] = a
    BY <1>4 DEF Starts
  <1>6. ASSUME NEW i \in Nat PROVE f[i + 1] = step[i + 1][f[i]]
    <2> DEFINE g == c(i)
               h == [j \in 0..i |-> c(i + 1)[j]]
    <2>1. Starts(g, i, T, a, step)
      BY <1>4
    <2>2. i + 1 \in Nat /\ i \in 0..((i + 1) - 1) /\ f[i + 1] = c(i + 1)[i + 1] /\ f[i] = g[i]
      OBVIOUS
    <2>3. Starts(c(i + 1), i + 1, T, a, step)
      BY <1>4, <2>2
    <2>4. Starts(h, i, T, a, step)
      BY <2>3 DEF Starts
    <2>5. c(i + 1)[i + 1] = step[i + 1][h[i]]
      BY <2>2, <2>3 DEF Starts
    <2> HIDE DEF g, h, f
    <2>6. g = h
      BY <2>1, <2>4, Unique
    <2>7. QED
      BY <2>2, <2>5, <2>6
  <1>7. QED
    BY <1>5, <1>6 DEF Goes

----------------------------------------------------------------------------
(* Powers.                                                                 *)

(* Pow's defining equation. *)
LEMMA Powers ==
  ASSUME NEW b \in Nat
  PROVE  Pow(b, 0) = 1 /\ \A n \in Nat : Pow(b, n) \in Nat /\ Pow(b, n + 1) = b * Pow(b, n)
  <1> DEFINE step == [i \in Nat |-> [x \in Nat |-> b * x]]
             p == CHOOSE p : p = [i \in Nat |-> IF i = 0 THEN 1 ELSE b * p[i - 1]]
  <1>1. step \in [Nat -> [Nat -> Nat]] /\ 1 \in Nat
    OBVIOUS
  <1>2. PICK f \in [Nat -> Nat] : f[0] = 1 /\ \A i \in Nat : f[i + 1] = step[i + 1][f[i]]
    <2> DEFINE T == Nat
    <2>1. step \in [Nat -> [T -> T]] /\ 1 \in T
      BY <1>1
    <2> HIDE DEF step, T
    <2>2. \E f : Goes(f, T, 1, step)
      BY <2>1, Recursion
    <2>3. QED
      BY <2>2 DEF T, Goes
  <1>3. f = [i \in Nat |-> IF i = 0 THEN 1 ELSE b * f[i - 1]]
    <2>1. ASSUME NEW i \in Nat PROVE f[i] = IF i = 0 THEN 1 ELSE b * f[i - 1]
      <3>1. CASE i = 0
        BY <1>2, <3>1
      <3>2. CASE i # 0
        <4>1. i - 1 \in Nat /\ i = (i - 1) + 1 /\ f[i - 1] \in Nat
          BY <3>2
        <4>2. f[(i - 1) + 1] = step[(i - 1) + 1][f[i - 1]]
          BY <1>2, <4>1
        <4>3. QED
          BY <3>2, <4>1, <4>2
      <3>3. QED
        BY <3>1, <3>2
    <2>2. QED
      BY <2>1
  <1>4. p = [i \in Nat |-> IF i = 0 THEN 1 ELSE b * p[i - 1]]
    BY <1>3, Zenon
  <1>5. \A n \in Nat : Pow(b, n) = p[n]
    BY DEF Pow
  <1> HIDE DEF p
  <1>6. p[0] = 1 /\ \A n \in Nat : p[n + 1] = b * p[n]
    BY <1>4
  <1> DEFINE S == {n \in Nat : p[n] \in Nat}
  <1>7. 0 \in S /\ \A n \in S \cap Nat : n + 1 \in S
    BY <1>6
  <1> HIDE DEF S
  <1>8. Nat \subseteq S
    BY <1>7, SetInduction
  <1>9. QED
    BY <1>5, <1>6, <1>8 DEF S

(* A power of a positive number is positive. *)
LEMMA PowPositive ==
  ASSUME NEW b \in Nat, b >= 1, NEW n \in Nat
  PROVE  Pow(b, n) \in Nat /\ Pow(b, n) >= 1
  <1> DEFINE S == {k \in Nat : Pow(b, k) >= 1}
  <1>1. 0 \in S
    BY Powers
  <1>2. \A k \in S \cap Nat : k + 1 \in S
    <2> TAKE k \in S \cap Nat
    <2>1. /\ Pow(b, k) \in Nat /\ Pow(b, k) >= 1
          /\ Pow(b, k + 1) = b * Pow(b, k) /\ Pow(b, k + 1) \in Nat
      BY Powers
    <2> DEFINE x == Pow(b, k)
    <2> HIDE DEF x
    <2>2. x \in Nat /\ x >= 1 => b * x >= 1
      OBVIOUS
    <2>3. QED
      BY <2>1, <2>2 DEF x
  <1> HIDE DEF S
  <1>3. Nat \subseteq S
    BY <1>1, <1>2, SetInduction
  <1>4. QED
    BY <1>3, Powers DEF S

(* Exponents add. *)
LEMMA PowAdd ==
  ASSUME NEW b \in Nat, NEW m \in Nat, NEW n \in Nat
  PROVE  Pow(b, m + n) = Pow(b, m) * Pow(b, n)
  <1> DEFINE S == {k \in Nat : Pow(b, m + k) = Pow(b, m) * Pow(b, k)}
  <1>1. 0 \in S
    BY Powers
  <1>2. \A k \in S \cap Nat : k + 1 \in S
    <2> TAKE k \in S \cap Nat
    <2> DEFINE x == Pow(b, m)
               y == Pow(b, k)
    <2>1. x \in Nat /\ y \in Nat /\ Pow(b, m + k) = x * y
      BY Powers
    <2>2. m + k \in Nat /\ m + (k + 1) = (m + k) + 1
      OBVIOUS
    <2>3. Pow(b, m + (k + 1)) = b * (x * y) /\ Pow(b, k + 1) = b * y
      BY <2>1, <2>2, Powers
    <2> HIDE DEF x, y
    <2>4. b * (x * y) = x * (b * y)
      BY <2>1
    <2>5. QED
      BY <2>3, <2>4 DEF x
  <1> HIDE DEF S
  <1>3. Nat \subseteq S
    BY <1>1, <1>2, SetInduction
  <1>4. QED
    BY <1>3 DEF S

(* A power grows with its exponent ... *)
LEMMA PowMonotone ==
  ASSUME NEW b \in Nat, b >= 1, NEW m \in Nat, NEW n \in Nat, m <= n
  PROVE  Pow(b, m) <= Pow(b, n)
  <1>1. n - m \in Nat /\ n = m + (n - m)
    OBVIOUS
  <1>2. Pow(b, n) = Pow(b, m) * Pow(b, n - m)
    BY <1>1, PowAdd
  <1>3. Pow(b, m) \in Nat /\ Pow(b, n - m) \in Nat /\ Pow(b, n - m) >= 1
    BY <1>1, PowPositive
  <1> DEFINE x == Pow(b, m)
             y == Pow(b, n - m)
  <1> HIDE DEF x, y
  <1>4. x \in Nat /\ y \in Nat /\ y >= 1 => x <= x * y
    OBVIOUS
  <1>5. QED
    BY <1>2, <1>3, <1>4 DEF x, y

(* ... and with its base. *)
LEMMA PowOfBase ==
  ASSUME NEW a \in Nat, NEW b \in Nat, a <= b, NEW n \in Nat
  PROVE  Pow(a, n) <= Pow(b, n)
  <1> DEFINE S == {k \in Nat : Pow(a, k) <= Pow(b, k)}
  <1>1. 0 \in S
    BY Powers
  <1>2. \A k \in S \cap Nat : k + 1 \in S
    <2> TAKE k \in S \cap Nat
    <2> DEFINE x == Pow(a, k)
               y == Pow(b, k)
    <2>1. /\ x \in Nat /\ y \in Nat /\ x <= y
          /\ Pow(a, k + 1) = a * x /\ Pow(b, k + 1) = b * y
      BY Powers
    <2> HIDE DEF x, y
    <2>2. a * x <= b * y
      <3>1. a * x <= b * x /\ b * x <= b * y
        BY <2>1
      <3>2. a * x \in Nat /\ b * x \in Nat /\ b * y \in Nat
        BY <2>1
      <3>3. QED
        BY <3>1, <3>2
    <2>3. QED
      BY <2>1, <2>2
  <1> HIDE DEF S
  <1>3. Nat \subseteq S
    BY <1>1, <1>2, SetInduction
  <1>4. QED
    BY <1>3 DEF S

(* A power of eight or sixteen is one of two.                              *)
LEMMA PowOfTwo ==
  ASSUME NEW n \in Nat
  PROVE  Pow(8, n) = Pow(2, 3 * n) /\ Pow(16, n) = Pow(2, 4 * n)
  <1> DEFINE S == {k \in Nat : Pow(8, k) = Pow(2, 3 * k) /\ Pow(16, k) = Pow(2, 4 * k)}
  <1>1. 0 \in S
    <2>1. 3 * 0 = 0 /\ 4 * 0 = 0
      OBVIOUS
    <2>2. QED
      BY <2>1, Powers
  <1>2. \A k \in S \cap Nat : k + 1 \in S
    <2> TAKE k \in S \cap Nat
    <2>1. \A j \in Nat : /\ Pow(2, j) \in Nat
                         /\ Pow(2, j + 3) = 8 * Pow(2, j) /\ Pow(2, j + 4) = 16 * Pow(2, j)
      <3> TAKE j \in Nat
      <3> DEFINE x0 == Pow(2, j)
                 x1 == Pow(2, j + 1)
                 x2 == Pow(2, j + 2)
                 x3 == Pow(2, j + 3)
                 x4 == Pow(2, j + 4)
      <3>1. /\ j + 1 \in Nat /\ j + 2 \in Nat /\ j + 3 \in Nat
            /\ j + 2 = (j + 1) + 1 /\ j + 3 = (j + 2) + 1 /\ j + 4 = (j + 3) + 1
        OBVIOUS
      <3>2. \A i \in Nat : Pow(2, i) \in Nat /\ Pow(2, i + 1) = 2 * Pow(2, i)
        BY Powers
      <3>2a. x0 \in Nat /\ x1 = 2 * x0 /\ x2 = 2 * x1
        BY <3>1, <3>2
      <3>2b. x3 = 2 * x2 /\ x4 = 2 * x3
        BY <3>1, <3>2
      <3> HIDE DEF x0, x1, x2, x3, x4
      <3>3. x0 \in Nat /\ x3 = 8 * x0 /\ x4 = 16 * x0
        BY <3>2a, <3>2b
      <3>4. QED
        BY <3>3 DEF x0, x3, x4
    <2>2. 3 * (k + 1) = 3 * k + 3 /\ 4 * (k + 1) = 4 * k + 4 /\ 3 * k \in Nat /\ 4 * k \in Nat
      OBVIOUS
    <2>3. Pow(2, 3 * (k + 1)) = 8 * Pow(2, 3 * k) /\ Pow(2, 4 * (k + 1)) = 16 * Pow(2, 4 * k)
      BY <2>1, <2>2
    <2>4. Pow(8, k + 1) = 8 * Pow(8, k) /\ Pow(16, k + 1) = 16 * Pow(16, k)
      BY Powers
    <2>5. Pow(8, k) = Pow(2, 3 * k) /\ Pow(16, k) = Pow(2, 4 * k)
      OBVIOUS
    <2>6. QED
      BY <2>3, <2>4, <2>5
  <1> HIDE DEF S
  <1>3. Nat \subseteq S
    BY <1>1, <1>2, SetInduction
  <1>4. QED
    BY <1>3 DEF S

(* A word: its number of values is 6 modulo 10 and twice that of its       *)
(* highest bit.                                                            *)
LEMMA WordFacts ==
  /\ Bits \in Nat /\ Bits >= 4 /\ Word \in Nat /\ Word >= 16 /\ Word % 10 = 6
  /\ Word = 2 * (Word \div 2) /\ Word \div 2 = Pow(2, Bits - 1)
  <1>1. Bits \in Nat /\ Bits >= 2 /\ Bits % 4 = 0 /\ Word = Pow(2, Bits)
    BY WidthAssumption
  <1> DEFINE k == Bits \div 4
  <1>2. k \in Nat /\ Bits = 4 * k /\ k >= 1 /\ Bits >= 4
    BY <1>1
  <1>3. Word = Pow(16, k)
    BY <1>1, <1>2, PowOfTwo
  <1> DEFINE S == {n \in Nat : Pow(16, n + 1) >= 16 /\ Pow(16, n + 1) % 10 = 6}
  <1>4. 0 \in S
    <2>1. Pow(16, 0 + 1) = 16 * Pow(16, 0) /\ Pow(16, 0) = 1
      BY Powers
    <2>2. QED
      BY <2>1
  <1>5. \A n \in S \cap Nat : n + 1 \in S
    <2> TAKE n \in S \cap Nat
    <2> DEFINE x == Pow(16, n + 1)
    <2>1. x \in Nat /\ x >= 16 /\ x % 10 = 6 /\ Pow(16, (n + 1) + 1) = 16 * x
      BY Powers
    <2> HIDE DEF x
    <2>2. 16 * x >= 16 /\ (16 * x) % 10 = 6
      BY <2>1
    <2>3. QED
      BY <2>1, <2>2
  <1> HIDE DEF S
  <1>6. Nat \subseteq S
    BY <1>4, <1>5, SetInduction
  <1>7. k - 1 \in Nat /\ (k - 1) + 1 = k
    BY <1>2
  <1>8. Word \in Nat /\ Word >= 16 /\ Word % 10 = 6
    BY <1>2, <1>3, <1>6, <1>7, Powers DEF S
  <1>9. Word = 2 * Pow(2, Bits - 1) /\ Pow(2, Bits - 1) \in Nat
    <2>1. Bits - 1 \in Nat /\ Bits = (Bits - 1) + 1
      BY <1>2
    <2>2. QED
      BY <1>1, <2>1, Powers
  <1>10. QED
    BY <1>1, <1>2, <1>8, <1>9

----------------------------------------------------------------------------
(* The digits of a number, lowest first.                                   *)

(* A quotient by two or more is smaller than what is divided. *)
LEMMA Divided ==
  ASSUME NEW n \in Nat, NEW r \in Nat, r >= 2
  PROVE  /\ n \div r \in Nat /\ n % r \in 0..(r - 1) /\ n = r * (n \div r) + (n % r)
         /\ n >= 1 => n \div r < n
  <1> DEFINE q == n \div r
             m == n % r
  <1>1. q \in Nat /\ m \in 0..(r - 1) /\ n = r * q + m
    OBVIOUS
  <1> HIDE DEF q, m
  <1>2. q >= n /\ n >= 1 => r * q >= 2 * q
    BY <1>1
  <1>3. r * q \in Nat
    BY <1>1
  <1>4. n >= 1 => q < n
    BY <1>1, <1>2, <1>3
  <1>5. QED
    BY <1>1, <1>4 DEF q, m

(* A quotient is less than a power, or no less, as the number is than the  *)
(* next power.                                                             *)
LEMMA DividedBound ==
  ASSUME NEW n \in Nat, NEW r \in Nat, r >= 2, NEW p \in Nat
  PROVE  n < r * p <=> n \div r < p
  <1> DEFINE q == n \div r
             m == n % r
  <1>1. q \in Nat /\ m \in Nat /\ m < r /\ n = r * q + m
    BY Divided
  <1> HIDE DEF q, m
  <1>2. ASSUME q < p PROVE n < r * p
    <2>1. r * (q + 1) <= r * p
      BY <1>1, <1>2
    <2>2. r * (q + 1) = r * q + r /\ r * q \in Nat /\ r * p \in Nat
      BY <1>1
    <2>3. QED
      BY <1>1, <2>1, <2>2
  <1>3. ASSUME q >= p PROVE n >= r * p
    <2>1. r * p <= r * q /\ r * p \in Nat /\ r * q \in Nat
      BY <1>1, <1>3
    <2>2. QED
      BY <1>1, <2>1
  <1>4. n \in Nat /\ q \in Nat /\ p \in Nat /\ r * p \in Nat
    BY <1>1
  <1>5. n < r * p <=> q < p
    BY <1>2, <1>3, <1>4
  <1>6. QED
    BY <1>5 DEF q

(* What a sequence with one element put before it holds. *)
LEMMA ConsFacts ==
  ASSUME NEW D, NEW x \in D, NEW s \in Seq(D)
  PROVE  /\ <<x>> \o s \in Seq(D) /\ Len(<<x>> \o s) = Len(s) + 1 /\ (<<x>> \o s)[1] = x
         /\ \A i \in 1..Len(s) : (<<x>> \o s)[i + 1] = s[i]
  OBVIOUS

(* LowDigits' defining equation. *)
LEMMA LowDigitsRule ==
  ASSUME NEW r \in Nat, r >= 2
  PROVE  /\ LowDigits(r, 0) = <<>>
         /\ \A n \in 1..(Word - 1) : LowDigits(r, n) = <<n % r>> \o LowDigits(r, n \div r)
  <1> DEFINE Upto(k, g) == g = [n \in 0..k |-> IF n = 0 THEN <<>> ELSE <<n % r>> \o g[n \div r]]
             S == {k \in Nat : \E g : Upto(k, g)}
             f == CHOOSE f : f = [n \in 0..(Word - 1) |->
                                    IF n = 0 THEN <<>> ELSE <<n % r>> \o f[n \div r]]
  <1>1. 0 \in S
    <2>1. Upto(0, [n \in 0..0 |-> <<>>])
      OBVIOUS
    <2>2. QED
      BY <2>1
  <1>2. \A k \in S \cap Nat : k + 1 \in S
    <2> TAKE k \in S \cap Nat
    <2>1. PICK g : Upto(k, g)
      OBVIOUS
    <2> DEFINE x == <<(k + 1) % r>> \o g[(k + 1) \div r]
               h == [n \in 0..(k + 1) |-> IF n = k + 1 THEN x ELSE g[n]]
    <2>2. \A n \in 0..(k + 1) : h[n] = IF n = 0 THEN <<>> ELSE <<n % r>> \o h[n \div r]
      <3> TAKE n \in 0..(k + 1)
      <3>0. n \in Nat
        OBVIOUS
      <3>1. n \div r \in Nat /\ (n >= 1 => n \div r < n)
        BY <3>0, Divided
      <3>2. CASE n = k + 1
        <4>1. n \div r \in 0..k
          BY <3>1, <3>2
        <4>2. h[n] = x /\ h[n \div r] = g[n \div r]
          BY <3>2, <4>1
        <4>3. n # 0
          BY <3>2
        <4>4. QED
          BY <3>2, <4>2, <4>3, Zenon
      <3>3. CASE n \in 1..k
        <4>1. n \div r \in 0..k
          BY <3>1, <3>3
        <4>2. h[n] = g[n] /\ h[n \div r] = g[n \div r]
          BY <3>3, <4>1
        <4>3. n \in 0..k /\ n # 0
          BY <3>3
        <4>4. g[n] = <<n % r>> \o g[n \div r]
          BY <2>1, <4>3, Zenon
        <4>5. QED
          BY <4>2, <4>3, <4>4, Zenon
      <3>4. CASE n = 0
        BY <2>1, <3>4
      <3>5. QED
        BY <3>2, <3>3, <3>4
    <2>3. Upto(k + 1, h)
      <3>1. h = [n \in 0..(k + 1) |-> h[n]]
        OBVIOUS
      <3> HIDE DEF h
      <3>2. QED
        BY <2>2, <3>1
    <2> HIDE DEF Upto
    <2>4. \E e : Upto(k + 1, e)
      BY <2>3
    <2>5. QED
      BY <2>4
  <1> HIDE DEF S
  <1>3. Nat \subseteq S
    BY <1>1, <1>2, SetInduction
  <1>4. Word - 1 \in Nat
    BY WordFacts
  <1>5. PICK g : Upto(Word - 1, g)
    BY <1>3, <1>4 DEF S
  <1>6. f = [n \in 0..(Word - 1) |-> IF n = 0 THEN <<>> ELSE <<n % r>> \o f[n \div r]]
    BY <1>5, Zenon
  <1>7. \A n : LowDigits(r, n) = f[n]
    BY DEF LowDigits
  <1> HIDE DEF f, Upto
  <1>8. f[0] = <<>> /\ \A n \in 1..(Word - 1) : f[n] = <<n % r>> \o f[n \div r]
    <2>1. 0 \in 0..(Word - 1) /\ \A n \in 1..(Word - 1) : n \in 0..(Word - 1) /\ n # 0
      BY <1>4
    <2>2. QED
      BY <1>6, <2>1, Zenon
  <1>9. QED
    BY <1>7, <1>8

(* What holds of zero and of each number if of its quotient, holds of all. *)
LEMMA QuotientInduction ==
  ASSUME NEW S, NEW r \in Nat, r >= 2, 0 \in S,
         \A n \in 1..(Word - 1) : n \div r \in S => n \in S
  PROVE  0..(Word - 1) \subseteq S
  <1> DEFINE U == {k \in Nat : \A n \in 0..k : n <= Word - 1 => n \in S}
  <1>1. 0 \in U
    OBVIOUS
  <1>2. \A k \in U \cap Nat : k + 1 \in U
    <2> TAKE k \in U \cap Nat
    <2>1. SUFFICES ASSUME k + 1 <= Word - 1 PROVE k + 1 \in S
      OBVIOUS
    <2>2. (k + 1) \div r \in 0..k /\ Word \in Nat
      <3>1. k + 1 \in Nat /\ k + 1 >= 1
        OBVIOUS
      <3>2. (k + 1) \div r \in Nat /\ (k + 1) \div r < k + 1
        BY <3>1, Divided
      <3>3. QED
        BY <3>2, WordFacts
    <2>3. (k + 1) \div r \in S
      BY <2>1, <2>2
    <2>4. QED
      BY <2>1, <2>2, <2>3
  <1> HIDE DEF U
  <1>3. Nat \subseteq U
    BY <1>1, <1>2, SetInduction
  <1>4. Word - 1 \in Nat
    BY WordFacts
  <1>5. QED
    BY <1>3, <1>4 DEF U

(* The digits are digits of the base. *)
LEMMA LowDigitsType ==
  ASSUME NEW r \in Nat, r >= 2, NEW v \in 0..(Word - 1)
  PROVE  LowDigits(r, v) \in Seq(0..(r - 1))
  <1> DEFINE S == {n \in 0..(Word - 1) : LowDigits(r, n) \in Seq(0..(r - 1))}
  <1>1. 0 \in S
    <2>1. LowDigits(r, 0) = <<>>
      BY LowDigitsRule
    <2>2. 0 \in 0..(Word - 1) /\ <<>> \in Seq(0..(r - 1))
      BY WordFacts
    <2>3. QED
      BY <2>1, <2>2, Zenon
  <1>2. ASSUME NEW n \in 1..(Word - 1), n \div r \in S PROVE n \in S
    <2>1. n % r \in 0..(r - 1)
      BY Divided
    <2>2. LowDigits(r, n) = <<n % r>> \o LowDigits(r, n \div r)
      BY LowDigitsRule
    <2> HIDE DEF S
    <2>3. LowDigits(r, n \div r) \in Seq(0..(r - 1))
      BY <1>2 DEF S
    <2>4. LowDigits(r, n) \in Seq(0..(r - 1))
      BY <2>1, <2>2, <2>3, ConsFacts
    <2>5. QED
      BY <2>4, WordFacts DEF S
  <1> HIDE DEF S
  <1>3. 0..(Word - 1) \subseteq S
    BY <1>1, <1>2, QuotientInduction
  <1>4. QED
    BY <1>3 DEF S

(* As many digits as the power of the radix that the number is below, and  *)
(* more than that of one that it is not below.                             *)
LEMMA LowDigitsLength ==
  ASSUME NEW r \in Nat, r >= 2, NEW v \in 0..(Word - 1), NEW k \in Nat
  PROVE  v < Pow(r, k) <=> Len(LowDigits(r, v)) <= k
  <1> DEFINE S == {n \in 0..(Word - 1) :
                     \A l \in Nat : n < Pow(r, l) <=> Len(LowDigits(r, n)) <= l}
  <1>1. 0 \in S
    <2>1. Len(LowDigits(r, 0)) = 0
      BY LowDigitsRule
    <2>2. \A l \in Nat : Pow(r, l) \in Nat /\ Pow(r, l) >= 1
      <3>1. r >= 1
        OBVIOUS
      <3>2. QED
        BY <3>1, PowPositive
    <2>3. QED
      BY <2>1, <2>2, WordFacts
  <1>2. ASSUME NEW n \in 1..(Word - 1), n \div r \in S PROVE n \in S
    <2> DEFINE q == n \div r
               s == LowDigits(r, q)
    <2>1. q \in 0..(Word - 1)
      BY <1>2
    <2>2. s \in Seq(0..(r - 1)) /\ n % r \in 0..(r - 1) /\ n \in Nat
      BY <2>1, LowDigitsType, Divided
    <2>3. LowDigits(r, n) = <<n % r>> \o s
      BY LowDigitsRule
    <2>4. Len(LowDigits(r, n)) = Len(s) + 1 /\ Len(s) \in Nat
      <3> HIDE DEF s
      <3>1. QED
        BY <2>2, <2>3, ConsFacts
    <2>5. \A l \in Nat : q < Pow(r, l) <=> Len(s) <= l
      BY <1>2
    <2> HIDE DEF q, s
    <2>6. ASSUME NEW l \in Nat PROVE n < Pow(r, l) <=> Len(LowDigits(r, n)) <= l
      <3>1. CASE l = 0
        <4>1. Pow(r, 0) = 1
          BY Powers
        <4>2. QED
          BY <2>2, <2>4, <3>1, <4>1
      <3>2. CASE l > 0
        <4> DEFINE p == Pow(r, l - 1)
        <4>1. l - 1 \in Nat /\ (l - 1) + 1 = l
          BY <3>2
        <4>2. p \in Nat /\ Pow(r, l) = r * p
          BY <4>1, Powers
        <4>3. n < r * p <=> q < p
          <5> HIDE DEF p
          <5>1. QED
            BY <2>2, <4>2, DividedBound DEF q
        <4>4. q < p <=> Len(s) <= l - 1
          BY <2>5, <4>1
        <4>5. QED
          BY <2>4, <4>1, <4>2, <4>3, <4>4
      <3>3. QED
        BY <3>1, <3>2
    <2>7. QED
      BY <2>6, WordFacts
  <1> HIDE DEF S
  <1>3. 0..(Word - 1) \subseteq S
    BY <1>1, <1>2, QuotientInduction
  <1>4. QED
    BY <1>3 DEF S

(* The highest digit is not zero.                                          *)
LEMMA LowDigitsLast ==
  ASSUME NEW r \in Nat, r >= 2, NEW v \in 1..(Word - 1)
  PROVE  LowDigits(r, v)[Len(LowDigits(r, v))] # 0
  <1> DEFINE S == {n \in 0..(Word - 1) : n # 0 => LowDigits(r, n)[Len(LowDigits(r, n))] # 0}
  <1>1. 0 \in S
    BY WordFacts
  <1>2. ASSUME NEW n \in 1..(Word - 1), n \div r \in S PROVE n \in S
    <2> DEFINE q == n \div r
               s == LowDigits(r, q)
               t == LowDigits(r, n)
               m == n % r
    <2>1. q \in 0..(Word - 1) /\ n \in Nat
      BY <1>2
    <2>2. s \in Seq(0..(r - 1)) /\ m \in 0..(r - 1)
      BY <2>1, LowDigitsType, Divided
    <2>2a. n = r * q + m
      BY <2>1, Divided
    <2>3. t = <<m>> \o s
      BY LowDigitsRule
    <2>4. /\ Len(t) = Len(s) + 1 /\ Len(s) \in Nat /\ t[1] = m
          /\ \A i \in 1..Len(s) : t[i + 1] = s[i]
      <3> HIDE DEF s, t, m
      <3>1. QED
        BY <2>2, <2>3, ConsFacts
    <2>5. q # 0 => s[Len(s)] # 0
      BY <1>2
    <2>6. q = 0 => Len(s) = 0
      BY LowDigitsRule
    <2>7. q # 0 => Len(s) # 0
      <3>1. Pow(r, 0) = 1 /\ 0 \in Nat
        BY Powers
      <3>2. q < 1 <=> Len(s) <= 0
        BY <2>1, <3>1, LowDigitsLength
      <3>3. QED
        BY <2>1, <2>4, <3>2
    <2> HIDE DEF q, s, t, m
    <2>8. CASE q = 0
      <3>1. m = n
        BY <2>1, <2>2, <2>2a, <2>8
      <3>2. QED
        <4>1. t[Len(t)] # 0
          BY <2>1, <2>4, <2>6, <2>8, <3>1
        <4>2. QED
          BY <4>1, WordFacts DEF t
    <2>9. CASE q # 0
      <3>1. Len(s) \in 1..Len(s) /\ t[Len(t)] = s[Len(s)]
        BY <2>4, <2>7, <2>9
      <3>2. QED
        BY <2>5, <2>9, <3>1, WordFacts DEF t
    <2>10. QED
      BY <2>8, <2>9
  <1> HIDE DEF S
  <1>3. 0..(Word - 1) \subseteq S
    BY <1>1, <1>2, QuotientInduction
  <1>4. v \in S /\ v # 0
    BY <1>3, WordFacts
  <1>5. QED
    BY <1>4 DEF S

----------------------------------------------------------------------------
(* What digits read as.                                                    *)

(* u has the values of the first digits of d, of none to all.              *)
Values(b, d, u) ==
  /\ u \in [0..Len(d) -> Nat] /\ u[0] = 0
  /\ \A i \in 1..Len(d) : u[i] = b * u[i - 1] + d[i]

(* ReadsAs is the last of such values. *)
LEMMA ReadsAsValues ==
  ASSUME NEW b \in Nat, NEW d \in Seq(Nat)
  PROVE  \E u : Values(b, d, u) /\ ReadsAs(b, d) = u[Len(d)]
  <1> DEFINE n == Len(d)
             step == [i \in Nat |-> [x \in Nat |-> IF i \in 1..n THEN b * x + d[i] ELSE 0]]
             v == CHOOSE v : v = [i \in 0..n |-> IF i = 0 THEN 0 ELSE b * v[i - 1] + d[i]]
  <1>1. n \in Nat /\ \A i \in 1..n : d[i] \in Nat
    OBVIOUS
  <1>2. PICK f : Goes(f, Nat, 0, step)
    <2> DEFINE T == Nat
    <2>1. step \in [Nat -> [T -> T]] /\ 0 \in T
      <3> HIDE DEF n
      <3>1. QED
        BY <1>1
    <2> HIDE DEF step, T
    <2>2. \E f : Goes(f, T, 0, step)
      BY <2>1, Recursion
    <2>3. QED
      BY <2>2 DEF T
  <1> DEFINE u == [i \in 0..n |-> f[i]]
  <1> HIDE DEF n
  <1>3. u = [i \in 0..n |-> IF i = 0 THEN 0 ELSE b * u[i - 1] + d[i]]
    <2>1. ASSUME NEW i \in 1..n PROVE f[i] = b * f[i - 1] + d[i]
      <3>1. i - 1 \in Nat /\ (i - 1) + 1 = i /\ i \in Nat /\ f[i - 1] \in Nat
        BY <1>1, <1>2 DEF Goes
      <3>2. f[(i - 1) + 1] = step[(i - 1) + 1][f[i - 1]]
        BY <1>2, <3>1 DEF Goes
      <3>3. QED
        BY <3>1, <3>2
    <2>2. f[0] = 0
      BY <1>2 DEF Goes
    <2>3. ASSUME NEW i \in 0..n PROVE u[i] = IF i = 0 THEN 0 ELSE b * u[i - 1] + d[i]
      <3>1. CASE i = 0
        BY <1>1, <2>2, <3>1
      <3>2. CASE i # 0
        <4>1. i \in 1..n /\ i - 1 \in 0..n
          BY <1>1, <3>2
        <4>2. QED
          BY <2>1, <3>2, <4>1
      <3>3. QED
        BY <3>1, <3>2
    <2>4. u = [i \in 0..n |-> u[i]]
      OBVIOUS
    <2> HIDE DEF u
    <2>5. QED
      BY <2>3, <2>4
  <1> HIDE DEF u
  <1>4. v = [i \in 0..n |-> IF i = 0 THEN 0 ELSE b * v[i - 1] + d[i]]
    BY <1>3, Zenon
  <1>5. ReadsAs(b, d) = v[n]
    BY DEF ReadsAs, n
  <1> HIDE DEF v
  <1>6. DOMAIN v = 0..n /\ v[0] = 0 /\ \A i \in 1..n : v[i] = b * v[i - 1] + d[i]
    <2>1. 0 \in 0..n /\ \A i \in 1..n : i \in 0..n /\ i # 0
      BY <1>1
    <2>2. QED
      BY <1>4, <2>1, Zenon
  <1> DEFINE S == {i \in Nat : i <= n => v[i] \in Nat}
  <1>7. 0 \in S
    BY <1>6
  <1>8. \A i \in S \cap Nat : i + 1 \in S
    <2> SUFFICES ASSUME NEW i \in Nat, i \in S, i + 1 <= n PROVE v[i + 1] \in Nat
      OBVIOUS
    <2>1. i + 1 \in 1..n /\ (i + 1) - 1 = i /\ v[i] \in Nat
      BY <1>1
    <2>2. v[i + 1] = b * v[i] + d[i + 1] /\ d[i + 1] \in Nat
      BY <1>1, <1>6, <2>1
    <2> DEFINE x == v[i]
               y == d[i + 1]
    <2>3. x \in Nat /\ y \in Nat /\ v[i + 1] = b * x + y
      BY <2>1, <2>2
    <2> HIDE DEF x, y
    <2>4. QED
      BY <2>3
  <1> HIDE DEF S
  <1>9. Nat \subseteq S
    BY <1>7, <1>8, SetInduction
  <1>10. v \in [0..n -> Nat]
    <2>1. v = [i \in 0..n |-> v[i]]
      BY <1>4, Zenon
    <2>2. \A i \in 0..n : v[i] \in Nat
      BY <1>1, <1>9 DEF S
    <2>3. QED
      BY <2>1, <2>2
  <1>11. Values(b, d, v)
    BY <1>6, <1>10 DEF Values, n
  <1>12. QED
    BY <1>5, <1>11 DEF n

(* Digits that start the same have the same value so far.                  *)
LEMMA ValuesAgree ==
  ASSUME NEW b \in Nat, NEW d \in Seq(Nat), NEW e \in Seq(Nat), NEW u, NEW w,
         Values(b, d, u), Values(b, e, w), NEW n \in Nat, n <= Len(d), n <= Len(e),
         \A i \in 1..n : d[i] = e[i]
  PROVE  u[n] = w[n]
  <1> DEFINE S == {i \in Nat : i <= n => u[i] = w[i]}
  <1>1. 0 \in S
    BY DEF Values
  <1>2. \A i \in S \cap Nat : i + 1 \in S
    <2> SUFFICES ASSUME NEW i \in Nat, i \in S, i + 1 <= n PROVE u[i + 1] = w[i + 1]
      OBVIOUS
    <2>1. /\ i + 1 \in 1..n /\ i + 1 \in 1..Len(d) /\ i + 1 \in 1..Len(e)
          /\ (i + 1) - 1 = i /\ u[i] = w[i]
      OBVIOUS
    <2>2. u[i + 1] = b * u[i] + d[i + 1] /\ w[i + 1] = b * w[i] + e[i + 1]
      BY <2>1 DEF Values
    <2>3. d[i + 1] = e[i + 1]
      BY <2>1
    <2>4. QED
      BY <2>1, <2>2, <2>3
  <1> HIDE DEF S
  <1>3. Nat \subseteq S
    BY <1>1, <1>2, SetInduction
  <1>4. QED
    BY <1>3 DEF S

(* Any function of such values has ReadsAs as its last. *)
LEMMA ValuesRead ==
  ASSUME NEW b \in Nat, NEW d \in Seq(Nat), NEW u, Values(b, d, u)
  PROVE  ReadsAs(b, d) = u[Len(d)] /\ ReadsAs(b, d) \in Nat
  <1>1. PICK w : Values(b, d, w) /\ ReadsAs(b, d) = w[Len(d)]
    BY ReadsAsValues
  <1>2. Len(d) \in Nat /\ Len(d) <= Len(d)
    OBVIOUS
  <1>3. u[Len(d)] = w[Len(d)]
    BY <1>1, <1>2, ValuesAgree
  <1>4. u[Len(d)] \in Nat
    BY <1>2 DEF Values
  <1>5. QED
    BY <1>1, <1>3, <1>4

(* Digits read as a number ... *)
LEMMA ReadsAsType ==
  ASSUME NEW b \in Nat, NEW d \in Seq(Nat)
  PROVE  ReadsAs(b, d) \in Nat
  BY ReadsAsValues, ValuesRead

(* ... no digits as zero ... *)
LEMMA ReadsAsEmpty ==
  ASSUME NEW b \in Nat
  PROVE  ReadsAs(b, <<>>) = 0
  <1>1. <<>> \in Seq(Nat) /\ Len(<<>>) = 0
    OBVIOUS
  <1>2. PICK u : Values(b, <<>>, u) /\ ReadsAs(b, <<>>) = u[Len(<<>>)]
    BY <1>1, ReadsAsValues
  <1>3. u[0] = 0
    BY <1>2 DEF Values
  <1>4. QED
    BY <1>1, <1>2, <1>3

(* ... and one digit more as the base times as much and the digit. *)
LEMMA ReadsAsAppend ==
  ASSUME NEW b \in Nat, NEW d \in Seq(Nat), NEW x \in Nat
  PROVE  ReadsAs(b, Append(d, x)) = b * ReadsAs(b, d) + x
  <1> DEFINE e == Append(d, x)
             n == Len(d)
  <1>1. /\ e \in Seq(Nat) /\ n \in Nat /\ Len(e) = n + 1 /\ e[n + 1] = x
        /\ \A i \in 1..n : e[i] = d[i]
    OBVIOUS
  <1> HIDE DEF e
  <1>2. PICK u : Values(b, d, u) /\ ReadsAs(b, d) = u[n]
    BY ReadsAsValues
  <1>3. PICK w : Values(b, e, w) /\ ReadsAs(b, e) = w[Len(e)]
    BY <1>1, ReadsAsValues
  <1>4. n <= Len(d) /\ n <= Len(e) /\ \A i \in 1..n : d[i] = e[i]
    BY <1>1
  <1>5. u[n] = w[n]
    <2> HIDE DEF n
    <2>1. QED
      BY <1>1, <1>2, <1>3, <1>4, ValuesAgree
  <1>6. w[n + 1] = b * w[n] + x
    <2>1. n + 1 \in 1..Len(e) /\ (n + 1) - 1 = n
      BY <1>1
    <2>2. w[n + 1] = b * w[(n + 1) - 1] + e[n + 1]
      BY <1>3, <2>1 DEF Values
    <2>3. QED
      BY <1>1, <2>1, <2>2
  <1>7. ReadsAs(b, e) = b * ReadsAs(b, d) + x
    BY <1>1, <1>2, <1>3, <1>5, <1>6
  <1>8. QED
    BY <1>7 DEF e

(* Digits below the base stay below its power.                             *)
LEMMA ValuesBelow ==
  ASSUME NEW b \in Nat, b >= 1, NEW d \in Seq(Nat), NEW u, Values(b, d, u),
         \A i \in 1..Len(d) : d[i] < b, NEW n \in 0..Len(d)
  PROVE  u[n] < Pow(b, n)
  <1> DEFINE S == {i \in Nat : i <= Len(d) => u[i] < Pow(b, i)}
  <1>1. 0 \in S
    BY Powers DEF Values
  <1>2. \A i \in S \cap Nat : i + 1 \in S
    <2> SUFFICES ASSUME NEW i \in Nat, i \in S, i + 1 <= Len(d)
                 PROVE  u[i + 1] < Pow(b, i + 1)
      OBVIOUS
    <2> DEFINE x == u[i]
               p == Pow(b, i)
    <2>1. i + 1 \in 1..Len(d) /\ i \in 0..Len(d) /\ (i + 1) - 1 = i
      OBVIOUS
    <2>2. u[i + 1] = b * x + d[i + 1] /\ x \in Nat
      BY <2>1 DEF Values
    <2>3. d[i + 1] \in Nat /\ d[i + 1] < b
      BY <2>1
    <2>4. p \in Nat /\ Pow(b, i + 1) = b * p
      BY Powers
    <2>5. x < p
      BY <2>1
    <2> HIDE DEF x, p
    <2>6. b * (x + 1) <= b * p
      BY <2>2, <2>4, <2>5
    <2>7. b * (x + 1) = b * x + b /\ b * x \in Nat /\ b * p \in Nat
      BY <2>2, <2>4
    <2>8. b * x + d[i + 1] < b * p
      BY <2>3, <2>6, <2>7
    <2>9. QED
      BY <2>2, <2>4, <2>8
  <1> HIDE DEF S
  <1>3. Nat \subseteq S
    BY <1>1, <1>2, SetInduction
  <1>4. QED
    BY <1>3 DEF S

(* A first digit counts for a power of the base in any case.               *)
LEMMA ValuesAbove ==
  ASSUME NEW b \in Nat, b >= 1, NEW d \in Seq(Nat), NEW u, Values(b, d, u),
         NEW m \in Nat, Len(d) >= 1, m <= d[1]
  PROVE  m * Pow(b, Len(d) - 1) <= u[Len(d)]
  <1> DEFINE S == {i \in Nat : i + 1 <= Len(d) => m * Pow(b, i) <= u[i + 1]}
  <1>1. 0 \in S
    <2>1. u[1] = b * u[1 - 1] + d[1] /\ d[1] \in Nat
      BY DEF Values
    <2>2. u[1 - 1] = 0 /\ Pow(b, 0) = 1
      BY Powers DEF Values
    <2>3. u[0 + 1] = d[1] /\ m * Pow(b, 0) = m
      BY <2>1, <2>2
    <2>4. QED
      BY <2>3
  <1>2. \A i \in S \cap Nat : i + 1 \in S
    <2> SUFFICES ASSUME NEW i \in Nat, i \in S, (i + 1) + 1 <= Len(d)
                 PROVE  m * Pow(b, i + 1) <= u[(i + 1) + 1]
      OBVIOUS
    <2> DEFINE x == u[i + 1]
               p == Pow(b, i)
               j == (i + 1) + 1
    <2>1. j \in 1..Len(d) /\ i + 1 \in 0..Len(d) /\ j - 1 = i + 1
      OBVIOUS
    <2>2. u[j] = b * x + d[j] /\ x \in Nat /\ d[j] \in Nat
      <3> HIDE DEF j
      <3>1. u[j] = b * u[j - 1] + d[j] /\ u[i + 1] \in Nat
        BY <2>1 DEF Values
      <3>2. QED
        BY <2>1, <3>1
    <2>3. p \in Nat /\ Pow(b, i + 1) = b * p
      BY Powers
    <2>4. m * p <= x
      BY <2>1
    <2> HIDE DEF x, p, j
    <2>5. b * (m * p) <= b * x /\ m * p \in Nat
      BY <2>2, <2>3, <2>4
    <2>6. m * (b * p) = b * (m * p) /\ b * x \in Nat
      BY <2>2, <2>3
    <2>7. m * (b * p) <= b * x + d[j]
      <3> DEFINE y == b * (m * p)
                 z == b * x
                 c == d[j]
      <3>1. y <= z /\ m * (b * p) = y
        BY <2>5, <2>6
      <3>2a. z \in Nat /\ c \in Nat
        BY <2>2, <2>6
      <3>2b. y \in Nat
        <4> DEFINE q == m * p
        <4>1. q \in Nat
          BY <2>5
        <4> HIDE DEF q
        <4>2. b * q \in Nat
          BY <2>2, <2>3, <4>1
        <4>3. QED
          BY <4>2 DEF q
      <3> HIDE DEF y, z, c
      <3>2. m * (b * p) <= z + c
        BY <3>1, <3>2a, <3>2b
      <3>3. QED
        BY <3>2 DEF z, c
    <2>8. QED
      BY <2>2, <2>3, <2>7 DEF j
  <1> HIDE DEF S
  <1>3. Nat \subseteq S
    BY <1>1, <1>2, SetInduction
  <1>4. Len(d) - 1 \in Nat /\ (Len(d) - 1) + 1 = Len(d)
    OBVIOUS
  <1>5. QED
    BY <1>3, <1>4 DEF S

(* Zeros read as zero. *)
LEMMA ValuesOfZeros ==
  ASSUME NEW b \in Nat, NEW d \in Seq(Nat), NEW u, Values(b, d, u), NEW n \in 0..Len(d),
         \A i \in 1..n : d[i] = 0
  PROVE  u[n] = 0
  <1> DEFINE S == {i \in Nat : i <= n => u[i] = 0}
  <1>1. 0 \in S
    BY DEF Values
  <1>2. \A i \in S \cap Nat : i + 1 \in S
    <2> SUFFICES ASSUME NEW i \in Nat, i \in S, i + 1 <= n PROVE u[i + 1] = 0
      OBVIOUS
    <2>1. i + 1 \in 1..Len(d) /\ (i + 1) - 1 = i /\ u[i] = 0 /\ d[i + 1] = 0
      OBVIOUS
    <2>2. u[i + 1] = b * u[(i + 1) - 1] + d[i + 1]
      BY <2>1 DEF Values
    <2>3. b * 0 + 0 = 0
      OBVIOUS
    <2>4. QED
      BY <2>1, <2>2, <2>3
  <1> HIDE DEF S
  <1>3. Nat \subseteq S
    BY <1>1, <1>2, SetInduction
  <1>4. n \in S
    BY <1>3
  <1>5. QED
    BY <1>4 DEF S

(* Leading zeros add nothing.                                              *)
LEMMA ReadsAsSignificant ==
  ASSUME NEW b \in Nat, NEW d \in Seq(Nat), NEW k \in 1..Len(d),
         \A i \in 1..(k - 1) : d[i] = 0
  PROVE  ReadsAs(b, d) = ReadsAs(b, SubSeq(d, k, Len(d)))
  <1> DEFINE e == SubSeq(d, k, Len(d))
             n == Len(d) - k + 1
  <1>1. /\ e \in Seq(Nat) /\ Len(e) = n /\ n \in Nat
        /\ \A i \in 1..n : e[i] = d[k - 1 + i]
    <2>1. Len(d) \in Nat /\ k \in Nat
      OBVIOUS
    <2>2. QED
      BY <2>1, SubSeqProperties
  <1>2. PICK u : Values(b, d, u) /\ ReadsAs(b, d) = u[Len(d)]
    BY ReadsAsValues
  <1> HIDE DEF e
  <1>6. u[k - 1] = 0
    <2>1. k - 1 \in 0..Len(d)
      OBVIOUS
    <2>2. QED
      BY <1>2, <2>1, ValuesOfZeros
  <1> DEFINE w == [i \in 0..n |-> u[k - 1 + i]]
  <1>7. Values(b, e, w)
    <2>1. w \in [0..n -> Nat] /\ w[0] = 0
      <3>1. ASSUME NEW i \in 0..n PROVE u[k - 1 + i] \in Nat
        <4>1. k - 1 + i \in 0..Len(d)
          BY <1>1
        <4>2. u \in [0..Len(d) -> Nat]
          BY <1>2 DEF Values
        <4>3. QED
          BY <4>1, <4>2
      <3>2. w \in [0..n -> Nat]
        BY <3>1
      <3>3. w[0] = u[k - 1]
        BY <1>1
      <3>4. QED
        BY <1>6, <3>2, <3>3
    <2>2. ASSUME NEW i \in 1..n PROVE w[i] = b * w[i - 1] + e[i]
      <3> DEFINE j == k - 1 + i
      <3>1. j \in 1..Len(d) /\ j - 1 = k - 1 + (i - 1) /\ i \in 0..n /\ i - 1 \in 0..n
        BY <1>1
      <3>2. u[j] = b * u[j - 1] + d[j]
        BY <1>2, <3>1 DEF Values
      <3>3. QED
        BY <1>1, <3>1, <3>2
    <2> HIDE DEF w
    <2>3. QED
      BY <1>1, <2>1, <2>2 DEF Values
  <1>8. w[n] = u[Len(d)]
    BY <1>1
  <1> HIDE DEF w
  <1>9. ReadsAs(b, e) = w[Len(e)]
    BY <1>1, <1>7, ValuesRead
  <1>10. QED
    BY <1>1, <1>2, <1>8, <1>9 DEF e

----------------------------------------------------------------------------
(* Digits, reversed, read as the number; and the order of digits.          *)

(* What a reversed sequence holds. *)
LEMMA ReverseFacts ==
  ASSUME NEW D, NEW s \in Seq(D)
  PROVE  /\ Reverse(s) \in Seq(D) /\ Len(Reverse(s)) = Len(s)
         /\ \A i \in 1..Len(s) : Reverse(s)[i] = s[Len(s) - i + 1]
  BY DEF Reverse

(* The first element of a sequence is the last of its reverse. *)
LEMMA ReverseCons ==
  ASSUME NEW D, NEW x \in D, NEW s \in Seq(D)
  PROVE  Reverse(<<x>> \o s) = Append(Reverse(s), x)
  <1> DEFINE t == <<x>> \o s
             n == Len(s)
             a == Reverse(t)
             r == Reverse(s)
             b == Append(r, x)
  <1>1. /\ t \in Seq(D) /\ Len(t) = n + 1 /\ t[1] = x /\ n \in Nat
        /\ \A i \in 1..n : t[i + 1] = s[i]
    BY ConsFacts
  <1> HIDE DEF t
  <1>2. a \in Seq(D) /\ Len(a) = n + 1 /\ \A i \in 1..(n + 1) : a[i] = t[n + 1 - i + 1]
    BY <1>1, ReverseFacts
  <1>3. r \in Seq(D) /\ Len(r) = n /\ \A i \in 1..n : r[i] = s[n - i + 1]
    BY ReverseFacts
  <1> HIDE DEF n, r, a
  <1>4. /\ b \in Seq(D) /\ Len(b) = n + 1 /\ b[n + 1] = x /\ \A i \in 1..n : b[i] = r[i]
    BY <1>1, <1>3
  <1> HIDE DEF b
  <1>5. ASSUME NEW i \in 1..(n + 1) PROVE a[i] = b[i]
    <2>1. CASE i = n + 1
      BY <1>1, <1>2, <1>4, <2>1
    <2>2. CASE i \in 1..n
      <3>1. n - i + 1 \in 1..n /\ n + 1 - i + 1 = (n - i + 1) + 1
        BY <1>1, <2>2
      <3>2. a[i] = t[(n - i + 1) + 1] /\ b[i] = s[n - i + 1]
        BY <1>2, <1>3, <1>4, <2>2, <3>1
      <3>3. QED
        BY <1>1, <3>1, <3>2
    <2>3. QED
      BY <1>1, <2>1, <2>2
  <1>6. a = b
    BY <1>2, <1>4, <1>5, SeqEqual
  <1>7. QED
    BY <1>6 DEF a, b, r, t

(* The digits of a number read as the number.                              *)
LEMMA DigitsRead ==
  ASSUME NEW r \in Nat, r >= 2, NEW v \in 0..(Word - 1)
  PROVE  ReadsAs(r, Reverse(LowDigits(r, v))) = v
  <1> DEFINE S == {n \in 0..(Word - 1) : ReadsAs(r, Reverse(LowDigits(r, n))) = n}
  <1>1. 0 \in S
    <2>1. LowDigits(r, 0) = <<>>
      BY LowDigitsRule
    <2>2. Reverse(<<>>) = <<>>
      BY DEF Reverse
    <2>3. ReadsAs(r, <<>>) = 0 /\ 0 \in 0..(Word - 1)
      BY ReadsAsEmpty, WordFacts
    <2>4. QED
      BY <2>1, <2>2, <2>3
  <1>2. ASSUME NEW n \in 1..(Word - 1), n \div r \in S PROVE n \in S
    <2> DEFINE q == n \div r
               m == n % r
               s == LowDigits(r, q)
               z == Reverse(s)
    <2>1. q \in 0..(Word - 1) /\ n \in Nat /\ ReadsAs(r, z) = q
      BY <1>2
    <2>2. n = r * q + m /\ m \in 0..(r - 1)
      BY <2>1, Divided
    <2>3. s \in Seq(0..(r - 1)) /\ LowDigits(r, n) = <<m>> \o s
      BY <2>1, LowDigitsType, LowDigitsRule
    <2> HIDE DEF q, m, s
    <2>4. Reverse(<<m>> \o s) = Append(z, m)
      BY <2>2, <2>3, ReverseCons
    <2>5. z \in Seq(0..(r - 1))
      BY <2>3, ReverseFacts
    <2> HIDE DEF z
    <2>6. z \in Seq(Nat) /\ m \in Nat
      BY <2>2, <2>5
    <2>7. ReadsAs(r, Append(z, m)) = r * q + m
      BY <2>1, <2>6, ReadsAsAppend
    <2>8. ReadsAs(r, Reverse(LowDigits(r, n))) = n
      BY <2>2, <2>3, <2>4, <2>7
    <2>9. n \in 0..(Word - 1)
      OBVIOUS
    <2>10. QED
      BY <2>8, <2>9
  <1> HIDE DEF S
  <1>3. 0..(Word - 1) \subseteq S
    BY <1>1, <1>2, QuotientInduction
  <1>4. QED
    BY <1>3 DEF S

(* A set of numbers has a least. *)
LEMMA Least ==
  ASSUME NEW S, S \subseteq Nat, S # {}
  PROVE  \E m \in S : \A k \in S : m <= k
  <1> SUFFICES ASSUME \A m \in S : \E k \in S : k < m PROVE FALSE
    OBVIOUS
  <1> DEFINE U == {k \in Nat : \A j \in 0..k : j \notin S}
  <1>1. 0 \in U
    OBVIOUS
  <1>2. \A k \in U \cap Nat : k + 1 \in U
    <2> TAKE k \in U \cap Nat
    <2>1. SUFFICES ASSUME k + 1 \in S PROVE FALSE
      OBVIOUS
    <2>2. PICK j \in S : j < k + 1
      BY <2>1
    <2>3. j \in 0..k
      BY <2>2
    <2>4. QED
      BY <2>3
  <1> HIDE DEF U
  <1>3. Nat \subseteq U
    BY <1>1, <1>2, SetInduction
  <1>4. PICK m \in S : m \in Nat
    OBVIOUS
  <1>5. m \in U /\ m \in 0..m
    BY <1>3, <1>4
  <1>6. QED
    BY <1>5 DEF U

----------------------------------------------------------------------------
(* The value of a literal.                                                 *)

(* Digits that are greater at the first place where they differ are of a   *)
(* greater number.                                                         *)
LEMMA AboveReads ==
  ASSUME NEW b \in Nat, b >= 1, NEW d \in Seq(Nat), NEW t \in Seq(Nat), Len(d) = Len(t),
         \A i \in 1..Len(t) : t[i] < b, Above(d, t)
  PROVE  ReadsAs(b, t) < ReadsAs(b, d)
  <1> DEFINE n == Len(d)
  <1>1. PICK u : Values(b, d, u) /\ ReadsAs(b, d) = u[n]
    BY ReadsAsValues
  <1>2. PICK w : Values(b, t, w) /\ ReadsAs(b, t) = w[n]
    BY ReadsAsValues
  <1>3. PICK k \in 1..n : d[k] > t[k] /\ \A j \in 1..(k - 1) : d[j] = t[j]
    BY DEF Above
  <1>4. u[k - 1] = w[k - 1]
    <2> DEFINE q == k - 1
    <2>1. q \in Nat /\ q <= Len(d) /\ q <= Len(t)
      OBVIOUS
    <2>2. \A j \in 1..q : d[j] = t[j]
      BY <1>3
    <2>3. Values(b, d, u) /\ Values(b, t, w)
      BY <1>1, <1>2
    <2> HIDE DEF q
    <2>4. u[q] = w[q]
      BY <2>1, <2>2, <2>3, ValuesAgree, SMTT(60)
    <2>5. QED
      BY <2>4 DEF q
  <1>5. \A i \in 1..n : /\ u[i] = b * u[i - 1] + d[i] /\ w[i] = b * w[i - 1] + t[i]
                        /\ u[i - 1] \in Nat /\ w[i - 1] \in Nat /\ u[i] \in Nat /\ w[i] \in Nat
                        /\ d[i] \in Nat /\ t[i] \in Nat /\ t[i] < b
    <2> TAKE i \in 1..n
    <2>1. i - 1 \in 0..Len(d) /\ i \in 0..Len(d) /\ i \in 1..Len(d) /\ i \in 1..Len(t)
      OBVIOUS
    <2>2. u[i] = b * u[i - 1] + d[i] /\ w[i] = b * w[i - 1] + t[i]
      BY <1>1, <1>2, <2>1 DEF Values
    <2>3. u[i - 1] \in Nat /\ w[i - 1] \in Nat /\ u[i] \in Nat /\ w[i] \in Nat
      BY <1>1, <1>2, <2>1 DEF Values
    <2>4. d[i] \in Nat /\ t[i] \in Nat /\ t[i] < b
      BY <2>1
    <2>5. QED
      BY <2>2, <2>3, <2>4
  <1> DEFINE S == {i \in Nat : k + i <= n => w[k + i] < u[k + i]}
  <1>6. 0 \in S
    <2> DEFINE x == u[k - 1]
               y == b * x
    <2>1. u[k] = y + d[k] /\ w[k] = y + t[k] /\ x \in Nat
      BY <1>4, <1>5
    <2>2. d[k] \in Nat /\ t[k] \in Nat /\ d[k] > t[k] /\ k + 0 = k
      BY <1>3, <1>5
    <2> HIDE DEF x
    <2>3. y \in Nat
      BY <2>1
    <2> HIDE DEF y
    <2>4. QED
      BY <2>1, <2>2, <2>3
  <1>7. \A i \in S \cap Nat : i + 1 \in S
    <2> SUFFICES ASSUME NEW i \in Nat, i \in S, k + (i + 1) <= n
                 PROVE  w[k + (i + 1)] < u[k + (i + 1)]
      OBVIOUS
    <2> DEFINE j == k + (i + 1)
               x == u[k + i]
               y == w[k + i]
               p == d[j]
               q == t[j]
    <2>1. j \in 1..n /\ j - 1 = k + i /\ y < x
      OBVIOUS
    <2>2. /\ u[j] = b * x + p /\ w[j] = b * y + q /\ x \in Nat /\ y \in Nat
          /\ p \in Nat /\ q \in Nat /\ q < b
      <3> HIDE DEF j
      <3>1. QED
        BY <1>5, <2>1
    <2> HIDE DEF x, y, p, q, j
    <2>3. b * (y + 1) <= b * x
      BY <2>1, <2>2
    <2>4. b * (y + 1) = b * y + b /\ b * y \in Nat /\ b * x \in Nat
      BY <2>2
    <2>5. b * y + q < b * x + p
      <3> DEFINE g == b * y
                 h == b * x
      <3>1. g \in Nat /\ h \in Nat /\ g + b <= h /\ p \in Nat /\ q \in Nat /\ q < b
        BY <2>2, <2>3, <2>4
      <3> HIDE DEF g, h
      <3>2. g + q < h + p
        BY <3>1
      <3>3. QED
        BY <3>2 DEF g, h
    <2>6. QED
      BY <2>2, <2>5 DEF j
  <1> HIDE DEF S
  <1>8. Nat \subseteq S
    BY <1>6, <1>7, SetInduction
  <1>9. n - k \in Nat /\ k + (n - k) = n
    OBVIOUS
  <1>10. w[n] < u[n]
    <2>1. n - k \in S
      BY <1>8, <1>9
    <2>2. w[k + (n - k)] < u[k + (n - k)]
      BY <1>9, <2>1 DEF S
    <2>3. QED
      BY <1>9, <2>2
  <1>11. QED
    BY <1>1, <1>2, <1>10

(* Digits that are not above others of the same length do not read as      *)
(* more.                                                                   *)
LEMMA NotAboveReads ==
  ASSUME NEW b \in Nat, b >= 1, NEW d \in Seq(Nat), NEW t \in Seq(Nat), Len(d) = Len(t),
         \A i \in 1..Len(d) : d[i] < b, ~Above(d, t)
  PROVE  ReadsAs(b, d) <= ReadsAs(b, t)
  <1> DEFINE I == {i \in 1..Len(d) : d[i] # t[i]}
  <1>1. CASE I = {}
    <2>1. \A i \in 1..Len(d) : d[i] = t[i]
      BY <1>1
    <2>2. d = t
      BY <2>1, SeqEqual
    <2>3. ReadsAs(b, d) \in Nat
      BY ReadsAsType
    <2>4. QED
      BY <2>2, <2>3
  <1>2. CASE I # {}
    <2>1. PICK k \in I : \A j \in I : k <= j
      <3>1. I \subseteq Nat
        OBVIOUS
      <3> HIDE DEF I
      <3>2. QED
        BY <1>2, <3>1, Least
    <2>2. k \in 1..Len(d) /\ d[k] \in Nat /\ t[k] \in Nat /\ d[k] # t[k]
      BY <2>1
    <2>3. \A j \in 1..(k - 1) : d[j] = t[j]
      BY <2>1, <2>2
    <2>4. ~(d[k] > t[k])
      BY <2>2, <2>3 DEF Above
    <2>5. Above(t, d)
      BY <2>2, <2>3, <2>4 DEF Above
    <2>6. ReadsAs(b, d) < ReadsAs(b, t)
      BY <2>5, AboveReads
    <2>7. ReadsAs(b, d) \in Nat /\ ReadsAs(b, t) \in Nat
      BY ReadsAsType
    <2>8. QED
      BY <2>6, <2>7
  <1>3. QED
    BY <1>1, <1>2

----------------------------------------------------------------------------
(* The value that ba_StrToU64 adds up.                                     *)

(* What the quotient and the remainder are, and that nothing else is.      *)
LEMMA DivMod ==
  ASSUME NEW a \in Nat, NEW w \in Nat, w >= 1
  PROVE  a \div w \in Nat /\ a % w \in 0..(w - 1) /\ a = w * (a \div w) + (a % w)
  OBVIOUS

(* A multiple and a rest determine the quotient and the remainder. *)
LEMMA OnlyDivMod ==
  ASSUME NEW w \in Nat, w >= 1, NEW k \in Nat, NEW m \in 0..(w - 1)
  PROVE  (w * k + m) \div w = k /\ (w * k + m) % w = m
  <1> DEFINE a == w * k + m
             q == a \div w
             z == a % w
  <1>1. a \in Nat
    OBVIOUS
  <1>2. q \in Nat /\ z \in 0..(w - 1) /\ a = w * q + z
    <2> HIDE DEF a
    <2>1. QED
      BY <1>1, DivMod
  <1>3. w * q + z = w * k + m
    BY <1>2
  <1> HIDE DEF q, z, a
  <1>4. ASSUME NEW x \in Nat, NEW y \in Nat, x < y PROVE w * x + w <= w * y
    <2>1. w * (x + 1) <= w * y
      BY <1>4
    <2>2. w * (x + 1) = w * x + w
      OBVIOUS
    <2>3. QED
      BY <2>1, <2>2
  <1>5. w * q \in Nat /\ w * k \in Nat
    BY <1>2
  <1>6. ~(q < k)
    <2>1. q < k => w * q + w <= w * k
      BY <1>2, <1>4
    <2>2. QED
      BY <1>2, <1>3, <1>5, <2>1
  <1>7. ~(k < q)
    <2>1. k < q => w * k + w <= w * q
      BY <1>2, <1>4
    <2>2. QED
      BY <1>2, <1>3, <1>5, <2>1
  <1>8. q = k
    BY <1>2, <1>6, <1>7
  <1>9. z = m
    BY <1>2, <1>3, <1>5, <1>8
  <1>10. QED
    BY <1>8, <1>9 DEF q, z, a

(* A remainder may be taken before or after an addition. *)
LEMMA ModOfSum ==
  ASSUME NEW t \in Nat, NEW y \in Nat, NEW w \in Nat, w >= 1
  PROVE  ((t % w) + y) % w = (t + y) % w
  <1> DEFINE q == t \div w
             m == t % w
             s == m + y
             k == s \div w
             z == s % w
  <1>1. q \in Nat /\ m \in Nat /\ t = w * q + m
    BY DivMod
  <1> HIDE DEF q, m
  <1>2. s \in Nat /\ t + y = w * q + s
    BY <1>1
  <1> HIDE DEF s
  <1>3. k \in Nat /\ z \in 0..(w - 1) /\ s = w * k + z
    BY <1>2, DivMod
  <1> HIDE DEF k, z
  <1>4. t + y = w * (q + k) + z
    <2>1. w * (q + k) = w * q + w * k /\ w * q \in Nat /\ w * k \in Nat
      BY <1>1, <1>3
    <2>2. QED
      BY <1>2, <1>3, <2>1
  <1>5. (w * (q + k) + z) % w = z
    <2>1. q + k \in Nat
      BY <1>1, <1>3
    <2>2. QED
      BY <1>3, <2>1, OnlyDivMod
  <1>6. QED
    BY <1>4, <1>5 DEF z, s, m

Bases == {2, 8, 10, 16}

(* What an int holds is an integer. *)
LEMMA IntShiftType ==
  ASSUME NEW d \in Nat, NEW s \in Nat
  PROVE  IntShift(d, s) \in Int
  <1> DEFINE p == Pow(2, IntBits)
             x == d * Pow(2, s % IntBits)
  <1>1. IntBits \in Nat /\ IntBits >= 1
    BY WidthAssumption
  <1>2. s % IntBits \in Nat
    BY <1>1
  <1>3. p \in Nat /\ p >= 1 /\ Pow(2, s % IntBits) \in Nat
    <2>1. 2 \in Nat /\ 2 >= 1 /\ \A i \in Nat : Pow(2, i) \in Nat /\ Pow(2, i) >= 1
      BY PowPositive
    <2>2. QED
      BY <1>1, <1>2, <2>1
  <1>4. x \in Nat
    BY <1>3
  <1>5. IntShift(d, s) \in {x % p, (x % p) - p}
    BY DEF IntShift
  <1> HIDE DEF x, p
  <1>6. x % p \in Int /\ (x % p) - p \in Int
    BY <1>3, <1>4
  <1>7. QED
    BY <1>5, <1>6

(* What a digit adds, base by base. *)
LEMMA ContributionType ==
  ASSUME NEW b \in Bases, NEW d \in Nat, NEW i \in Nat
  PROVE  /\ Contribution(b, d, i) \in Int
         /\ b \in {10, 16} => Contribution(b, d, i) = d * Pow(b, i)
         /\ b = 8 => Contribution(b, d, i) = IntShift(d, 3 * i)
         /\ b = 2 => Contribution(b, d, i) = IntShift(d, i)
  <1>1. CASE b \in {10, 16}
    <2>1. Contribution(b, d, i) = d * Pow(b, i)
      BY <1>1 DEF Contribution
    <2>2. b \in Nat /\ b # 8 /\ b # 2
      BY <1>1
    <2>3. Pow(b, i) \in Nat
      BY <2>2, Powers
    <2>4. d * Pow(b, i) \in Int
      BY <2>3
    <2>5. QED
      BY <2>1, <2>2, <2>4
  <1>2. CASE b = 8
    <2>1. Contribution(b, d, i) = IntShift(d, 3 * i) /\ 3 * i \in Nat
      BY <1>2 DEF Contribution
    <2>2. QED
      BY <1>2, <2>1, IntShiftType
  <1>3. CASE b = 2
    <2>1. Contribution(b, d, i) = IntShift(d, i)
      BY <1>3 DEF Contribution
    <2>2. QED
      BY <1>3, <2>1, IntShiftType
  <1>4. QED
    BY <1>1, <1>2, <1>3 DEF Bases

(* s has what the digits of d add up to, from the last.                    *)
Sums(b, d, s) ==
  /\ s \in [0..Len(d) -> 0..(Word - 1)] /\ s[0] = 0
  /\ \A i \in 1..Len(d) :
       s[i] = (s[i - 1] + Contribution(b, d[Len(d) - i + 1], i - 1)) % Word

(* Sum is the last of such values. *)
LEMMA SumValues ==
  ASSUME NEW b \in Bases, NEW d \in Seq(Nat)
  PROVE  \E s : Sums(b, d, s) /\ Sum(b, d) = s[Len(d)]
  <1> DEFINE n == Len(d)
             W == 0..(Word - 1)
             c(i) == Contribution(b, d[n - i + 1], i - 1)
             step == [i \in Nat |-> [x \in W |-> IF i \in 1..n THEN (x + c(i)) % Word ELSE 0]]
             v == CHOOSE v : v = [i \in 0..n |->
                     IF i = 0 THEN 0
                     ELSE (v[i - 1] + Contribution(b, d[n - i + 1], i - 1)) % Word]
  <1>1. n \in Nat /\ Word \in Nat /\ Word >= 1 /\ 0 \in W
    BY WordFacts
  <1>2. ASSUME NEW i \in 1..n PROVE c(i) \in Int
    <2>1. d[n - i + 1] \in Nat /\ i - 1 \in Nat
      <3>1. n - i + 1 \in 1..n
        BY <1>1
      <3>2. QED
        BY <3>1
    <2>2. QED
      BY <2>1, ContributionType
  <1> HIDE DEF c
  <1>3. ASSUME NEW i \in 1..n, NEW x \in W PROVE (x + c(i)) % Word \in W
    <2>1. x + c(i) \in Int
      BY <1>2
    <2>2. QED
      BY <1>1, <2>1
  <1> HIDE DEF n
  <1>4. step \in [Nat -> [W -> W]]
    <2> HIDE DEF W
    <2>1. QED
      BY <1>1, <1>3
  <1>5. PICK f : Goes(f, W, 0, step)
    <2> HIDE DEF W, step
    <2>1. QED
      BY <1>1, <1>4, Recursion
  <1> HIDE DEF W
  <1>6. /\ f[0] = 0 /\ \A i \in Nat : f[i] \in W
        /\ \A i \in 1..n : f[i] = (f[i - 1] + c(i)) % Word
    <2>1. f[0] = 0 /\ \A i \in Nat : f[i] \in W
      BY <1>5 DEF Goes
    <2>2. ASSUME NEW i \in 1..n PROVE f[i] = (f[i - 1] + c(i)) % Word
      <3>1. i - 1 \in Nat /\ (i - 1) + 1 = i /\ i \in Nat /\ f[i - 1] \in W
        BY <1>1, <2>1
      <3>2. f[(i - 1) + 1] = step[(i - 1) + 1][f[i - 1]]
        BY <1>5, <3>1 DEF Goes
      <3>3. QED
        BY <3>1, <3>2
    <2>3. QED
      BY <2>1, <2>2
  <1> DEFINE u == [i \in 0..n |-> f[i]]
  <1>7. u = [i \in 0..n |-> IF i = 0 THEN 0
                            ELSE (u[i - 1] + Contribution(b, d[n - i + 1], i - 1)) % Word]
    <2>1. ASSUME NEW i \in 0..n
          PROVE  u[i] = IF i = 0 THEN 0
                        ELSE (u[i - 1] + Contribution(b, d[n - i + 1], i - 1)) % Word
      <3>1. CASE i = 0
        BY <1>1, <1>6, <3>1
      <3>2. CASE i # 0
        <4>1. i \in 1..n /\ i - 1 \in 0..n
          BY <1>1, <3>2
        <4>2. u[i] = (u[i - 1] + c(i)) % Word
          BY <1>6, <4>1
        <4>3. QED
          BY <3>2, <4>2 DEF c
      <3>3. QED
        BY <3>1, <3>2
    <2>2. u = [i \in 0..n |-> u[i]]
      OBVIOUS
    <2> HIDE DEF u
    <2>3. QED
      BY <2>1, <2>2
  <1> HIDE DEF u
  <1>8. v = [i \in 0..n |-> IF i = 0 THEN 0
                            ELSE (v[i - 1] + Contribution(b, d[n - i + 1], i - 1)) % Word]
    BY <1>7, Zenon
  <1>9. Sum(b, d) = v[n]
    BY DEF Sum, n
  <1> HIDE DEF v
  <1>10. /\ v[0] = 0
         /\ \A i \in 1..n : v[i] = (v[i - 1] + Contribution(b, d[n - i + 1], i - 1)) % Word
    <2>1. 0 \in 0..n /\ \A i \in 1..n : i \in 0..n /\ i # 0
      BY <1>1
    <2>2. QED
      BY <1>8, <2>1, Zenon
  <1> DEFINE S == {i \in Nat : i <= n => v[i] \in W}
  <1>11. 0 \in S
    BY <1>1, <1>10
  <1>12. \A i \in S \cap Nat : i + 1 \in S
    <2> SUFFICES ASSUME NEW i \in Nat, i \in S, i + 1 <= n PROVE v[i + 1] \in W
      OBVIOUS
    <2>1. i + 1 \in 1..n /\ (i + 1) - 1 = i /\ v[i] \in W
      BY <1>1
    <2>2. v[i + 1] = (v[i] + c(i + 1)) % Word
      BY <1>10, <2>1 DEF c
    <2>3. QED
      BY <1>3, <2>1, <2>2
  <1> HIDE DEF S
  <1>13. Nat \subseteq S
    BY <1>11, <1>12, SetInduction
  <1>14. v \in [0..n -> W]
    <2>1. v = [i \in 0..n |-> v[i]]
      BY <1>8, Zenon
    <2>2. \A i \in 0..n : v[i] \in W
      BY <1>1, <1>13 DEF S
    <2>3. QED
      BY <2>1, <2>2
  <1>15. Sums(b, d, v)
    BY <1>10, <1>14 DEF Sums, n, W
  <1>16. QED
    BY <1>9, <1>15 DEF n

(* If no digit is lost in the shifting the sum is the value, modulo a word.*)
LEMMA SumRight ==
  ASSUME NEW b \in Bases, NEW d \in Seq(Nat),
         \A i \in 1..Len(d) : Contribution(b, d[Len(d) - i + 1], i - 1)
                                = d[Len(d) - i + 1] * Pow(b, i - 1)
  PROVE  Sum(b, d) = ReadsAs(b, d) % Word
  <1> DEFINE n == Len(d)
  <1>1. PICK s : Sums(b, d, s) /\ Sum(b, d) = s[n]
    BY SumValues
  <1>2. b \in Nat /\ n \in Nat /\ Word \in Nat /\ Word >= 1
    BY WordFacts DEF Bases
  <1>3. PICK u : Values(b, d, u) /\ ReadsAs(b, d) = u[n]
    BY <1>2, ReadsAsValues
  <1> DEFINE Q(i) == \E t \in Nat : u[n] = u[n - i] * Pow(b, i) + t /\ s[i] = t % Word
             S == {i \in Nat : i <= n => Q(i)}
  <1>4. 0 \in S
    <2>1. u[n] \in Nat /\ s[0] = 0 /\ Pow(b, 0) = 1 /\ n - 0 = n
      <3>1. u[n] \in Nat
        BY <1>2, <1>3 DEF Values
      <3>2. s[0] = 0
        BY <1>1 DEF Sums
      <3>3. Pow(b, 0) = 1
        BY <1>2, Powers
      <3>4. QED
        BY <1>2, <3>1, <3>2, <3>3
    <2>2. u[n] = u[n] * 1 + 0 /\ 0 % Word = 0
      BY <1>2, <2>1
    <2>3. QED
      BY <2>1, <2>2
  <1>5. \A i \in S \cap Nat : i + 1 \in S
    <2> HIDE DEF Q
    <2> SUFFICES ASSUME NEW i \in Nat, i \in S, i + 1 <= n
                 PROVE  Q(i + 1)
      OBVIOUS
    <2>0. Q(i)
      BY <1>2
    <2>1. PICK t \in Nat : u[n] = u[n - i] * Pow(b, i) + t /\ s[i] = t % Word
      BY <2>0 DEF Q
    <2> DEFINE j == n - i
               p == Pow(b, i)
               x == u[j - 1]
               g == d[j]
    <2>2. j \in 1..n /\ j - 1 = n - (i + 1) /\ j - 1 \in 0..n
          /\ i + 1 \in 1..n /\ (i + 1) - 1 = i /\ n - (i + 1) + 1 = j
      BY <1>2
    <2>3. u[j] = b * x + g /\ x \in Nat /\ g \in Nat
      <3> HIDE DEF j
      <3>1. u[j] = b * u[j - 1] + d[j]
        BY <1>3, <2>2 DEF Values
      <3>2. u[j - 1] \in Nat
        BY <1>3, <2>2 DEF Values
      <3>3. d[j] \in Nat
        BY <2>2
      <3>4. QED
        BY <3>1, <3>2, <3>3
    <2>4. p \in Nat /\ Pow(b, i + 1) = b * p
      BY <1>2, Powers
    <2>5. s[i + 1] = (s[i] + g * p) % Word
      <3>1. Contribution(b, d[n - (i + 1) + 1], (i + 1) - 1) = g * p
        BY <2>2
      <3>2. s[i + 1] = (s[(i + 1) - 1] + Contribution(b, d[n - (i + 1) + 1], (i + 1) - 1)) % Word
        BY <1>1, <2>2 DEF Sums
      <3>3. QED
        BY <2>2, <3>1, <3>2
    <2> DEFINE y == g * p
               z == t + y
    <2>6. y \in Nat /\ z \in Nat
      <3> HIDE DEF g, p
      <3>1. g * p \in Nat
        BY <2>3, <2>4
      <3>2. QED
        BY <3>1
    <2>7. u[n] = x * (b * p) + z
      <3>1. u[n] = (b * x + g) * p + t
        BY <2>1, <2>3
      <3> HIDE DEF x, p, g
      <3>2. (b * x + g) * p = x * (b * p) + g * p
        BY <1>2, <2>3, <2>4
      <3>3. x * (b * p) \in Nat
        BY <1>2, <2>3, <2>4
      <3>4. QED
        BY <2>6, <3>1, <3>2, <3>3
    <2>8. s[i + 1] = z % Word
      <3>1. s[i + 1] = ((t % Word) + y) % Word
        BY <2>1, <2>5
      <3> HIDE DEF y
      <3>2. ((t % Word) + y) % Word = (t + y) % Word
        BY <1>2, <2>6, ModOfSum
      <3>3. QED
        BY <3>1, <3>2
    <2> HIDE DEF z
    <2>9. QED
      BY <2>2, <2>4, <2>6, <2>7, <2>8 DEF Q
  <1> HIDE DEF S
  <1>6. Nat \subseteq S
    BY <1>4, <1>5, SetInduction
  <1>7. PICK t \in Nat : u[n] = u[n - n] * Pow(b, n) + t /\ s[n] = t % Word
    BY <1>2, <1>6 DEF S
  <1>8. u[n - n] = 0 /\ Pow(b, n) \in Nat
    BY <1>2, <1>3, Powers DEF Values
  <1>9. u[n] = t
    BY <1>7, <1>8
  <1>10. QED
    BY <1>1, <1>3, <1>7, <1>9

----------------------------------------------------------------------------
(* The value is right, and so is the limit of the length.                  *)

(* Products keep the order. *)
LEMMA Times ==
  ASSUME NEW a \in Nat, NEW c \in Nat, a <= c, NEW p \in Nat
  PROVE  a * p \in Nat /\ c * p \in Nat /\ a * p <= c * p
  OBVIOUS

(* Powers of two are positive. *)
LEMMA TwoPowers == \A i \in Nat : Pow(2, i) \in Nat /\ Pow(2, i) >= 1
  <1>1. 2 \in Nat /\ 2 >= 1
    OBVIOUS
  <1>2. QED
    BY <1>1, PowPositive

(* A digit counts for no more than the whole number.                       *)
LEMMA DigitBelow ==
  ASSUME NEW b \in Nat, b >= 1, NEW d \in Seq(Nat), NEW i \in 1..Len(d)
  PROVE  d[Len(d) - i + 1] * Pow(b, i - 1) <= ReadsAs(b, d)
  <1> DEFINE n == Len(d)
  <1>1. PICK u : Values(b, d, u) /\ ReadsAs(b, d) = u[n]
    BY ReadsAsValues
  <1>2. n \in Nat
    OBVIOUS
  <1>2a. ASSUME NEW j \in 1..n PROVE u[j] = b * u[j - 1] + d[j] /\ d[j] \in Nat
    BY <1>1 DEF Values
  <1>2b. ASSUME NEW j \in 0..n PROVE u[j] \in Nat
    BY <1>1 DEF Values
  <1> HIDE DEF n
  <1> DEFINE S == {k \in Nat : k <= n => u[n - k] * Pow(b, k) <= u[n]}
  <1>3. 0 \in S
    <2>1. u[n] \in Nat
      BY <1>1, <1>2 DEF Values, n
    <2>2. Pow(b, 0) = 1 /\ n - 0 = n
      BY <1>2, Powers
    <2>3. u[n] * 1 <= u[n]
      BY <2>1
    <2>4. QED
      BY <2>2, <2>3
  <1>4. \A k \in S \cap Nat : k + 1 \in S
    <2> SUFFICES ASSUME NEW k \in Nat, k \in S, k + 1 <= n
                 PROVE  u[n - (k + 1)] * Pow(b, k + 1) <= u[n]
      BY <1>2
    <2> DEFINE j == n - k
               x == u[j - 1]
               y == u[j]
               p == Pow(b, k)
    <2>1. j \in 1..n /\ j - 1 = n - (k + 1) /\ j - 1 \in 0..n /\ n \in 0..n
      BY <1>2
    <2>2. y = b * x + d[j] /\ x \in Nat /\ d[j] \in Nat /\ y \in Nat /\ u[n] \in Nat
      <3> HIDE DEF j
      <3>1. y = b * x + d[j] /\ d[j] \in Nat
        BY <1>2a, <2>1
      <3>2. x \in Nat /\ y \in Nat /\ u[n] \in Nat
        BY <1>2b, <2>1
      <3>3. QED
        BY <3>1, <3>2
    <2>3. p \in Nat /\ Pow(b, k + 1) = b * p
      BY Powers
    <2>4. y * p <= u[n]
      BY <1>2
    <2> DEFINE g == d[j]
    <2>5. y = b * x + g /\ g \in Nat
      BY <2>2
    <2> HIDE DEF x, y, p, g, j
    <2>6. x * (b * p) <= y * p
      <3>1. b * x <= y /\ b * x \in Nat
        BY <2>2, <2>5
      <3>2. (b * x) * p <= y * p
        <4> DEFINE a == b * x
        <4>1. a \in Nat /\ a <= y
          BY <3>1
        <4> HIDE DEF a
        <4>2. a * p <= y * p
          BY <2>2, <2>3, <4>1, Times
        <4>3. QED
          BY <4>2 DEF a
      <3>3. x * (b * p) = (b * x) * p
        BY <2>2, <2>3
      <3>4. QED
        BY <3>2, <3>3
    <2>7. x * (b * p) \in Nat /\ y * p \in Nat
      <3>1. b * p \in Nat
        BY <2>2, <2>3
      <3> DEFINE c == b * p
      <3> HIDE DEF c
      <3>2. c \in Nat
        BY <3>1 DEF c
      <3>3. x * c \in Nat
        BY <2>2, <2>3, <3>2
      <3>4. y \in Nat /\ p \in Nat
        BY <2>2, <2>3
      <3>5. y * p \in Nat
        BY <3>4
      <3>6. QED
        BY <3>3, <3>5 DEF c
    <2>8. x * (b * p) <= u[n]
      <3> DEFINE f == x * (b * p)
                 h == y * p
      <3>1. f \in Nat /\ h \in Nat /\ f <= h /\ h <= u[n] /\ u[n] \in Nat
        BY <2>2, <2>4, <2>6, <2>7
      <3> HIDE DEF f, h
      <3>2. f <= u[n]
        BY <3>1
      <3>3. QED
        BY <3>2 DEF f
    <2>9. QED
      BY <2>1, <2>3, <2>8 DEF x
  <1> HIDE DEF S
  <1>5. Nat \subseteq S
    BY <1>3, <1>4, SetInduction
  <1> DEFINE k == i - 1
             j == n - k
             y == u[j]
             g == d[j]
             p == Pow(b, k)
  <1>6. k \in Nat /\ k <= n /\ j \in 1..n /\ j - 1 \in 0..n /\ n - i + 1 = j
    BY <1>2 DEF n
  <1>7. y * p <= u[n] /\ p \in Nat
    BY <1>5, <1>6, Powers DEF S
  <1>8. y = b * u[j - 1] + g /\ g \in Nat /\ y \in Nat /\ u[j - 1] \in Nat /\ u[n] \in Nat
    <2> HIDE DEF j
    <2>1. y = b * u[j - 1] + g /\ g \in Nat
      BY <1>2a, <1>6
    <2>2. y \in Nat /\ u[j - 1] \in Nat /\ u[n] \in Nat
      <3>1. j \in 0..n /\ n \in 0..n
        BY <1>2, <1>6
      <3>2. QED
        BY <1>2b, <1>6, <3>1
    <2>3. QED
      BY <2>1, <2>2
  <1>9. g <= y
    <2> DEFINE x == u[j - 1]
    <2> HIDE DEF x, y, g, p
    <2>1. b * x \in Nat
      BY <1>8, SMTT(60) DEF x
    <2>2. y = b * x + g
      BY <1>8, SMTT(60) DEF x
    <2>3. QED
      BY <1>8, <2>1, <2>2
  <1> HIDE DEF y, g, p
  <1>10. g * p <= y * p /\ g * p \in Nat /\ y * p \in Nat
    BY <1>7, <1>8, <1>9, Times
  <1>11. g * p <= u[n]
    <2> DEFINE f == g * p
               h == y * p
    <2>1. f \in Nat /\ h \in Nat /\ f <= h /\ h <= u[n] /\ u[n] \in Nat
      BY <1>7, <1>8, <1>10
    <2> HIDE DEF f, h
    <2>2. f <= u[n]
      BY <2>1
    <2>3. QED
      BY <2>2 DEF f
  <1>12. QED
    BY <1>1, <1>6, <1>11 DEF g, p, n

(* An int holds what is shifted if it is less than its highest bit.        *)
LEMMA IntShiftExact ==
  ASSUME NEW d \in Nat, NEW s \in Nat, d * Pow(2, s) < Pow(2, IntBits - 1)
  PROVE  IntShift(d, s) = d * Pow(2, s)
  <1> DEFINE p == Pow(2, IntBits)
             h == Pow(2, IntBits - 1)
  <1>1. IntBits \in Nat /\ IntBits >= 2 /\ IntBits - 1 \in Nat /\ (IntBits - 1) + 1 = IntBits
    BY WidthAssumption
  <1>2. 2 \in Nat /\ 2 >= 1 /\ \A i \in Nat : Pow(2, i) \in Nat /\ Pow(2, i) >= 1
    BY TwoPowers
  <1>3. h \in Nat /\ h >= 1 /\ p = 2 * h
    BY <1>1, <1>2, Powers
  <1>4. CASE d = 0
    <2>1. s % IntBits \in Nat
      BY <1>1
    <2>2. d * Pow(2, s % IntBits) = 0 /\ d * Pow(2, s) = 0
      BY <1>2, <1>4, <2>1
    <2>3. 0 % p = 0
      <3> HIDE DEF p, h
      <3>1. QED
        BY <1>3
    <2>4. ~(0 >= h)
      BY <1>3
    <2>5. QED
      BY <2>2, <2>3, <2>4 DEF IntShift
  <1>5. CASE d # 0
    <2> DEFINE q == Pow(2, s)
               x == d * q
    <2>1. q \in Nat /\ x < h
      BY <1>2
    <2> HIDE DEF q
    <2>2. x \in Nat /\ q <= x
      BY <1>5, <2>1
    <2>3. q < h
      BY <1>3, <2>1, <2>2
    <2>4. s < IntBits
      <3> SUFFICES ASSUME IntBits - 1 <= s PROVE FALSE
        BY <1>1
      <3>1. h <= q
        BY <1>1, <1>2, PowMonotone DEF q
      <3>2. QED
        BY <1>3, <2>1, <2>3, <3>1
    <2>5. s % IntBits = s
      BY <1>1, <2>4
    <2> HIDE DEF x
    <2>6. x % p = x
      <3> HIDE DEF p, h
      <3>1. x < p /\ p \in Nat
        BY <1>3, <2>1, <2>2
      <3>2. QED
        BY <2>2, <3>1
    <2>7. ~(x >= h)
      BY <1>3, <2>1, <2>2
    <2>8. IntShift(d, s) = IF x % p >= h THEN (x % p) - p ELSE x % p
      BY <2>5 DEF IntShift, x, q
    <2>9. IntShift(d, s) = x
      BY <2>6, <2>7, <2>8
    <2>10. QED
      BY <2>9 DEF x, q
  <1>6. QED
    BY <1>4, <1>5

(* The sum of a literal that an int can hold, or of base 10 or 16.         *)
LEMMA SumExact ==
  ASSUME NEW b \in Bases, NEW d \in Seq(Nat),
         b \in {10, 16} \/ ReadsAs(b, d) < Pow(2, IntBits - 1)
  PROVE  Sum(b, d) = ReadsAs(b, d) % Word
  <1> SUFFICES ASSUME NEW i \in 1..Len(d)
               PROVE  Contribution(b, d[Len(d) - i + 1], i - 1)
                        = d[Len(d) - i + 1] * Pow(b, i - 1)
    BY SumRight
  <1> DEFINE g == d[Len(d) - i + 1]
             k == i - 1
             v == ReadsAs(b, d)
             h == Pow(2, IntBits - 1)
  <1>1. g \in Nat /\ k \in Nat
    <2>1. Len(d) - i + 1 \in 1..Len(d)
      OBVIOUS
    <2>2. QED
      BY <2>1
  <1>2. CASE b \in {10, 16}
    <2> HIDE DEF g, k
    <2>1. Contribution(b, g, k) = g * Pow(b, k)
      BY <1>1, <1>2, ContributionType
    <2>2. QED
      BY <2>1 DEF g, k
  <1>3. CASE b \in {2, 8} /\ v < h
    <2>1. b \in Nat /\ b >= 1
      BY <1>3
    <2>2. g * Pow(b, k) <= v /\ v \in Nat
      BY <2>1, DigitBelow, ReadsAsType
    <2>3. Pow(b, k) \in Nat /\ h \in Nat
      <3>1. IntBits - 1 \in Nat
        BY WidthAssumption
      <3>2. QED
        BY <1>1, <2>1, <3>1, Powers
    <2> HIDE DEF g, k, v, h
    <2>4. g * Pow(b, k) \in Nat
      BY <1>1, <2>3
    <2>5. g * Pow(b, k) < h
      BY <1>3, <2>2, <2>3, <2>4
    <2>6. CASE b = 2
      <3>1. IntShift(g, k) = g * Pow(2, k)
        BY <1>1, <2>5, <2>6, IntShiftExact DEF h
      <3>2. QED
        BY <1>1, <2>6, <3>1, ContributionType DEF g, k
    <2>7. CASE b = 8
      <3>1. Pow(8, k) = Pow(2, 3 * k) /\ 3 * k \in Nat
        BY <1>1, PowOfTwo
      <3>2. g * Pow(2, 3 * k) < h
        BY <2>5, <2>7, <3>1
      <3>3. IntShift(g, 3 * k) = g * Pow(2, 3 * k)
        BY <1>1, <3>1, <3>2, IntShiftExact DEF h
      <3>4. QED
        BY <1>1, <2>7, <3>1, <3>3, ContributionType DEF g, k
    <2>8. QED
      BY <1>3, <2>6, <2>7
  <1>4. QED
    BY <1>2, <1>3 DEF Bases

(* The digits of the greatest word.                                        *)
LEMMA Most ==
  /\ Reverse(LowDigits(10, Word - 1)) \in Seq(0..9)
  /\ Reverse(LowDigits(10, Word - 1)) \in Seq(Nat)
  /\ ReadsAs(10, Reverse(LowDigits(10, Word - 1))) = Word - 1
  /\ \A k \in Nat : Word - 1 < Pow(10, k) <=> Len(Reverse(LowDigits(10, Word - 1))) <= k
  <1> DEFINE s == LowDigits(10, Word - 1)
  <1>1. Word - 1 \in 0..(Word - 1) /\ 10 \in Nat /\ 10 >= 2
    BY WordFacts
  <1>2. s \in Seq(0..9)
    <2> DEFINE r == 10
               w == Word - 1
    <2>1. r \in Nat /\ r >= 2 /\ w \in 0..(Word - 1) /\ r - 1 = 9
      BY <1>1
    <2> HIDE DEF r, w
    <2>2. LowDigits(r, w) \in Seq(0..(r - 1))
      BY <2>1, LowDigitsType
    <2>3. QED
      BY <2>1, <2>2 DEF r, w
  <1>3. ReadsAs(10, Reverse(s)) = Word - 1
    BY <1>1, DigitsRead
  <1>4. \A k \in Nat : Word - 1 < Pow(10, k) <=> Len(s) <= k
    BY <1>1, LowDigitsLength
  <1> HIDE DEF s
  <1>5. Reverse(s) \in Seq(0..9) /\ Len(Reverse(s)) = Len(s)
    BY <1>2, ReverseFacts
  <1>6. Reverse(s) \in Seq(Nat)
    <2> DEFINE z == Reverse(s)
    <2>1. z \in Seq(0..9)
      BY <1>5
    <2> HIDE DEF z
    <2>2. z \in Seq(Nat)
      BY <2>1
    <2>3. QED
      BY <2>2 DEF z
  <1>7. QED
    BY <1>3, <1>4, <1>5, <1>6 DEF s

(* A number with a first digit m that is not zero, and its powers.         *)
LEMMA FirstDigit ==
  ASSUME NEW b \in Nat, b >= 1, NEW d \in Seq(Nat), Len(d) >= 1,
         NEW m \in Nat, m <= d[1], NEW k \in Nat, k <= Len(d) - 1
  PROVE  m * Pow(b, k) <= ReadsAs(b, d)
  <1>1. PICK u : Values(b, d, u) /\ ReadsAs(b, d) = u[Len(d)]
    BY ReadsAsValues
  <1>2. ReadsAs(b, d) \in Nat
    BY ReadsAsType
  <1> DEFINE p == Pow(b, k)
             q == Pow(b, Len(d) - 1)
             v == u[Len(d)]
  <1>3. m * q <= v
    BY <1>1, ValuesAbove
  <1>4. p <= q /\ p \in Nat /\ q \in Nat
    <2>1. Len(d) - 1 \in Nat
      OBVIOUS
    <2>2. QED
      BY <2>1, PowMonotone, Powers
  <1> HIDE DEF p, q
  <1>5. m * p <= m * q /\ m * p \in Nat /\ m * q \in Nat
    BY <1>4
  <1>6. m * p <= v
    BY <1>1, <1>2, <1>3, <1>5
  <1>7. QED
    BY <1>1, <1>6 DEF p

(* As many digits as an exponent, or fewer, read as less than the power. *)
LEMMA DigitsBelow ==
  ASSUME NEW b \in Nat, b >= 1, NEW d \in Seq(Nat), \A i \in 1..Len(d) : d[i] < b,
         NEW k \in Nat, Len(d) <= k
  PROVE  ReadsAs(b, d) < Pow(b, k)
  <1>1. PICK u : Values(b, d, u) /\ ReadsAs(b, d) = u[Len(d)]
    BY ReadsAsValues
  <1>2. u[Len(d)] < Pow(b, Len(d))
    <2>1. Len(d) \in 0..Len(d)
      OBVIOUS
    <2>2. QED
      BY <1>1, <2>1, ValuesBelow
  <1>3. Pow(b, Len(d)) <= Pow(b, k) /\ Pow(b, k) \in Nat /\ Pow(b, Len(d)) \in Nat
    <2>1. Len(d) \in Nat
      OBVIOUS
    <2>2. QED
      BY <2>1, PowMonotone, Powers
  <1>4. ReadsAs(b, d) \in Nat
    BY ReadsAsType
  <1>5. QED
    BY <1>1, <1>2, <1>3, <1>4

(* Digits refused for their number read as more than a word holds. *)
LEMMA TooManyIsTooLarge ==
  ASSUME NEW b \in Bases, NEW d \in Seq(Nat), Len(d) >= 1, d[1] # 0, TooManyDigits(b, d)
  PROVE  ReadsAs(b, d) >= Word
  <1> DEFINE v == ReadsAs(b, d)
  <1>1. b \in Nat /\ b >= 1 /\ v \in Nat /\ 1 <= d[1] /\ d[1] \in Nat
    <2>1. b \in Nat /\ b >= 1
      BY DEF Bases
    <2>2. v \in Nat
      BY <2>1, ReadsAsType
    <2>3. 1 <= d[1] /\ d[1] \in Nat
      OBVIOUS
    <2>4. QED
      BY <2>1, <2>2, <2>3
  <1>2. Bits \in Nat /\ Bits % 4 = 0 /\ Word \in Nat /\ Word >= 16 /\ Word = Pow(2, Bits)
    BY WidthAssumption, WordFacts
  <1>3. \A k \in Nat : k <= Len(d) - 1 => Pow(b, k) <= v
    <2> TAKE k \in Nat
    <2> HAVE k <= Len(d) - 1
    <2>1. 1 * Pow(b, k) <= v
      BY <1>1, FirstDigit
    <2>2. Pow(b, k) \in Nat
      BY <1>1, Powers
    <2>3. QED
      BY <2>1, <2>2
  <1>4. CASE b = 10
    <2> DEFINE most == Reverse(LowDigits(10, Word - 1))
    <2>1. Len(d) > Len(most) \/ (Len(d) = Len(most) /\ Above(d, most))
      BY <1>4 DEF TooManyDigits
    <2>2. /\ most \in Seq(0..9) /\ most \in Seq(Nat) /\ ReadsAs(10, most) = Word - 1
          /\ \A k \in Nat : Word - 1 < Pow(10, k) <=> Len(most) <= k
      BY Most
    <2> HIDE DEF most
    <2>3. CASE Len(d) > Len(most)
      <3>1. Len(most) \in Nat /\ Len(most) <= Len(d) - 1 /\ Len(most) <= Len(most)
        BY <2>2, <2>3
      <3>2. Pow(10, Len(most)) <= v /\ Word - 1 < Pow(10, Len(most))
        BY <1>3, <1>4, <2>2, <3>1
      <3>3. Pow(10, Len(most)) \in Nat
        BY <3>1, Powers
      <3>4. QED
        BY <1>1, <1>2, <3>2, <3>3
    <2>4. CASE Len(d) = Len(most) /\ Above(d, most)
      <3>1. ASSUME NEW i \in 1..Len(most) PROVE most[i] < 10
        <4>1. most[i] \in 0..9
          BY <2>2
        <4>2. QED
          BY <4>1
      <3>2. ReadsAs(10, most) < v
        BY <1>1, <1>4, <2>2, <2>4, <3>1, AboveReads
      <3>3. QED
        BY <1>1, <1>2, <2>2, <3>2
    <2>5. QED
      BY <2>1, <2>3, <2>4
  <1>5. CASE b = 16
    <2>1. Len(d) > Bits \div 4
      BY <1>5 DEF TooManyDigits
    <2>2. Bits \div 4 \in Nat /\ 4 * (Bits \div 4) = Bits
      BY <1>2
    <2>3. Pow(16, Bits \div 4) = Word
      BY <1>2, <2>2, PowOfTwo
    <2>4. Pow(16, Bits \div 4) <= v
      BY <1>3, <1>5, <2>1, <2>2
    <2>5. QED
      BY <1>1, <1>2, <2>3, <2>4
  <1>6. CASE b = 8
    <2> DEFINE k == Bits \div 3
               j == Bits % 3
               m == Pow(2, j)
    <2>1. Len(d) > k /\ d[1] >= m
      BY <1>6 DEF TooManyDigits
    <2>2. k \in Nat /\ j \in Nat /\ Bits = j + 3 * k /\ 3 * k \in Nat
      BY <1>2
    <2>3. m \in Nat
      BY <2>2, Powers
    <2> HIDE DEF k, j
    <2>4. Word = m * Pow(8, k)
      <3>1. Pow(2, j + 3 * k) = Pow(2, j) * Pow(2, 3 * k)
        <4> DEFINE i == 3 * k
        <4>1. i \in Nat
          BY <2>2
        <4> HIDE DEF i
        <4>2. Pow(2, j + i) = Pow(2, j) * Pow(2, i)
          BY <2>2, <4>1, PowAdd
        <4>3. QED
          BY <4>2 DEF i
      <3>2. Pow(8, k) = Pow(2, 3 * k)
        BY <2>2, PowOfTwo
      <3>3. QED
        BY <1>2, <2>2, <3>1, <3>2
    <2> HIDE DEF m
    <2>5. k <= Len(d) - 1 /\ m <= d[1]
      BY <1>1, <2>1, <2>2, <2>3
    <2>6. m * Pow(8, k) <= v
      BY <1>1, <1>6, <2>2, <2>3, <2>5, FirstDigit
    <2>7. QED
      BY <1>1, <1>2, <2>4, <2>6
  <1>7. CASE b = 2
    <2>1. Len(d) > Bits
      BY <1>7 DEF TooManyDigits
    <2>2. Pow(2, Bits) <= v
      <3>1. Len(d) \in Nat /\ Bits <= Len(d) - 1
        BY <1>2, <2>1
      <3>2. QED
        BY <1>2, <1>3, <1>7, <3>1
    <2>3. QED
      BY <1>1, <1>2, <2>2
  <1>8. QED
    BY <1>4, <1>5, <1>6, <1>7 DEF Bases

(* Digits of base 10 or 16 that are not refused read as what a word        *)
(* holds.                                                                  *)
LEMMA NotTooManyFits ==
  ASSUME NEW b \in {10, 16}, NEW d \in Seq(Nat), \A i \in 1..Len(d) : d[i] < b,
         ~TooManyDigits(b, d)
  PROVE  ReadsAs(b, d) < Word
  <1> DEFINE v == ReadsAs(b, d)
  <1>1. b \in Nat /\ b >= 1 /\ v \in Nat
    BY ReadsAsType
  <1>2. Bits \in Nat /\ Bits % 4 = 0 /\ Word \in Nat /\ Word >= 16 /\ Word = Pow(2, Bits)
    BY WidthAssumption, WordFacts
  <1>3. CASE b = 10
    <2> DEFINE most == Reverse(LowDigits(10, Word - 1))
    <2>1. ~(Len(d) > Len(most)) /\ ~(Len(d) = Len(most) /\ Above(d, most))
      BY <1>3 DEF TooManyDigits
    <2>2. /\ most \in Seq(0..9) /\ most \in Seq(Nat) /\ ReadsAs(10, most) = Word - 1
          /\ \A k \in Nat : Word - 1 < Pow(10, k) <=> Len(most) <= k
      BY Most
    <2> HIDE DEF most
    <2>3. CASE Len(d) = Len(most)
      <3>1. v <= ReadsAs(10, most)
        BY <1>1, <1>3, <2>1, <2>2, <2>3, NotAboveReads
      <3>2. QED
        BY <1>1, <1>2, <2>2, <3>1
    <2>4. CASE Len(d) < Len(most)
      <3>1. Len(d) \in Nat /\ Len(d) <= Len(d) /\ ~(Len(most) <= Len(d))
        BY <2>2, <2>4
      <3>2. v < Pow(10, Len(d)) /\ ~(Word - 1 < Pow(10, Len(d)))
        BY <1>1, <1>3, <2>2, <3>1, DigitsBelow
      <3>3. Pow(10, Len(d)) \in Nat
        BY <3>1, Powers
      <3>4. QED
        BY <1>1, <1>2, <3>2, <3>3
    <2>5. Len(d) \in Nat /\ Len(most) \in Nat
      BY <2>2
    <2>6. QED
      BY <2>1, <2>3, <2>4, <2>5
  <1>4. CASE b = 16
    <2>1. Bits \div 4 \in Nat /\ 4 * (Bits \div 4) = Bits
      BY <1>2
    <2>2. Len(d) <= Bits \div 4
      BY <1>4, <2>1 DEF TooManyDigits
    <2>3. Pow(16, Bits \div 4) = Word
      BY <1>2, <2>1, PowOfTwo
    <2>4. QED
      BY <1>1, <1>4, <2>1, <2>2, <2>3, DigitsBelow
  <1>5. QED
    BY <1>3, <1>4

(* The first digit that is not zero, if there is one. *)
LEMMA SignificantFacts ==
  ASSUME NEW d \in Seq(Nat)
  PROVE  \/ Significant(d) = 0 /\ \A i \in 1..Len(d) : d[i] = 0
         \/ /\ Significant(d) \in 1..Len(d) /\ d[Significant(d)] # 0
            /\ \A i \in 1..(Significant(d) - 1) : d[i] = 0
  <1> DEFINE I == {i \in 1..Len(d) : d[i] # 0}
  <1>1. Significant(d) = IF I # {} THEN Min(I) ELSE 0
    BY DEF Significant, SelectInSeq
  <1>2. CASE I = {}
    BY <1>1, <1>2
  <1>3. CASE I # {}
    <2>1. I \subseteq Nat
      OBVIOUS
    <2>2. \E m \in I : \A k \in I : m <= k
      <3> HIDE DEF I
      <3>1. QED
        BY <1>3, <2>1, Least
    <2> DEFINE m == Min(I)
    <2>3. m \in I /\ \A k \in I : m <= k
      BY <2>2, Zenon DEF Min
    <2>4. Significant(d) = m
      BY <1>1, <1>3
    <2> HIDE DEF m
    <2>5. m \in 1..Len(d) /\ d[m] # 0 /\ \A i \in 1..(m - 1) : d[i] = 0
      BY <2>3
    <2>6. QED
      BY <2>4, <2>5
  <1>4. QED
    BY <1>2, <1>3

(* A literal refused for its length does not fit a word, and one that is   *)
(* accepted has its value unless an int cannot hold what is shifted.       *)
THEOREM LiteralsRead ==
  ASSUME NEW b \in Bases, NEW all \in Seq(Nat)
  PROVE  /\ StrToU64(b, all) \in -2..(Word - 1)
         /\ StrToU64(b, all) = TooLong => ReadsAs(b, all) >= Word
         /\ StrToU64(b, all) >= 0 /\ (b \in {10, 16} \/ ReadsAs(b, all) < Pow(2, IntBits - 1))
              => StrToU64(b, all) = ReadsAs(b, all)
  <1> DEFINE k == Significant(all)
             d == SubSeq(all, k, Len(all))
             v == ReadsAs(b, all)
             x == StrToU64(b, all)
             lost == ~(b \in {10, 16} \/ v < Pow(2, IntBits - 1))
  <1>1. b \in Nat /\ v \in Nat /\ Word \in Nat /\ Word >= 16 /\ b >= 1
    <2>1. b \in Nat /\ b >= 1
      BY DEF Bases
    <2>2. v \in Nat
      BY <2>1, ReadsAsType
    <2>3. QED
      BY <2>1, <2>2, WordFacts
  <1>2. CASE k = 0
    <2>1. x = 0
      BY <1>2 DEF StrToU64
    <2>2. v = 0
      <3>1. PICK u : Values(b, all, u) /\ v = u[Len(all)]
        BY <1>1, ReadsAsValues
      <3>2. \A i \in 1..Len(all) : all[i] = 0
        BY <1>2, SignificantFacts
      <3>3. Len(all) \in 0..Len(all)
        OBVIOUS
      <3>4. QED
        BY <1>1, <3>1, <3>2, <3>3, ValuesOfZeros
    <2>3. QED
      BY <1>1, <2>1, <2>2 DEF TooLong
  <1>3. CASE k # 0
    <2>1. k \in 1..Len(all) /\ all[k] # 0 /\ \A i \in 1..(k - 1) : all[i] = 0
      BY <1>3, SignificantFacts
    <2> HIDE DEF k
    <2>2. /\ d \in Seq(Nat) /\ Len(d) = Len(all) - k + 1 /\ Len(d) >= 1 /\ d[1] # 0
      <3>1. /\ Len(all) \in Nat /\ k \in Nat /\ k <= Len(all)
        BY <2>1
      <3>2. d \in Seq(Nat) /\ Len(d) = Len(all) - k + 1
            /\ \A i \in 1..(Len(all) - k + 1) : d[i] = all[k + i - 1]
        BY <2>1, <3>1, SubSeqProperties
      <3>3. 1 \in 1..(Len(all) - k + 1) /\ k + 1 - 1 = k
        BY <3>1
      <3>4. QED
        BY <2>1, <3>1, <3>2, <3>3
    <2>3. v = ReadsAs(b, d)
      BY <1>1, <2>1, ReadsAsSignificant
    <2> HIDE DEF d
    <2>4. x = IF TooManyDigits(b, d) THEN TooLong
              ELSE IF \E i \in 1..Len(d) : d[i] >= b THEN BadChar ELSE Sum(b, d)
      BY <1>3 DEF StrToU64, d, k
    <2>5. CASE TooManyDigits(b, d)
      <3>1. v >= Word
        BY <2>2, <2>3, <2>5, TooManyIsTooLarge
      <3>2. QED
        BY <1>1, <2>4, <2>5, <3>1 DEF TooLong
    <2>6. CASE ~TooManyDigits(b, d) /\ \E i \in 1..Len(d) : d[i] >= b
      BY <1>1, <2>4, <2>6 DEF TooLong, BadChar
    <2>7. CASE ~TooManyDigits(b, d) /\ \A i \in 1..Len(d) : d[i] < b
      <3>1. x = Sum(b, d)
        <4>1. ~ \E i \in 1..Len(d) : d[i] >= b
          BY <1>1, <2>2, <2>7
        <4>2. QED
          BY <2>4, <2>7, <4>1
      <3>2. Sum(b, d) \in 0..(Word - 1)
        <4>1. PICK s : Sums(b, d, s) /\ Sum(b, d) = s[Len(d)]
          BY <2>2, SumValues
        <4>2. Len(d) \in 0..Len(d)
          BY <2>2
        <4>3. QED
          BY <4>1, <4>2 DEF Sums
      <3>3. ASSUME b \in {10, 16} \/ v < Pow(2, IntBits - 1) PROVE x = v
        <4>1. Sum(b, d) = v % Word
          BY <2>2, <2>3, <3>3, SumExact
        <4>2. v < Word
          <5>1. CASE b \in {10, 16}
            BY <2>2, <2>3, <2>7, <5>1, NotTooManyFits
          <5>2. CASE v < Pow(2, IntBits - 1)
            <6>1. /\ Bits \in Nat /\ IntBits - 1 \in Nat
                  /\ IntBits - 1 <= Bits /\ Word = Pow(2, Bits)
              BY WidthAssumption
            <6>2. 2 \in Nat /\ 2 >= 1
              OBVIOUS
            <6>3. Pow(2, IntBits - 1) <= Pow(2, Bits) /\ Pow(2, IntBits - 1) \in Nat
              BY <6>1, <6>2, PowMonotone, Powers
            <6>4. QED
              BY <1>1, <5>2, <6>1, <6>3
          <5>3. QED
            BY <3>3, <5>1, <5>2
        <4> HIDE DEF v
        <4>3. v % Word = v
          BY <1>1, <4>2
        <4>4. QED
          BY <3>1, <4>1, <4>3
      <3>4. x # TooLong /\ x \in -2..(Word - 1)
        BY <1>1, <3>1, <3>2 DEF TooLong
      <3>5. QED
        BY <3>3, <3>4
    <2>8. QED
      <3>1. (\A i \in 1..Len(d) : d[i] < b) \/ (\E i \in 1..Len(d) : d[i] >= b)
        BY <1>1, <2>2
      <3>2. QED
        BY <2>5, <2>6, <2>7, <3>1
  <1>4. QED
    BY <1>2, <1>3

----------------------------------------------------------------------------
(* Division by ten.                                                        *)

(* The multiplier is a tenth of eight words, rounded up. *)
LEMMA MagicTenth ==
  ASSUME NEW w \in Nat, w % 10 = 6
  PROVE  Magic(w) \in Nat /\ 10 * Magic(w) = 8 * w + 2
<1> DEFINE k == w \div 10
<1>1. k \in Nat /\ w = 10 * k + 6
  OBVIOUS
<1>2. 8 * w + 2 = 10 * (8 * k + 5)
  BY <1>1
<1>3. (8 * w + 2) \div 10 = 8 * k + 5
  BY <1>1, <1>2
<1> QED BY <1>1, <1>2, <1>3 DEF Magic

(* The product with the magic number lies between eight words times the    *)
(* quotient and eight words times the next.                                *)
LEMMA ProductBounds ==
  ASSUME NEW w \in Nat, w % 10 = 6, NEW n \in 0..(w - 1)
  PROVE  /\ n * Magic(w) \in Nat
         /\ w * (8 * (n \div 10)) <= n * Magic(w)
         /\ n * Magic(w) < w * (8 * (n \div 10)) + 8 * w
<1> DEFINE m == Magic(w)
           q == n \div 10
           r == n % 10
<1>1. m \in Nat /\ 10 * m = 8 * w + 2
  BY MagicTenth
<1>2. q \in Nat /\ r \in 0..9 /\ n = 10 * q + r
  OBVIOUS
<1> HIDE DEF m, q, r
<1>3. n * m \in Nat /\ w * q \in Nat /\ w * n \in Nat /\ w * r \in Nat
  BY <1>1, <1>2
<1>4. 10 * (n * m) = 8 * (w * n) + 2 * n
  <2>1. 10 * (n * m) = n * (10 * m)
    BY <1>1
  <2>2. n * (8 * w + 2) = 8 * (w * n) + 2 * n
    OBVIOUS
  <2> QED BY <2>1, <2>2, <1>1
<1>5. w * n = 10 * (w * q) + w * r
  BY <1>2
<1>6. w * r <= 9 * w
  BY <1>2
<1>7. w * (8 * q) = 8 * (w * q)
  BY <1>2
<1>8. 8 * (w * q) <= n * m
  BY <1>3, <1>4, <1>5
<1>9. n * m < 8 * (w * q) + 8 * w
  BY <1>3, <1>4, <1>5, <1>6
<1> QED BY <1>3, <1>7, <1>8, <1>9 DEF m, q, r

(* The quotient and the digit that the routines compute with MUL, SHR, SHL *)
(* and ADD are those of a division by ten.                                 *)
THEOREM DivisionByTen ==
  ASSUME NEW w \in Nat, w % 10 = 6, NEW n \in 0..(w - 1)
  PROVE  Quotient10(n, w) = n \div 10 /\ Remainder10(n, w) = n % 10
<1> DEFINE p == n * Magic(w)
           q == n \div 10
           high == p \div w
<1>1. p \in Nat /\ w * (8 * q) <= p /\ p < w * (8 * q) + 8 * w
  BY ProductBounds
<1>2. q \in Nat /\ w > 0
  OBVIOUS
<1> HIDE DEF p, q
<1>3. high \in Nat /\ w * high <= p /\ p < w * high + w
  BY <1>1, <1>2
<1> HIDE DEF high
<1>4. 8 * q <= high
  <2> SUFFICES ASSUME high + 1 <= 8 * q PROVE FALSE
    BY <1>2, <1>3
  <2>1. w * (high + 1) <= w * (8 * q)
    BY <1>2, <1>3
  <2>2. w * (high + 1) = w * high + w
    BY <1>3
  <2> DEFINE a == w * (8 * q)
             b == w * high
  <2>3. a \in Int /\ b \in Int /\ p \in Int /\ w \in Int
    BY <1>1, <1>2, <1>3
  <2>4. a <= p /\ p < b + w /\ b + w <= a
    BY <2>1, <2>2, <1>1, <1>3
  <2> HIDE DEF a, b
  <2> QED BY <2>3, <2>4
<1>5. high < 8 * q + 8
  <2> SUFFICES ASSUME 8 * q + 8 <= high PROVE FALSE
    BY <1>2, <1>3
  <2>1. w * (8 * q + 8) <= w * high
    BY <1>2, <1>3
  <2>2. w * (8 * q + 8) = w * (8 * q) + 8 * w
    BY <1>2
  <2> DEFINE a == w * (8 * q)
             b == w * high
  <2>3. a \in Int /\ b \in Int /\ p \in Int /\ w \in Int
    BY <1>1, <1>2, <1>3
  <2>4. b <= p /\ p < a + 8 * w /\ a + 8 * w <= b
    BY <2>1, <2>2, <1>1, <1>3
  <2> HIDE DEF a, b
  <2> QED BY <2>3, <2>4
<1>6. high \div 8 = q
  BY <1>2, <1>3, <1>4, <1>5
<1>7. Quotient10(n, w) = q
  BY <1>6 DEF Quotient10, high, p
<1>8. Remainder10(n, w) = n - 10 * q
  BY <1>2, <1>7 DEF Remainder10
<1> QED BY <1>7, <1>8 DEF q

(* A word of 64 bits is such a word, and the magic number of its routines  *)
(* is the 0xcccccccccccccccd of the source.                                *)
THEOREM WordOf64Bits ==
  /\ 18446744073709551616 % 10 = 6
  /\ Magic(18446744073709551616) = 14757395258967641293
  BY DEF Magic


----------------------------------------------------------------------------
(* The text of a number.                                                   *)

Radix(k) == Routine(k).radix
Magnitude(k, v) == IF IsNeg(k, v) THEN Word - v ELSE v

(* The digits of a number, lowest first, and the sign as the last of them. *)
Digits(k, v) == LowDigits(Radix(k), Magnitude(k, v))
Signed(k, v) == IF IsNeg(k, v) THEN Append(Digits(k, v), 253) ELSE Digits(k, v)

(* The bases, and which of the formats has a sign. *)
LEMMA KindFacts ==
  ASSUME NEW k \in Kinds
  PROVE  /\ Radix(k) = IF k = "hex" THEN 16 ELSE IF k = "oct" THEN 8
                       ELSE IF k = "bin" THEN 2 ELSE 10
         /\ Radix(k) \in Nat /\ Radix(k) >= 2 /\ Radix(k) <= 16 /\ (k # "hex" => Radix(k) <= 10)
         /\ Routine(k).scratch = (IF k = "bin" THEN Bits ELSE NumBytes)
         /\ \A v : IsNeg(k, v) <=> k = "i64" /\ v >= Word \div 2
  BY DEF Kinds, Radix, Routine, IsNeg, U64ToStr, I64ToStr, HexToStr, OctToStr, BinToStr

(* The buffers: the one of the folded text is as large, and has room for   *)
(* octal digits.                                                           *)
LEMMA BufferFacts ==
  ASSUME NEW k \in Kinds
  PROVE  /\ BufBytes(k) \in Nat /\ BufBytes(k) >= 3 /\ FoldedBytes(k) = BufBytes(k)
         /\ Routine(k).scratch = BufBytes(k) /\ NumBytes - 2 \in Nat
         /\ Word <= Pow(8, NumBytes - 2)
  <1>1. NumBytes \in Nat /\ NumBytes >= 2 /\ Pow(8, NumBytes - 2) >= Word /\ NumBytes - 2 \in Nat
    BY WidthAssumption
  <1>2. Word \in Nat /\ Word >= 16 /\ Bits \in Nat /\ Bits >= 4
    BY WordFacts
  <1>3. NumBytes # 2
    <2>1. Pow(8, 0) = 1 /\ 2 - 2 = 0
      BY Powers
    <2>2. QED
      BY <1>1, <1>2, <2>1
  <1>4. Pow(8, NumBytes - 2) \in Nat
    BY <1>1, Powers
  <1>5. QED
    BY <1>1, <1>2, <1>3, <1>4, KindFacts DEF BufBytes, FoldedBytes

(* A byte is at most half a word. *)
LEMMA ByteFacts ==
  /\ Byte \in Nat /\ Byte >= 2 /\ Byte <= Word \div 2 /\ Byte <= Word
  /\ Word \in Nat /\ Word \div 2 \in Nat /\ Word >= 16 /\ Word = 2 * (Word \div 2)
  BY WidthAssumption, WordFacts

(* The register holds a word. *)
LEMMA RegisterType ==
  ASSUME NEW a \in [bits : 0..(Word - 1), type : Types]
  PROVE  ArgToReg(a) \in 0..(Word - 1)
  <1>1. Byte \in Nat /\ Byte >= 1 /\ Byte <= Word /\ Word \in Nat
    BY ByteFacts
  <1>2. a.bits \in Nat /\ Word >= 1
    BY <1>1, WordFacts
  <1>3. /\ a.bits % Byte \in 0..(Byte - 1)
        /\ a.bits % Word \in 0..(Word - 1)
    <2>1. \A x, w \in Nat : w >= 1 => x % w \in 0..(w - 1)
      BY DivMod
    <2>2. QED
      BY <1>1, <1>2, <2>1
  <1>4. ArgToReg(a) = a.bits % (IF a.type = "word" THEN Word ELSE Byte)
    BY DEF ArgToReg
  <1> DEFINE x == a.bits % Byte
             y == a.bits % Word
  <1>5. ArgToReg(a) = x \/ ArgToReg(a) = y
    BY <1>4
  <1>6. x \in 0..(Byte - 1) /\ y \in 0..(Word - 1)
    BY <1>3
  <1> HIDE DEF x, y
  <1>7. QED
    BY <1>1, <1>5, <1>6

(* So does what the register is negated to. *)
LEMMA MagnitudeType ==
  ASSUME NEW k \in Kinds, NEW v \in 0..(Word - 1)
  PROVE  /\ Magnitude(k, v) \in 0..(Word - 1)
         /\ v # 0 => Magnitude(k, v) # 0
         /\ IsNeg(k, v) => v # 0
  <1>1. Word \in Nat /\ Word >= 16 /\ Word = 2 * (Word \div 2)
    BY WordFacts
  <1>2. Word \div 2 >= 8
    BY <1>1
  <1>3. IsNeg(k, v) => v >= Word \div 2
    BY KindFacts
  <1>4. QED
    BY <1>1, <1>2, <1>3 DEF Magnitude

(* A sequence over a set is one over a larger set. *)
LEMMA SeqWidened ==
  ASSUME NEW D, NEW E, D \subseteq E, NEW s \in Seq(D)
  PROVE  s \in Seq(E)
  OBVIOUS

(* The digits and the sign are bytes, and the sign is the last. *)
LEMMA DigitsType ==
  ASSUME NEW k \in Kinds, NEW v \in 0..(Word - 1)
  PROVE  /\ Digits(k, v) \in Seq(0..(Radix(k) - 1))
         /\ Digits(k, v) \in Seq(0..255) /\ Signed(k, v) \in Seq(0..255)
         /\ \A i \in 1..Len(Digits(k, v)) : Digits(k, v)[i] \in 0..15
         /\ k # "hex" => \A i \in 1..Len(Digits(k, v)) : Digits(k, v)[i] \in 0..9
         /\ Len(Signed(k, v)) = Len(Digits(k, v)) + (IF IsNeg(k, v) THEN 1 ELSE 0)
         /\ \A i \in 1..Len(Digits(k, v)) : Signed(k, v)[i] = Digits(k, v)[i]
         /\ IsNeg(k, v) => Signed(k, v)[Len(Signed(k, v))] = 253
  <1> DEFINE d == Digits(k, v)
             r == Radix(k)
             neg0 == IsNeg(k, v)
             s == Signed(k, v)
  <1>1. r \in Nat /\ r >= 2 /\ r <= 16 /\ (k # "hex" => r <= 10)
    BY KindFacts
  <1>2. d \in Seq(0..(r - 1))
    BY <1>1, MagnitudeType, LowDigitsType DEF Digits
  <1>9. DOMAIN d = 1..Len(d) /\ \A i \in 1..Len(d) : d[i] \in 0..(r - 1)
    <2> HIDE DEF d, r
    <2>1. \A D : d \in Seq(D) => DOMAIN d = 1..Len(d) /\ \A i \in 1..Len(d) : d[i] \in D
      OBVIOUS
    <2>2. QED
      BY <1>2, <2>1, Zenon
  <1>3. s = IF neg0 THEN Append(d, 253) ELSE d
    BY DEF Signed
  <1> HIDE DEF d, r, neg0, s
  <1>4. d \in Seq(0..255)
    <2>1. 0..(r - 1) \subseteq 0..255
      BY <1>1
    <2> DEFINE D == 0..(r - 1)
               E == 0..255
    <2>2. D \subseteq E /\ d \in Seq(D)
      BY <1>2, <2>1
    <2> HIDE DEF D, E
    <2>3. d \in Seq(E)
      BY <2>2, SeqWidened
    <2>4. QED
      BY <2>3 DEF E
  <1>5. ASSUME NEW i \in 1..Len(d) PROVE d[i] \in 0..15 /\ (k # "hex" => d[i] \in 0..9)
    <2> DEFINE x == d[i]
    <2>1. x \in 0..(r - 1)
      BY <1>9
    <2> HIDE DEF x
    <2>2. x \in 0..15
      BY <1>1, <2>1
    <2>3. k # "hex" => x \in 0..9
      BY <1>1, <2>1
    <2>4. QED
      BY <2>2, <2>3 DEF x
  <1>6. s \in Seq(0..255)
    <2>1. 253 \in 0..255
      OBVIOUS
    <2>2. Append(d, 253) \in Seq(0..255)
      BY <1>4, <2>1, AppendProperties
    <2>3. QED
      BY <1>3, <1>4, <2>2
  <1>7. /\ Len(s) = Len(d) + (IF neg0 THEN 1 ELSE 0)
        /\ \A i \in 1..Len(d) : s[i] = d[i]
        /\ neg0 => s[Len(s)] = 253
    BY <1>3, <1>4
  <1>8. QED
    BY <1>2, <1>4, <1>5, <1>6, <1>7 DEF d, r, neg0, s

Full(k, v) == k = "bin" /\ v >= Word \div 2

(* The digits and the sign fit the scratch area and the buffer, and fill   *)
(* the buffer only if they are all the digits of a binary number.          *)
LEMMA Room ==
  ASSUME NEW k \in Kinds, NEW v \in 1..(Word - 1)
  PROVE  /\ Len(Signed(k, v)) \in 1..BufBytes(k) /\ Len(Signed(k, v)) - 1 <= Bits
         /\ Len(Digits(k, v)) >= 1
         /\ Len(Signed(k, v)) = BufBytes(k) <=> Full(k, v)
  <1> DEFINE m == Magnitude(k, v)
             r == Radix(k)
             n == Len(Digits(k, v))
             l == Len(Signed(k, v))
  <1>1. m \in 0..(Word - 1) /\ m # 0 /\ v \in 0..(Word - 1)
    BY MagnitudeType, WordFacts
  <1>2. r \in Nat /\ r >= 2
    BY KindFacts
  <1>3. \A i \in Nat : m < Pow(r, i) <=> n <= i
    BY <1>1, <1>2, LowDigitsLength DEF Digits
  <1>4. n \in Nat /\ l = n + (IF IsNeg(k, v) THEN 1 ELSE 0)
    BY <1>1, DigitsType
  <1>5. /\ Bits \in Nat /\ Bits >= 4 /\ Word \in Nat /\ Word = Pow(2, Bits)
        /\ Word \div 2 = Pow(2, Bits - 1)
    BY WidthAssumption, WordFacts
  <1> HIDE DEF n, l, m
  <1>6. n >= 1
    <2>1. Pow(r, 0) = 1
      BY <1>2, Powers
    <2>2. m < 1 <=> n <= 0
      BY <1>3, <2>1
    <2>3. QED
      BY <1>1, <1>4, <2>2
  <1>7. n <= Bits
    <2>1. Pow(2, Bits) <= Pow(r, Bits) /\ Pow(r, Bits) \in Nat
      <3>1. 2 \in Nat
        OBVIOUS
      <3>2. QED
        BY <1>2, <1>5, <3>1, PowOfBase, Powers
    <2>2. m < Pow(r, Bits)
      BY <1>1, <1>5, <2>1
    <2>3. QED
      BY <1>3, <1>5, <2>2
  <1>8. CASE k = "bin"
    <2>1. ~IsNeg(k, v) /\ r = 2 /\ BufBytes(k) = Bits
      BY <1>8, KindFacts DEF BufBytes
    <2>2. m = v /\ l = n
      BY <1>4, <2>1 DEF Magnitude, m
    <2>3. Bits - 1 \in Nat
      BY <1>5
    <2>4. v < Word \div 2 <=> n <= Bits - 1
      BY <1>3, <1>5, <2>1, <2>2, <2>3
    <2>5. Full(k, v) <=> ~(v < Word \div 2)
      BY <1>1, <1>5, <1>8 DEF Full
    <2>6. l \in 1..Bits /\ l - 1 <= Bits /\ (l = Bits <=> Full(k, v))
      BY <1>4, <1>5, <1>6, <1>7, <2>2, <2>4, <2>5
    <2>7. QED
      BY <1>6, <2>1, <2>6 DEF n, l
  <1>9. CASE k # "bin"
    <2>1. r >= 8 /\ BufBytes(k) = NumBytes
      BY <1>9, KindFacts DEF BufBytes
    <2>2. NumBytes - 2 \in Nat /\ Word <= Pow(8, NumBytes - 2)
      BY BufferFacts
    <2>3. /\ Pow(8, NumBytes - 2) <= Pow(r, NumBytes - 2)
          /\ Pow(r, NumBytes - 2) \in Nat /\ Pow(8, NumBytes - 2) \in Nat
      <3>1. 8 \in Nat /\ 8 <= r
        BY <2>1
      <3>2. QED
        BY <1>2, <2>2, <3>1, PowOfBase, Powers
    <2>4. m < Pow(r, NumBytes - 2)
      BY <1>1, <1>5, <2>2, <2>3
    <2>5. n <= NumBytes - 2
      BY <1>3, <2>2, <2>4
    <2>6. NumBytes \in Nat /\ ~Full(k, v)
      BY <1>9, WidthAssumption DEF Full
    <2>7. l \in 1..NumBytes /\ l - 1 <= Bits /\ l # NumBytes
      BY <1>4, <1>5, <1>6, <1>7, <2>5, <2>6
    <2>8. QED
      BY <1>6, <2>1, <2>6, <2>7 DEF n, l
  <1>10. QED
    BY <1>8, <1>9

(* The character of every digit, and of the sign.                          *)
LEMMA CharFacts ==
  ASSUME NEW k \in Kinds, NEW d \in 0..15, k # "hex" => d \in 0..9
  PROVE  ToChar(k, d) = Char(d) /\ DigitOf(Char(d)) = d /\ Char(d) \in 0..255
         /\ (d # 0 => Char(d) # 48)
  BY DEF ToChar, Char, DigitOf

(* The digit 0xfd becomes a minus sign. *)
LEMMA SignChar == ToChar("i64", 253) = 45
  BY DEF ToChar

(* The folded text is the digits and the sign, the last first. *)
LEMMA FoldedFacts ==
  ASSUME NEW k \in Kinds, NEW v \in 1..(Word - 1)
  PROVE  /\ Folded(k, v) \in Seq(0..255) /\ Len(Folded(k, v)) = Len(Signed(k, v))
         /\ \A i \in 1..Len(Signed(k, v)) :
              Folded(k, v)[i] = ToChar(k, Signed(k, v)[Len(Signed(k, v)) - i + 1])
  <1> DEFINE d == Digits(k, v)
             n == Len(d)
             s == Signed(k, v)
             neg0 == IsNeg(k, v)
             chars == [i \in DOMAIN d |-> Char(d[i])]
             all == IF neg0 THEN Append(chars, 45) ELSE chars
  <1>1. v \in 0..(Word - 1) /\ v # 0
    BY WordFacts
  <1>2. /\ d \in Seq(0..255) /\ s \in Seq(0..255)
        /\ \A i \in 1..n : d[i] \in 0..15 /\ (k # "hex" => d[i] \in 0..9) /\ s[i] = d[i]
        /\ Len(s) = n + (IF neg0 THEN 1 ELSE 0) /\ (neg0 => s[Len(s)] = 253)
    BY <1>1, DigitsType
  <1>3. Folded(k, v) = Reverse(all)
    BY <1>1 DEF Folded, Digits, Magnitude, Radix
  <1>4. neg0 => k = "i64"
    BY KindFacts
  <1> HIDE DEF d, s, neg0
  <1>5. ASSUME NEW i \in 1..n PROVE ToChar(k, s[i]) = Char(d[i]) /\ Char(d[i]) \in 0..255
    <2> DEFINE x == d[i]
    <2>1. s[i] = x /\ x \in 0..15 /\ (k # "hex" => x \in 0..9)
      BY <1>2
    <2> HIDE DEF x
    <2>2. ToChar(k, x) = Char(x) /\ Char(x) \in 0..255
      BY <2>1, CharFacts
    <2>3. QED
      BY <2>1, <2>2 DEF x
  <1>6. n \in Nat /\ DOMAIN d = 1..n
    BY <1>2
  <1>7. chars \in Seq(0..255) /\ Len(chars) = n /\ \A i \in 1..n : chars[i] = ToChar(k, s[i])
    <2>1. chars \in [1..n -> 0..255]
      BY <1>5, <1>6
    <2>2. \A i \in 1..n : chars[i] = ToChar(k, s[i])
      BY <1>5, <1>6
    <2> HIDE DEF chars, n
    <2>3. QED
      BY <1>6, <2>1, <2>2
  <1> HIDE DEF chars, n
  <1>8. all \in Seq(0..255) /\ Len(all) = Len(s) /\ \A i \in 1..Len(s) : all[i] = ToChar(k, s[i])
    <2>1. CASE neg0
      <3> DEFINE e == Append(chars, 45)
      <3>1. 45 \in 0..255 /\ ToChar(k, 253) = 45
        BY <1>4, <2>1, SignChar
      <3>2. /\ e \in Seq(0..255) /\ Len(e) = n + 1 /\ e[n + 1] = 45
            /\ \A i \in 1..n : e[i] = chars[i]
        BY <1>6, <1>7, <3>1
      <3> HIDE DEF e
      <3>3. Len(s) = n + 1 /\ s[n + 1] = 253
        BY <1>2, <1>6, <2>1
      <3>4. \A i \in 1..(n + 1) : i \in 1..n \/ i = n + 1
        BY <1>6
      <3>5. \A i \in 1..Len(s) : e[i] = ToChar(k, s[i])
        BY <1>7, <3>1, <3>2, <3>3, <3>4
      <3>6. all = e
        BY <2>1 DEF e
      <3>7. QED
        BY <3>2, <3>3, <3>5, <3>6
    <2>2. CASE ~neg0
      BY <1>2, <1>6, <1>7, <2>2
    <2>3. QED
      BY <2>1, <2>2
  <1> HIDE DEF all
  <1>9. /\ Reverse(all) \in Seq(0..255) /\ Len(Reverse(all)) = Len(s)
        /\ \A i \in 1..Len(s) : Reverse(all)[i] = all[Len(s) - i + 1]
    BY <1>8, ReverseFacts
  <1>10. \A i \in 1..Len(s) : Len(s) - i + 1 \in 1..Len(s)
    BY <1>2
  <1>11. QED
    BY <1>3, <1>8, <1>9, <1>10 DEF s

----------------------------------------------------------------------------
(* The loops of the routine.  Between two digits the digits taken and      *)
(* those of what is left are the digits of the number.                     *)

Fresh(k) == [i \in 0..BufBytes(k) |-> IF i = BufBytes(k) THEN Local ELSE 255]

BeingDivided(k, v, d, q) ==
  d \in Seq(0..255) /\ q \in 0..(Word - 1) /\ d \o LowDigits(Radix(k), q) = Digits(k, v)

(* The character that belongs to place j of the text. *)
CharAt(k, v, j) == ToChar(k, Signed(k, v)[Len(Signed(k, v)) - j])

BeingReversed(k, v, t, b) ==
  /\ b \in -1..(Len(Signed(k, v)) - 1)
  /\ t \in [0..BufBytes(k) -> 0..255] /\ t[BufBytes(k)] = Local
  /\ \A j \in 0..(Len(Signed(k, v)) - 1) : j > b => t[j] = CharAt(k, v, j)

(* The text of a number that is not zero. *)
TextMade(k, v, t) ==
  /\ t \in [0..BufBytes(k) -> 0..255]
  /\ \A j \in 0..(Len(Signed(k, v)) - 1) : t[j] = CharAt(k, v, j)
  /\ t[BufBytes(k)] = IF Len(Signed(k, v)) = BufBytes(k) THEN 0 ELSE Local

(* A digit taken from what is left goes to the end of those taken. *)
LEMMA Regroup ==
  ASSUME NEW D, NEW d \in Seq(D), NEW x \in D, NEW s \in Seq(D)
  PROVE  d \o (<<x>> \o s) = Append(d, x) \o s
  OBVIOUS

(* A division keeps the digits those of the number. *)
LEMMA Divide ==
  ASSUME NEW k \in Kinds, NEW v, NEW d, NEW q \in 1..(Word - 1), BeingDivided(k, v, d, q)
  PROVE  BeingDivided(k, v, Append(d, q % Radix(k)), q \div Radix(k))
  <1> DEFINE r == Radix(k)
             x == q % r
             p == q \div r
             D == 0..255
  <1>1. r \in Nat /\ r >= 2 /\ r <= 16
    BY KindFacts
  <1>2. q \in Nat /\ q < Word /\ Word \in Nat
    BY WordFacts
  <1>3. x \in 0..(r - 1) /\ p \in 0..(Word - 1)
    <2> HIDE DEF r
    <2>1. q % r \in 0..(r - 1)
      BY <1>1, <1>2, DivMod
    <2>2. q \div r \in 0..(q - 1)
      <3>1. q >= 1
        OBVIOUS
      <3>2. q \div r \in Nat /\ q \div r < q
        BY <1>1, <1>2, <3>1, Divided
      <3> DEFINE y == q \div r
      <3> HIDE DEF y
      <3>3. y \in 0..(q - 1)
        BY <1>2, <3>2 DEF y
      <3>4. QED
        BY <3>3 DEF y
    <2>3. QED
      BY <1>2, <2>1, <2>2
  <1>4. LowDigits(r, q) = <<x>> \o LowDigits(r, p)
    BY <1>1, LowDigitsRule
  <1> DEFINE s == LowDigits(r, p)
  <1>5. s \in Seq(0..(r - 1))
    BY <1>1, <1>3, LowDigitsType
  <1>6. s \in Seq(D)
    <2> DEFINE E == 0..(r - 1)
    <2>1. s \in Seq(E)
      BY <1>5
    <2>2. E \subseteq D
      <3> HIDE DEF r
      <3>1. QED
        BY <1>1
    <2> HIDE DEF D, E, s
    <2>3. QED
      BY <2>1, <2>2, SeqWidened
  <1>7. d \in Seq(D) /\ d \o LowDigits(r, q) = Digits(k, v)
    BY DEF BeingDivided
  <1>8. x \in D
    <2> HIDE DEF x, r
    <2>1. QED
      BY <1>1, <1>3
  <1> HIDE DEF D, s, x, p, r
  <1>9. Append(d, x) \o s = Digits(k, v)
    <2>1. d \o (<<x>> \o s) = Digits(k, v)
      BY <1>4, <1>7 DEF s
    <2>2. d \o (<<x>> \o s) = Append(d, x) \o s
      BY <1>6, <1>7, <1>8, Regroup
    <2>3. QED
      BY <2>1, <2>2
  <1>10. Append(d, x) \in Seq(D)
    BY <1>7, <1>8, AppendProperties
  <1>11. QED
    BY <1>3, <1>9, <1>10 DEF BeingDivided, D, s, x, p, r

(* When nothing is left, the digits taken are all of them. *)
LEMMA AllDivided ==
  ASSUME NEW k \in Kinds, NEW v, NEW d, BeingDivided(k, v, d, 0)
  PROVE  d = Digits(k, v)
  <1>1. Radix(k) \in Nat /\ Radix(k) >= 2
    BY KindFacts
  <1>2. LowDigits(Radix(k), 0) = <<>>
    BY <1>1, LowDigitsRule
  <1>3. d \in Seq(0..255) /\ d \o <<>> = Digits(k, v)
    BY <1>2 DEF BeingDivided
  <1> DEFINE D == 0..255
  <1>4. d \in Seq(D)
    BY <1>3
  <1> HIDE DEF D
  <1>5. d \o <<>> = d
    BY <1>4
  <1>6. QED
    BY <1>3, <1>5

(* At first, none are. *)
LEMMA DivideStart ==
  ASSUME NEW k \in Kinds, NEW v \in 1..(Word - 1)
  PROVE  BeingDivided(k, v, <<>>, Magnitude(k, v))
  <1> DEFINE r == Radix(k)
             m == Magnitude(k, v)
             s == LowDigits(r, m)
             D == 0..(r - 1)
  <1>1. v \in 0..(Word - 1)
    BY WordFacts
  <1>2. m \in 0..(Word - 1)
    BY <1>1, MagnitudeType
  <1>3. r \in Nat /\ r >= 2
    BY KindFacts
  <1>4. s \in Seq(D)
    BY <1>2, <1>3, LowDigitsType
  <1>5. <<>> \o s = s
    <2> HIDE DEF D, s
    <2>1. QED
      BY <1>4
  <1>6. <<>> \in Seq(0..255)
    OBVIOUS
  <1>7. QED
    BY <1>2, <1>5, <1>6 DEF BeingDivided, Digits

(* The buffer as the statement makes it. *)
LEMMA FreshType ==
  ASSUME NEW k \in Kinds
  PROVE  Fresh(k) \in [0..BufBytes(k) -> 0..255] /\ Fresh(k)[BufBytes(k)] = Local
  <1>1. BufBytes(k) \in Nat
    BY BufferFacts
  <1>2. Local \in 0..255
    BY DEF Local
  <1> DEFINE n == BufBytes(k)
  <1>3. n \in Nat
    BY <1>1
  <1> HIDE DEF n
  <1>4. [i \in 0..n |-> IF i = n THEN Local ELSE 255] \in [0..n -> 0..255]
    BY <1>2, <1>3
  <1>5. [i \in 0..n |-> IF i = n THEN Local ELSE 255][n] = Local
    BY <1>3
  <1>6. QED
    BY <1>4, <1>5 DEF n, Fresh

(* The length of the text, and its place in the buffer.                    *)
LEMMA SignedLength ==
  ASSUME NEW k \in Kinds, NEW v \in 1..(Word - 1)
  PROVE  /\ Len(Signed(k, v)) \in Nat /\ Len(Signed(k, v)) >= 1
         /\ BufBytes(k) \in Nat /\ Len(Signed(k, v)) <= BufBytes(k)
  BY Room, BufferFacts

(* The character of a place is the one of the folded text. *)
LEMMA CharAtType ==
  ASSUME NEW k \in Kinds, NEW v \in 1..(Word - 1), NEW j \in 0..(Len(Signed(k, v)) - 1)
  PROVE  CharAt(k, v, j) \in 0..255 /\ CharAt(k, v, j) = Folded(k, v)[j + 1]
  <1> DEFINE l == Len(Signed(k, v))
             f == Folded(k, v)
  <1>1. l \in Nat /\ l >= 1 /\ j \in 0..(l - 1)
    BY SignedLength
  <1>2. /\ f \in Seq(0..255) /\ Len(f) = l
        /\ \A i \in 1..l : f[i] = ToChar(k, Signed(k, v)[l - i + 1])
    BY FoldedFacts
  <1> DEFINE i == j + 1
  <1> HIDE DEF l, f
  <1>3. i \in 1..l /\ l - i + 1 = l - j
    BY <1>1
  <1>4. f[i] = CharAt(k, v, j)
    BY <1>2, <1>3 DEF CharAt, l
  <1>5. f[i] \in 0..255
    <2> DEFINE D == 0..255
    <2>1. f \in Seq(D) /\ i \in 1..Len(f)
      BY <1>2, <1>3
    <2> HIDE DEF D, i
    <2>2. f[i] \in D
      BY <2>1
    <2>3. QED
      BY <2>2 DEF D
  <1>6. QED
    BY <1>4, <1>5 DEF f

(* At first no place has its character. *)
LEMMA ReverseStart ==
  ASSUME NEW k \in Kinds, NEW v \in 1..(Word - 1)
  PROVE  BeingReversed(k, v, Fresh(k), Len(Signed(k, v)) - 1)
  <1> DEFINE l == Len(Signed(k, v))
  <1>1. l \in Nat /\ l >= 1
    BY SignedLength
  <1>2. l - 1 \in -1..(l - 1) /\ \A j \in 0..(l - 1) : ~(j > l - 1)
    <2> HIDE DEF l
    <2>1. QED
      BY <1>1
  <1>3. QED
    BY <1>2, FreshType DEF BeingReversed

(* A step of the loop gives one place its character and takes none away. *)
LEMMA ReverseNext ==
  ASSUME NEW k \in Kinds, NEW v \in 1..(Word - 1), NEW t, NEW b \in Int, b >= 0,
         BeingReversed(k, v, t, b)
  PROVE  BeingReversed(k, v, [t EXCEPT ![b] = CharAt(k, v, b)], b - 1)
  <1> DEFINE l == Len(Signed(k, v))
             n == BufBytes(k)
             c == CharAt(k, v, b)
             u == [t EXCEPT ![b] = c]
  <1>1. l \in Nat /\ l >= 1 /\ n \in Nat /\ l <= n
    BY SignedLength
  <1>2. /\ b \in -1..(l - 1) /\ t \in [0..n -> 0..255] /\ t[n] = Local
        /\ \A j \in 0..(l - 1) : j > b => t[j] = CharAt(k, v, j)
    BY DEF BeingReversed
  <1>3. b \in 0..(l - 1)
    <2> HIDE DEF l
    <2>1. QED
      BY <1>1, <1>2
  <1>4. c \in 0..255
    BY <1>3, CharAtType
  <1> HIDE DEF l, n
  <1>5. b \in 0..n /\ b # n /\ b - 1 \in -1..(l - 1)
    BY <1>1, <1>3
  <1>6. u \in [0..n -> 0..255] /\ u[n] = Local
    <2> HIDE DEF c
    <2>1. QED
      BY <1>1, <1>2, <1>4, <1>5
  <1>7. ASSUME NEW j \in 0..(l - 1), j > b - 1 PROVE u[j] = CharAt(k, v, j)
    <2>1. j \in 0..n
      BY <1>1
    <2>2. CASE j = b
      <3> HIDE DEF c
      <3>1. u[b] = c
        BY <1>2, <1>5
      <3>2. QED
        BY <2>2, <3>1 DEF c
    <2>3. CASE j # b
      <3>1. j > b
        BY <1>1, <1>5, <1>7, <2>3
      <3>2. u[j] = t[j]
        BY <1>2, <2>1, <2>3
      <3>3. QED
        BY <1>2, <3>1, <3>2
    <2>4. QED
      BY <2>2, <2>3
  <1> HIDE DEF u
  <1>8. QED
    BY <1>5, <1>6, <1>7 DEF BeingReversed, l, n, u, c

(* The zero is written behind the text, in the buffer or after it. *)
LEMMA Finish ==
  ASSUME NEW k \in Kinds, NEW v \in 1..(Word - 1), NEW t, NEW b \in Int, b < 0,
         BeingReversed(k, v, t, b)
  PROVE  TextMade(k, v, [t EXCEPT ![Len(Signed(k, v))] = 0])
  <1> DEFINE l == Len(Signed(k, v))
             n == BufBytes(k)
             u == [t EXCEPT ![l] = 0]
  <1>1. l \in Nat /\ l >= 1 /\ n \in Nat /\ l <= n
    BY SignedLength
  <1>2. /\ t \in [0..n -> 0..255] /\ t[n] = Local
        /\ \A j \in 0..(l - 1) : j > b => t[j] = CharAt(k, v, j)
    BY DEF BeingReversed
  <1> HIDE DEF l, n
  <1>3. u \in [0..n -> 0..255]
    BY <1>1, <1>2
  <1>4. u[n] = IF l = n THEN 0 ELSE Local
    BY <1>1, <1>2
  <1>5. ASSUME NEW j \in 0..(l - 1) PROVE u[j] = CharAt(k, v, j)
    <2>1. j \in 0..n /\ j # l /\ j > b
      BY <1>1
    <2>2. u[j] = t[j]
      BY <1>2, <2>1
    <2>3. QED
      BY <1>2, <2>1, <2>2
  <1> HIDE DEF u
  <1>6. QED
    BY <1>3, <1>4, <1>5 DEF TextMade, l, n, u

----------------------------------------------------------------------------
(* What the text of a number says.                                         *)

Body(k, v) == IF IsNeg(k, v) THEN Tail(Folded(k, v)) ELSE Folded(k, v)

(* A negative number starts with its sign. *)
LEMMA FoldedSign ==
  ASSUME NEW k \in Kinds, NEW v \in 1..(Word - 1), IsNeg(k, v)
  PROVE  Folded(k, v)[1] = 45
  <1> DEFINE l == Len(Signed(k, v))
             f == Folded(k, v)
  <1>1. l \in Nat /\ l >= 1
    BY SignedLength
  <1>2. \A i \in 1..l : f[i] = ToChar(k, Signed(k, v)[l - i + 1])
    BY FoldedFacts
  <1>3. Signed(k, v)[l] = 253
    <2>1. v \in 0..(Word - 1)
      BY WordFacts
    <2>2. QED
      BY <2>1, DigitsType
  <1>4. k = "i64"
    BY KindFacts
  <1> HIDE DEF l, f
  <1>5. 1 \in 1..l /\ l - 1 + 1 = l
    BY <1>1
  <1>6. f[1] = ToChar(k, Signed(k, v)[l])
    BY <1>2, <1>5
  <1>7. QED
    BY <1>3, <1>4, <1>6, SignChar DEF f

(* The text without its sign is the digits, from the highest.              *)
LEMMA BodyFacts ==
  ASSUME NEW k \in Kinds, NEW v \in 1..(Word - 1)
  PROVE  /\ Body(k, v) \in Seq(0..255) /\ Len(Body(k, v)) = Len(Digits(k, v))
         /\ Len(Digits(k, v)) \in Nat /\ Len(Digits(k, v)) >= 1
         /\ \A i \in 1..Len(Digits(k, v)) :
              Body(k, v)[i] = Char(Digits(k, v)[Len(Digits(k, v)) - i + 1])
  <1> DEFINE d == Digits(k, v)
             n == Len(d)
             s == Signed(k, v)
             l == Len(s)
             f == Folded(k, v)
             neg0 == IsNeg(k, v)
             b == Body(k, v)
             D == 0..255
  <1>1. v \in 0..(Word - 1)
    BY WordFacts
  <1>2. /\ d \in Seq(D) /\ l = n + (IF neg0 THEN 1 ELSE 0)
        /\ \A i \in 1..n : s[i] = d[i] /\ d[i] \in 0..15 /\ (k # "hex" => d[i] \in 0..9)
    BY <1>1, DigitsType
  <1>3. n >= 1
    BY Room
  <1>4. f \in Seq(D) /\ Len(f) = l /\ \A i \in 1..l : f[i] = ToChar(k, s[l - i + 1])
    BY FoldedFacts
  <1>5. b = IF neg0 THEN Tail(f) ELSE f
    BY DEF Body
  <1> HIDE DEF d, s, f, neg0, b, D
  <1>6. n \in Nat
    BY <1>2
  <1> HIDE DEF n, l
  <1>7. b \in Seq(D) /\ Len(b) = n
    <2>1. CASE neg0
      <3>1. f # <<>> /\ l = n + 1
        BY <1>2, <1>3, <1>4, <1>6, <2>1
      <3>2. Tail(f) \in Seq(D) /\ Len(Tail(f)) = l - 1
        BY <1>4, <3>1
      <3>3. QED
        BY <1>5, <1>6, <2>1, <3>1, <3>2
    <2>2. CASE ~neg0
      BY <1>2, <1>4, <1>5, <1>6, <2>2
    <2>3. QED
      BY <2>1, <2>2
  <1>8. ASSUME NEW i \in 1..n PROVE b[i] = ToChar(k, s[n - i + 1])
    <2>1. CASE neg0
      <3>1. f # <<>> /\ l = n + 1
        BY <1>2, <1>3, <1>4, <1>6, <2>1
      <3>2. Tail(f)[i] = f[i + 1]
        <4>1. i \in 1..(Len(f) - 1)
          BY <1>4, <1>6, <3>1
        <4>2. QED
          BY <1>4, <3>1, <4>1
      <3>3. i + 1 \in 1..l /\ l - (i + 1) + 1 = n - i + 1
        BY <1>6, <3>1
      <3>4. f[i + 1] = ToChar(k, s[n - i + 1])
        BY <1>4, <3>3
      <3>5. QED
        BY <1>5, <2>1, <3>2, <3>4
    <2>2. CASE ~neg0
      <3>1. l = n
        BY <1>2, <1>6, <2>2
      <3>2. QED
        BY <1>4, <1>5, <2>2, <3>1
    <2>3. QED
      BY <2>1, <2>2
  <1>9. ASSUME NEW i \in 1..n PROVE b[i] = Char(d[n - i + 1])
    <2> DEFINE j == n - i + 1
               x == d[j]
    <2>1. j \in 1..n
      BY <1>6
    <2>2. b[i] = ToChar(k, s[j])
      BY <1>8
    <2> HIDE DEF j
    <2>3. s[j] = x /\ x \in 0..15 /\ (k # "hex" => x \in 0..9)
      BY <1>2, <2>1
    <2> HIDE DEF x
    <2>4. ToChar(k, x) = Char(x)
      BY <2>3, CharFacts
    <2>5. QED
      BY <2>2, <2>3, <2>4 DEF x, j
  <1>10. QED
    BY <1>3, <1>6, <1>7, <1>9 DEF b, d, n, D

(* So that the text reads as the number, without a leading zero. *)
LEMMA BodyReads ==
  ASSUME NEW k \in Kinds, NEW v \in 1..(Word - 1)
  PROVE  /\ ReadsAs(Radix(k), [i \in 1..Len(Body(k, v)) |-> DigitOf(Body(k, v)[i])])
              = Magnitude(k, v)
         /\ Body(k, v)[1] # 48
  <1> DEFINE d == Digits(k, v)
             n == Len(d)
             b == Body(k, v)
             r == Radix(k)
             D == 0..(r - 1)
             w == [i \in 1..n |-> DigitOf(b[i])]
  <1>1. /\ v \in 0..(Word - 1)
        /\ Magnitude(k, v) \in 1..(Word - 1) /\ Magnitude(k, v) \in 0..(Word - 1)
    <2>1. v \in 0..(Word - 1) /\ v # 0 /\ Word \in Nat
      BY WordFacts
    <2> DEFINE m == Magnitude(k, v)
    <2>2. m \in 0..(Word - 1) /\ m # 0
      BY <2>1, MagnitudeType
    <2> HIDE DEF m
    <2>3. m \in 1..(Word - 1)
      BY <2>1, <2>2
    <2>4. QED
      BY <2>1, <2>2, <2>3 DEF m
  <1>2. r \in Nat /\ r >= 2
    BY KindFacts
  <1>3. d = LowDigits(r, Magnitude(k, v))
    BY DEF Digits
  <1>4. ReadsAs(r, Reverse(d)) = Magnitude(k, v)
    BY <1>1, <1>2, <1>3, DigitsRead
  <1>5. d[n] # 0
    BY <1>1, <1>2, <1>3, LowDigitsLast
  <1>6. /\ d \in Seq(D)
        /\ \A i \in 1..n : d[i] \in 0..15 /\ (k # "hex" => d[i] \in 0..9)
    BY <1>1, DigitsType
  <1>7. Len(b) = n /\ n \in Nat /\ n >= 1 /\ \A i \in 1..n : b[i] = Char(d[n - i + 1])
    BY BodyFacts
  <1>8. /\ Reverse(d) \in Seq(D) /\ Len(Reverse(d)) = n
        /\ \A i \in 1..n : Reverse(d)[i] = d[n - i + 1]
    BY <1>6, ReverseFacts
  <1> HIDE DEF d, n, b, D
  <1>9. ASSUME NEW i \in 1..n
        PROVE  DigitOf(b[i]) = d[n - i + 1] /\ (d[n - i + 1] # 0 => b[i] # 48)
    <2> DEFINE j == n - i + 1
               x == d[j]
    <2>1. j \in 1..n
      BY <1>7
    <2>2. b[i] = Char(x)
      BY <1>7
    <2> HIDE DEF j
    <2>3. x \in 0..15 /\ (k # "hex" => x \in 0..9)
      BY <1>6, <2>1
    <2> HIDE DEF x
    <2>4. DigitOf(Char(x)) = x /\ (x # 0 => Char(x) # 48)
      BY <2>3, CharFacts
    <2>5. QED
      BY <2>2, <2>4 DEF x, j
  <1>10. w = Reverse(d)
    <2> DEFINE t == Reverse(d)
    <2>1. t \in Seq(D) /\ Len(t) = n /\ \A i \in 1..n : t[i] = d[n - i + 1]
      BY <1>8
    <2> HIDE DEF t
    <2>2. \A i \in 1..n : w[i] = t[i] /\ t[i] \in D
      BY <1>9, <2>1
    <2>3. w \in Seq(D) /\ Len(w) = n
      <3>1. w \in [1..n -> D]
        BY <2>2
      <3> HIDE DEF w
      <3>2. QED
        BY <1>7, <3>1
    <2> HIDE DEF w
    <2>4. w = t
      BY <2>1, <2>2, <2>3, SeqEqual
    <2>5. QED
      BY <2>4 DEF t
  <1>11. b[1] # 48
    <2>1. 1 \in 1..n /\ n - 1 + 1 = n
      BY <1>7
    <2>2. d[n - 1 + 1] # 0
      BY <1>5, <2>1
    <2>3. QED
      BY <1>9, <2>1, <2>2
  <1>12. QED
    BY <1>4, <1>7, <1>10, <1>11 DEF b, d, n

(* The buffer holds the text that the compiler folds the number to.        *)
LEMMA MadeIsFolded ==
  ASSUME NEW k \in Kinds, NEW v \in 1..(Word - 1), NEW t, TextMade(k, v, t)
  PROVE  [i \in 1..Len(Signed(k, v)) |-> t[i - 1]] = Folded(k, v)
  <1> DEFINE l == Len(Signed(k, v))
             f == Folded(k, v)
             D == 0..255
             w == [i \in 1..l |-> t[i - 1]]
  <1>1. l \in Nat
    BY SignedLength
  <1>2. f \in Seq(D) /\ Len(f) = l
    BY FoldedFacts
  <1>3. \A j \in 0..(l - 1) : t[j] = f[j + 1]
    <2>1. \A j \in 0..(l - 1) : t[j] = CharAt(k, v, j)
      BY DEF TextMade
    <2>2. \A j \in 0..(l - 1) : CharAt(k, v, j) = f[j + 1]
      BY CharAtType
    <2>3. QED
      BY <2>1, <2>2
  <1> HIDE DEF l, f, D
  <1>4. ASSUME NEW i \in 1..l PROVE w[i] = f[i] /\ f[i] \in D
    <2>1. i - 1 \in 0..(l - 1) /\ i - 1 + 1 = i
      BY <1>1
    <2>2. t[i - 1] = f[i]
      BY <1>3, <2>1
    <2>3. QED
      BY <1>2, <2>2
  <1>5. w \in Seq(D) /\ Len(w) = l
    <2>1. w \in [1..l -> D]
      BY <1>4
    <2> HIDE DEF w
    <2>2. QED
      BY <1>1, <2>1
  <1> HIDE DEF w
  <1>6. w = f
    BY <1>2, <1>4, <1>5, SeqEqual
  <1>7. QED
    BY <1>6 DEF w, l, f

----------------------------------------------------------------------------
(* The routine.  Its invariant says of every place what the buffer holds   *)
(* and what is left to be done.                                            *)

Value == ArgToReg(arg)

Idle == digits = <<>> /\ rbx = 0 /\ rdi = 0 /\ len = 0

Typed ==
  /\ kind \in Kinds \cup {"literal"}
  /\ arg \in [bits : 0..(Word - 1), type : Types]
  /\ pc \in {"start", "digits", "reverse", "returned", "parsed"}
  /\ rest \in 0..(Word - 1) /\ neg \in BOOLEAN
  /\ lit \in [base : Bases, digits : Seq(Nat)]

AtStart == Idle /\ num = 0 /\ (kind \in Kinds => text = Fresh(kind))

AtDigits ==
  /\ kind \in Kinds /\ num = 0 /\ rbx = 0 /\ rdi = 0 /\ len = 0
  /\ Value # 0 /\ neg = IsNeg(kind, Value)
  /\ BeingDivided(kind, Value, digits, rest)
  /\ text = Fresh(kind)

AtReverse ==
  /\ kind \in Kinds /\ num = 0 /\ len = 0
  /\ Value # 0 /\ digits = Signed(kind, Value)
  /\ rdi = Len(digits) - rbx
  /\ BeingReversed(kind, Value, text, rbx)

AtReturned ==
  /\ kind \in Kinds /\ num = 0
  /\ rbx \in -1..Bits /\ rdi \in Nat
  /\ \/ /\ Value = 0 /\ digits = <<>> /\ len = 1
        /\ text \in [0..BufBytes(kind) -> 0..255]
        /\ text[0] = 48 /\ text[BufBytes(kind)] = Local
     \/ /\ Value # 0 /\ digits = Signed(kind, Value) /\ len = Len(digits)
        /\ TextMade(kind, Value, text)

AtParsed == Idle /\ kind = "literal" /\ num = StrToU64(lit.base, lit.digits)

Places ==
  /\ pc = "start" => AtStart
  /\ pc = "digits" => AtDigits
  /\ pc = "reverse" => AtReverse
  /\ pc = "returned" => AtReturned
  /\ pc = "parsed" => AtParsed

IInv == Typed /\ Places

(* The literals are of the bases. *)
LEMMA BasesAssumed ==
  /\ Literals \subseteq [base : Bases, digits : Seq(Nat)]
  /\ [base |-> 10, digits |-> <<>>] \in [base : Bases, digits : Seq(Nat)]
  <1> DEFINE D == 0..15
  <1>1. ASSUME NEW s \in Seq(D) PROVE s \in Seq(Nat)
    <2> DEFINE E == Nat
    <2>1. D \subseteq E
      OBVIOUS
    <2> HIDE DEF D, E
    <2>2. s \in Seq(E)
      BY <1>1, <2>1, SeqWidened
    <2>3. QED
      BY <2>2 DEF E
  <1>4. \A l \in Literals : l \in [base : {2, 8, 10, 16}, digits : Seq(D)]
    BY LiteralsAssumption
  <1>5. <<>> \in Seq(Nat) /\ 10 \in Bases /\ Bases = {2, 8, 10, 16}
    BY DEF Bases
  <1> HIDE DEF D
  <1>6. \A l \in Literals : l \in [base : Bases, digits : Seq(Nat)]
    BY <1>1, <1>4, <1>5
  <1>7. QED
    BY <1>5, <1>6

(* The value of the register. *)
LEMMA ValueType ==
  ASSUME Typed
  PROVE  Value \in 0..(Word - 1) /\ (Value # 0 => Value \in 1..(Word - 1))
  <1>1. Value \in 0..(Word - 1)
    BY RegisterType DEF Typed, Value
  <1> DEFINE v == Value
  <1>2. v \in 0..(Word - 1)
    BY <1>1
  <1> HIDE DEF v
  <1>3. v # 0 => v \in 1..(Word - 1)
    BY <1>2
  <1>4. QED
    BY <1>2, <1>3 DEF v

(* The initial states satisfy the invariant, and every action keeps it. *)
LEMMA InitInv == Init => IInv
  <1> SUFFICES ASSUME Init PROVE IInv
    OBVIOUS
  <1>1. pc = "start" /\ rest = 0 /\ neg = FALSE /\ Idle /\ num = 0
    BY DEF Init, Idle
  <1>2. 0 \in 0..(Word - 1)
    BY WordFacts
  <1>3. CASE /\ kind \in Kinds /\ lit = [base |-> 10, digits |-> <<>>]
             /\ arg \in [bits : 0..(Word - 1), type : Types]
             /\ text = [i \in 0..BufBytes(kind) |-> IF i = BufBytes(kind) THEN Local ELSE 255]
    <2>1. Typed
      BY <1>1, <1>2, <1>3, BasesAssumed DEF Typed
    <2>2. text = Fresh(kind)
      BY <1>3 DEF Fresh
    <2>3. QED
      BY <1>1, <2>1, <2>2 DEF IInv, Places, AtStart
  <1>4. CASE /\ kind = "literal" /\ lit \in Literals
             /\ arg = [bits |-> 0, type |-> "word"]
             /\ text = [i \in 0..0 |-> Local]
    <2>1. lit \in [base : Bases, digits : Seq(Nat)]
      BY <1>4, BasesAssumed
    <2>2. Typed
      BY <1>1, <1>2, <1>4, <2>1 DEF Typed, Types
    <2>3. kind \notin Kinds
      BY <1>4 DEF Kinds
    <2>4. QED
      BY <1>1, <2>2, <2>3 DEF IInv, Places, AtStart
  <1>5. QED
    BY <1>3, <1>4 DEF Init

(* A literal is read. *)
LEMMA ParseLiteralInv ==
  ASSUME IInv, ParseLiteral
  PROVE  IInv'
  <1>1. Typed /\ Idle /\ kind = "literal"
    BY DEF IInv, Places, AtStart, ParseLiteral
  <1>2. Typed' /\ AtParsed'
    BY <1>1 DEF ParseLiteral, Typed, Idle, AtParsed
  <1>3. pc' = "parsed"
    BY DEF ParseLiteral
  <1>4. QED
    BY <1>2, <1>3 DEF IInv, Places

(* A zero is written. *)
LEMMA ZeroTextInv ==
  ASSUME IInv, ZeroText
  PROVE  IInv'
  <1>1. Typed /\ AtStart
    BY DEF IInv, Places, ZeroText
  <1>2. kind \in Kinds
    BY <1>1 DEF Typed, ZeroText
  <1> DEFINE n == BufBytes(kind)
  <1>3. n \in Nat /\ n >= 3 /\ Bits \in Nat
    BY <1>2, BufferFacts, WordFacts
  <1>4. text \in [0..n -> 0..255] /\ text[n] = Local
    BY <1>1, <1>2, FreshType DEF AtStart
  <1> HIDE DEF n
  <1> DEFINE t == [text EXCEPT ![0] = 48, ![1] = 0]
  <1>5. t \in [0..n -> 0..255] /\ t[0] = 48 /\ t[n] = Local
    <2> DEFINE u == [text EXCEPT ![0] = 48]
    <2>1. u \in [0..n -> 0..255] /\ u[0] = 48 /\ u[n] = Local
      BY <1>3, <1>4
    <2>2. t = [u EXCEPT ![1] = 0]
      OBVIOUS
    <2> HIDE DEF t, u
    <2>3. QED
      BY <1>3, <2>1, <2>2
  <1> HIDE DEF t
  <1>6. text' = t /\ kind' = kind /\ arg' = arg
    BY DEF ZeroText, t
  <1>7. BufBytes(kind') = n
    BY <1>6 DEF n
  <1>8. Typed'
    BY <1>1 DEF Typed, ZeroText
  <1>9. Value' = 0 /\ digits' = <<>> /\ len' = 1 /\ rbx' = 0 /\ rdi' = 0 /\ num' = 0
    BY <1>1 DEF ZeroText, Value, AtStart, Idle
  <1>10. AtReturned'
    <2>1. rbx' \in -1..Bits /\ rdi' \in Nat
      BY <1>3, <1>9
    <2>2. /\ text' \in [0..BufBytes(kind') -> 0..255]
          /\ text'[0] = 48 /\ text'[BufBytes(kind')] = Local
      BY <1>5, <1>6, <1>7
    <2>3. QED
      BY <1>2, <1>6, <1>9, <2>1, <2>2 DEF AtReturned
  <1>11. pc' = "returned"
    BY DEF ZeroText
  <1>12. QED
    BY <1>8, <1>10, <1>11 DEF IInv, Places

(* The sign is taken off. *)
LEMMA MakeDigitsInv ==
  ASSUME IInv, MakeDigits
  PROVE  IInv'
  <1>1. Typed /\ AtStart
    BY DEF IInv, Places, MakeDigits
  <1>2. kind \in Kinds
    BY <1>1 DEF Typed, MakeDigits
  <1>3. Value \in 0..(Word - 1) /\ Value \in 1..(Word - 1) /\ Value # 0
    BY <1>1, ValueType DEF MakeDigits, Value
  <1>4. /\ kind' = kind /\ arg' = arg /\ Value' = Value /\ text' = text /\ pc' = "digits"
        /\ num' = num /\ digits' = digits /\ rbx' = rbx /\ rdi' = rdi /\ len' = len /\ lit' = lit
    BY DEF MakeDigits, Value
  <1>5. neg' = IsNeg(kind, Value) /\ rest' = Magnitude(kind, Value)
    BY DEF MakeDigits, Value, Magnitude
  <1>6. BeingDivided(kind, Value, <<>>, Magnitude(kind, Value))
    BY <1>2, <1>3, DivideStart
  <1>7. Magnitude(kind, Value) \in 0..(Word - 1)
    BY <1>2, <1>3, MagnitudeType
  <1>8. IsNeg(kind, Value) \in BOOLEAN
    BY DEF IsNeg
  <1>9. Typed'
    BY <1>1, <1>4, <1>5, <1>7, <1>8 DEF Typed
  <1>10. AtDigits'
    BY <1>1, <1>2, <1>3, <1>4, <1>5, <1>6 DEF AtDigits, AtStart, Idle
  <1>11. QED
    BY <1>4, <1>9, <1>10 DEF IInv, Places

(* The routine divides, whatever its base. *)
LEMMA StepDivides ==
  ASSUME kind \in Kinds, rest \in 1..(Word - 1), DigitsStep
  PROVE  digits' = Append(digits, rest % Radix(kind)) /\ rest' = rest \div Radix(kind)
  <1>1. Word \in Nat /\ Word % 10 = 6 /\ rest \in 0..(Word - 1)
    BY WordFacts
  <1>2. Quotient10(rest, Word) = rest \div 10 /\ Remainder10(rest, Word) = rest % 10
    BY <1>1, DivisionByTen
  <1>3. QED
    BY <1>2 DEF DigitsStep, Radix

(* A digit is taken. *)
LEMMA DigitsStepInv ==
  ASSUME IInv, DigitsStep
  PROVE  IInv'
  <1>1. Typed /\ AtDigits
    BY DEF IInv, Places, DigitsStep
  <1>2. kind \in Kinds /\ BeingDivided(kind, Value, digits, rest)
    BY <1>1 DEF AtDigits
  <1>3. rest \in 1..(Word - 1)
    BY <1>1, WordFacts DEF Typed, DigitsStep
  <1>4. digits' = Append(digits, rest % Radix(kind)) /\ rest' = rest \div Radix(kind)
    BY <1>2, <1>3, StepDivides
  <1>5. BeingDivided(kind, Value, digits', rest')
    BY <1>2, <1>3, <1>4, Divide
  <1>6. /\ kind' = kind /\ arg' = arg /\ Value' = Value /\ text' = text /\ pc' = "digits"
        /\ num' = num /\ rbx' = rbx /\ rdi' = rdi /\ len' = len /\ lit' = lit /\ neg' = neg
    BY DEF DigitsStep, Value
  <1>7. rest' \in 0..(Word - 1)
    BY <1>5 DEF BeingDivided
  <1>8. Typed'
    BY <1>1, <1>6, <1>7 DEF Typed
  <1>9. AtDigits'
    BY <1>1, <1>5, <1>6 DEF AtDigits
  <1>10. QED
    BY <1>6, <1>8, <1>9 DEF IInv, Places

(* The sign is put last. *)
LEMMA DigitsEndInv ==
  ASSUME IInv, DigitsEnd
  PROVE  IInv'
  <1>1. Typed /\ AtDigits
    BY DEF IInv, Places, DigitsEnd
  <1>2. kind \in Kinds /\ BeingDivided(kind, Value, digits, 0) /\ neg = IsNeg(kind, Value)
    BY <1>1 DEF AtDigits, DigitsEnd
  <1>3. Value \in 1..(Word - 1) /\ Value # 0
    BY <1>1, ValueType DEF AtDigits
  <1>4. digits = Digits(kind, Value)
    BY <1>2, AllDivided
  <1>5. digits' = Signed(kind, Value)
    BY <1>2, <1>4 DEF DigitsEnd, Signed
  <1>6. /\ kind' = kind /\ arg' = arg /\ Value' = Value /\ text' = text /\ pc' = "reverse"
        /\ num' = num /\ len' = len /\ lit' = lit /\ neg' = neg /\ rest' = rest
        /\ rbx' = Len(digits') - 1 /\ rdi' = 1
    BY DEF DigitsEnd, Value
  <1>7. Len(digits') \in Nat
    BY <1>2, <1>3, <1>5, SignedLength
  <1>8. rdi' = Len(digits') - rbx'
    BY <1>6, <1>7
  <1>9. BeingReversed(kind, Value, text', rbx')
    <2>1. text' = Fresh(kind) /\ rbx' = Len(Signed(kind, Value)) - 1
      BY <1>1, <1>5, <1>6 DEF AtDigits
    <2>2. QED
      BY <1>2, <1>3, <2>1, ReverseStart
  <1>10. Typed'
    BY <1>1, <1>6 DEF Typed
  <1>11. AtReverse'
    BY <1>1, <1>3, <1>5, <1>6, <1>8, <1>9 DEF AtReverse, AtDigits
  <1>12. QED
    BY <1>6, <1>10, <1>11 DEF IInv, Places

(* A character is written. *)
LEMMA ReverseStepInv ==
  ASSUME IInv, ReverseStep
  PROVE  IInv'
  <1>1. Typed /\ AtReverse
    BY DEF IInv, Places, ReverseStep
  <1>2. /\ kind \in Kinds /\ digits = Signed(kind, Value) /\ rdi = Len(digits) - rbx
        /\ BeingReversed(kind, Value, text, rbx)
    BY <1>1 DEF AtReverse
  <1>3. Value \in 1..(Word - 1) /\ Value # 0
    BY <1>1, ValueType DEF AtReverse
  <1>4. rbx \in Int /\ Len(digits) \in Nat
    BY <1>2, <1>3, SignedLength DEF BeingReversed
  <1>5. rbx >= 0
    BY <1>4 DEF ReverseStep, ReverseEnd
  <1>6. ToChar(kind, digits[rdi]) = CharAt(kind, Value, rbx)
    BY <1>2 DEF CharAt
  <1>7. text' = [text EXCEPT ![rbx] = CharAt(kind, Value, rbx)]
    BY <1>6 DEF ReverseStep
  <1>8. rbx' = rbx - 1 /\ rdi' = rdi + 1 /\ rdi' = Len(digits) - rbx'
    BY <1>2, <1>4 DEF ReverseStep
  <1>9. BeingReversed(kind, Value, text', rbx')
    BY <1>2, <1>3, <1>4, <1>5, <1>7, <1>8, ReverseNext
  <1>10. /\ kind' = kind /\ arg' = arg /\ Value' = Value /\ pc' = "reverse" /\ digits' = digits
         /\ num' = num /\ len' = len /\ lit' = lit /\ neg' = neg /\ rest' = rest
    BY <1>1 DEF ReverseStep, Value
  <1>11. Typed'
    BY <1>1, <1>10 DEF Typed
  <1>12. AtReverse'
    BY <1>1, <1>3, <1>8, <1>9, <1>10 DEF AtReverse
  <1>13. QED
    BY <1>10, <1>11, <1>12 DEF IInv, Places

(* The zero behind the text is written. *)
LEMMA EpilogueInv ==
  ASSUME IInv, Epilogue
  PROVE  IInv'
  <1>1. Typed /\ AtReverse
    BY DEF IInv, Places, Epilogue
  <1>2. /\ kind \in Kinds /\ digits = Signed(kind, Value) /\ rdi = Len(digits) - rbx
        /\ BeingReversed(kind, Value, text, rbx)
    BY <1>1 DEF AtReverse
  <1>3. Value \in 1..(Word - 1) /\ Value # 0
    BY <1>1, ValueType DEF AtReverse
  <1>4. Len(digits) \in Nat /\ Len(digits) - 1 <= Bits /\ Bits \in Nat
    <2>1. Len(digits) - 1 <= Bits
      BY <1>2, <1>3, Room
    <2>2. QED
      BY <1>2, <1>3, <2>1, SignedLength, WordFacts
  <1>5. rbx \in -1..(Len(digits) - 1) /\ rbx < 0
    BY <1>2 DEF BeingReversed, Epilogue, ReverseEnd
  <1>6. rbx = -1 /\ rbx \in Int /\ rbx \in -1..Bits /\ rdi \in Nat
    BY <1>2, <1>4, <1>5
  <1>7. text' = [text EXCEPT ![Len(Signed(kind, Value))] = 0]
    BY <1>2 DEF Epilogue
  <1>8. TextMade(kind, Value, text')
    BY <1>2, <1>3, <1>5, <1>6, <1>7, Finish
  <1>9. /\ kind' = kind /\ arg' = arg /\ Value' = Value /\ pc' = "returned" /\ digits' = digits
        /\ num' = num /\ len' = Len(digits) /\ lit' = lit /\ neg' = neg /\ rest' = rest
        /\ rbx' = rbx /\ rdi' = rdi
    BY DEF Epilogue, Value
  <1>10. Typed'
    BY <1>1, <1>9 DEF Typed
  <1>11. AtReturned'
    BY <1>1, <1>2, <1>3, <1>6, <1>8, <1>9 DEF AtReturned, AtReverse
  <1>12. QED
    BY <1>9, <1>10, <1>11 DEF IInv, Places

(* In every state the invariant of the routine holds. *)
THEOREM Invariance == Spec => []IInv
  <1>1. IInv /\ [Next]_vars => IInv'
    <2> SUFFICES ASSUME IInv, [Next]_vars PROVE IInv'
      OBVIOUS
    <2>1. CASE UNCHANGED vars
      <3>1. /\ kind' = kind /\ arg' = arg /\ pc' = pc /\ rest' = rest /\ neg' = neg
            /\ digits' = digits /\ rbx' = rbx /\ rdi' = rdi /\ text' = text /\ len' = len
            /\ lit' = lit /\ num' = num /\ Value' = Value
        BY <2>1 DEF vars, Value
      <3>2. Typed' = Typed /\ Idle' = Idle
        BY <3>1 DEF Typed, Idle
      <3>3. AtStart' = AtStart /\ AtParsed' = AtParsed
        BY <3>1, <3>2 DEF AtStart, AtParsed
      <3>4. AtDigits' = AtDigits /\ AtReverse' = AtReverse
        BY <3>1 DEF AtDigits, AtReverse
      <3>5. AtReturned' = AtReturned
        BY <3>1 DEF AtReturned
      <3>6. Places' = Places
        BY <3>1, <3>3, <3>4, <3>5 DEF Places
      <3>7. QED
        BY <3>2, <3>6 DEF IInv
    <2>2. CASE Next
      BY <2>2, ParseLiteralInv, ZeroTextInv, MakeDigitsInv, DigitsStepInv, DigitsEndInv,
         ReverseStepInv, EpilogueInv DEF Next
    <2>3. QED
      BY <2>1, <2>2
  <1>2. QED
    BY <1>1, InitInv, PTL DEF Spec

----------------------------------------------------------------------------
(* What the invariant implies.                                             *)

(* A part of the digits has room where all of them have. *)
LEMMA DividedRoom ==
  ASSUME NEW k \in Kinds, NEW v \in 1..(Word - 1), NEW d, NEW q, BeingDivided(k, v, d, q)
  PROVE  d \in Seq(0..255) /\ Len(d) <= BufBytes(k)
  <1> DEFINE D == 0..255
             s == LowDigits(Radix(k), q)
  <1>1. d \in Seq(D) /\ q \in 0..(Word - 1) /\ d \o s = Digits(k, v)
    BY DEF BeingDivided
  <1>2. s \in Seq(D)
    <2> DEFINE r == Radix(k)
               E == 0..(r - 1)
    <2>1. r \in Nat /\ r >= 2 /\ r <= 16
      BY KindFacts
    <2>2. s \in Seq(E)
      BY <1>1, <2>1, LowDigitsType
    <2>3. E \subseteq D
      <3> HIDE DEF r
      <3>1. QED
        BY <2>1
    <2> HIDE DEF D, E, s
    <2>4. QED
      BY <2>2, <2>3, SeqWidened
  <1>3. /\ Len(Digits(k, v)) <= Len(Signed(k, v)) /\ Len(Digits(k, v)) \in Nat
        /\ Len(Signed(k, v)) <= BufBytes(k) /\ BufBytes(k) \in Nat /\ Len(Signed(k, v)) \in Nat
    <2>1. v \in 0..(Word - 1)
      BY WordFacts
    <2>2. Len(Signed(k, v)) = Len(Digits(k, v)) + (IF IsNeg(k, v) THEN 1 ELSE 0)
      BY <2>1, DigitsType
    <2>3. Len(Digits(k, v)) \in Nat
      BY BodyFacts
    <2>4. QED
      BY <2>2, <2>3, SignedLength
  <1> HIDE DEF D, s
  <1>4. Len(d \o s) = Len(d) + Len(s) /\ Len(d) \in Nat /\ Len(s) \in Nat
    BY <1>1, <1>2
  <1>5. Len(d) <= BufBytes(k)
    BY <1>1, <1>3, <1>4
  <1>6. QED
    BY <1>1, <1>5 DEF D

(* Every place has its room. *)
LEMMA ImpliesTypeOK ==
  ASSUME IInv
  PROVE  TypeOK
  <1>1. Typed /\ Places
    BY DEF IInv
  <1>2. Bits \in Nat /\ Word \in Nat /\ Word >= 16
    BY WordFacts
  <1>3. <<>> \in Seq(0..255) /\ Len(<<>>) = 0
    OBVIOUS
  <1> DEFINE Rest ==
        /\ digits \in Seq(0..255)
        /\ kind \in Kinds => /\ Len(digits) <= BufBytes(kind)
                             /\ text \in [0..BufBytes(kind) -> 0..255]
        /\ rbx \in -1..Bits /\ rdi \in Nat /\ len \in Nat
        /\ num \in -2..(Word - 1)
  <1>4. 0 \in -1..Bits /\ 0 \in Nat /\ 0 \in -2..(Word - 1)
    BY <1>2
  <1>5. kind \in Kinds => BufBytes(kind) \in Nat /\ BufBytes(kind) = Routine(kind).scratch
    BY BufferFacts
  <1>6. ASSUME pc = "start" PROVE Rest
    <2>1. AtStart
      BY <1>1, <1>6 DEF Places
    <2>2. ASSUME kind \in Kinds PROVE text \in [0..BufBytes(kind) -> 0..255]
      <3>1. Fresh(kind) \in [0..BufBytes(kind) -> 0..255]
        BY <2>2, FreshType
      <3>2. text = Fresh(kind)
        BY <2>1, <2>2 DEF AtStart
      <3>3. QED
        BY <3>1, <3>2
    <2>3. kind \in Kinds => Len(digits) <= BufBytes(kind)
      BY <1>3, <1>5, <2>1 DEF AtStart, Idle
    <2>4. QED
      BY <1>3, <1>4, <2>1, <2>2, <2>3 DEF AtStart, Idle
  <1>7. ASSUME pc = "parsed" PROVE Rest
    <2>1. AtParsed
      BY <1>1, <1>7 DEF Places
    <2>2. kind \notin Kinds
      BY <2>1 DEF AtParsed, Kinds
    <2>3. num \in -2..(Word - 1)
      <3>1. lit.base \in Bases /\ lit.digits \in Seq(Nat)
        BY <1>1 DEF Typed
      <3>2. StrToU64(lit.base, lit.digits) \in -2..(Word - 1)
        BY <3>1, LiteralsRead
      <3>3. QED
        BY <2>1, <3>2 DEF AtParsed
    <2>4. QED
      BY <1>3, <1>4, <2>1, <2>2, <2>3 DEF AtParsed, Idle
  <1>8. ASSUME pc = "digits" PROVE Rest
    <2>1. AtDigits
      BY <1>1, <1>8 DEF Places
    <2>2. Value \in 1..(Word - 1)
      BY <1>1, <2>1, ValueType DEF AtDigits
    <2>3. digits \in Seq(0..255) /\ Len(digits) <= BufBytes(kind)
      BY <2>1, <2>2, DividedRoom DEF AtDigits
    <2>4. text \in [0..BufBytes(kind) -> 0..255]
      BY <2>1, FreshType DEF AtDigits
    <2>5. QED
      BY <1>4, <2>1, <2>3, <2>4 DEF AtDigits
  <1>9. ASSUME kind \in Kinds, Value # 0
        PROVE  /\ Signed(kind, Value) \in Seq(0..255) /\ Len(Signed(kind, Value)) \in Nat
               /\ Len(Signed(kind, Value)) <= BufBytes(kind)
               /\ Len(Signed(kind, Value)) - 1 <= Bits
    <2>1. Value \in 1..(Word - 1) /\ Value \in 0..(Word - 1)
      BY <1>1, <1>9, ValueType
    <2>2. Signed(kind, Value) \in Seq(0..255)
      BY <1>9, <2>1, DigitsType
    <2>3. Len(Signed(kind, Value)) - 1 <= Bits
      BY <1>9, <2>1, Room
    <2>4. QED
      BY <1>9, <2>1, <2>2, <2>3, SignedLength
  <1>10. ASSUME pc = "reverse" PROVE Rest
    <2>1. AtReverse
      BY <1>1, <1>10 DEF Places
    <2>2. digits \in Seq(0..255) /\ Len(digits) \in Nat
          /\ Len(digits) <= BufBytes(kind) /\ Len(digits) - 1 <= Bits
      BY <1>9, <2>1 DEF AtReverse
    <2>3. rbx \in -1..(Len(digits) - 1) /\ text \in [0..BufBytes(kind) -> 0..255]
      BY <2>1 DEF AtReverse, BeingReversed
    <2>4. rbx \in -1..Bits /\ rdi \in Nat
      <3>1. rdi = Len(digits) - rbx
        BY <2>1 DEF AtReverse
      <3>2. QED
        BY <1>2, <2>2, <2>3, <3>1
    <2>5. QED
      BY <1>4, <2>1, <2>2, <2>3, <2>4 DEF AtReverse
  <1>11. ASSUME pc = "returned" PROVE Rest
    <2>1. AtReturned
      BY <1>1, <1>11 DEF Places
    <2>2. kind \in Kinds /\ rbx \in -1..Bits /\ rdi \in Nat /\ num = 0
      BY <2>1 DEF AtReturned
    <2>3. CASE Value = 0
      <3>1. digits = <<>> /\ len = 1 /\ text \in [0..BufBytes(kind) -> 0..255]
        BY <2>1, <2>3 DEF AtReturned
      <3>2. Len(digits) <= BufBytes(kind) /\ digits \in Seq(0..255) /\ len \in Nat
        BY <1>3, <1>5, <2>2, <3>1
      <3>3. QED
        BY <1>4, <2>2, <3>1, <3>2
    <2>4. CASE Value # 0
      <3>1. digits = Signed(kind, Value) /\ len = Len(digits) /\ TextMade(kind, Value, text)
        BY <2>1, <2>4 DEF AtReturned
      <3>2. digits \in Seq(0..255) /\ Len(digits) \in Nat /\ Len(digits) <= BufBytes(kind)
        BY <1>9, <2>2, <2>4, <3>1
      <3>3. QED
        BY <1>4, <2>2, <3>1, <3>2 DEF TextMade
    <2>5. QED
      BY <2>3, <2>4
  <1>12. Rest
    <2>1. pc \in {"start", "digits", "reverse", "returned", "parsed"}
      BY <1>1 DEF Typed
    <2>2. QED
      BY <1>6, <1>7, <1>8, <1>10, <1>11, <2>1
  <1>13. QED
    BY <1>1, <1>5, <1>12 DEF TypeOK, Typed

(* What is written when the routine has returned. *)
LEMMA ReturnedText ==
  ASSUME IInv, pc = "returned"
  PROVE  /\ kind \in Kinds /\ Value \in 0..(Word - 1)
         /\ Written = Folded(kind, Value)
         /\ text[BufBytes(kind)] # Local <=> Value # 0 /\ Full(kind, Value)
  <1>1. Typed /\ AtReturned
    BY DEF IInv, Places
  <1>2. kind \in Kinds
    BY <1>1 DEF AtReturned
  <1>3. Value \in 0..(Word - 1) /\ (Value # 0 => Value \in 1..(Word - 1))
    BY <1>1, ValueType
  <1>4. CASE Value = 0
    <2>1. len = 1 /\ text[0] = 48 /\ text[BufBytes(kind)] = Local
      BY <1>1, <1>4 DEF AtReturned
    <2>2. Written = <<48>>
      <3>1. Written = [i \in 1..1 |-> text[i - 1]]
        BY <2>1 DEF Written
      <3>2. QED
        BY <2>1, <3>1
    <2>3. Folded(kind, Value) = <<48>>
      BY <1>4 DEF Folded
    <2>4. QED
      BY <1>2, <1>3, <1>4, <2>1, <2>2, <2>3
  <1>5. CASE Value # 0
    <2>1. len = Len(Signed(kind, Value)) /\ TextMade(kind, Value, text)
      BY <1>1, <1>5 DEF AtReturned
    <2>2. Written = Folded(kind, Value)
      BY <1>2, <1>3, <1>5, <2>1, MadeIsFolded DEF Written
    <2>3. text[BufBytes(kind)] = IF Len(Signed(kind, Value)) = BufBytes(kind) THEN 0 ELSE Local
      BY <2>1 DEF TextMade
    <2>4. Len(Signed(kind, Value)) = BufBytes(kind) <=> Full(kind, Value)
      BY <1>2, <1>3, <1>5, Room
    <2>5. QED
      BY <1>2, <1>3, <1>5, <2>2, <2>3, <2>4 DEF Local
  <1>6. QED
    BY <1>4, <1>5

(* The text of zero reads as zero. *)
LEMMA ReadsZero ==
  ASSUME NEW r \in Nat, r >= 2
  PROVE  ReadsAs(r, [i \in 1..Len(<<48>>) |-> DigitOf(<<48>>[i])]) = 0
  <1>1. [i \in 1..Len(<<48>>) |-> DigitOf(<<48>>[i])] = Append(<<>>, 0)
    BY DEF DigitOf
  <1>2. ReadsAs(r, <<>>) = 0
    BY ReadsAsEmpty
  <1>3. ReadsAs(r, Append(<<>>, 0)) = r * ReadsAs(r, <<>>) + 0
    <2>1. <<>> \in Seq(Nat) /\ 0 \in Nat
      OBVIOUS
    <2>2. QED
      BY <2>1, ReadsAsAppend
  <1>4. QED
    BY <1>1, <1>2, <1>3

(* What a text with or without a sign is read as, and how it begins. *)
LEMMA TextReads ==
  ASSUME NEW k \in Kinds, NEW v \in 1..(Word - 1)
  PROVE  /\ Folded(k, v) # <<48>> => Folded(k, v)[1] # 48
         /\ IsNeg(k, v) => Folded(k, v)[1] = 45 /\ Folded(k, v)[2] # 48
         /\ ~IsNeg(k, v) => Folded(k, v)[1] # 45
  <1> DEFINE f == Folded(k, v)
             b == Body(k, v)
             d == Digits(k, v)
             n == Len(d)
  <1>1. b[1] # 48
    BY BodyReads
  <1>2. IsNeg(k, v) => f[1] = 45
    BY FoldedSign
  <1>3. n \in Nat /\ n >= 1 /\ b[1] = Char(d[n])
    <2>1. \A i \in 1..n : b[i] = Char(d[n - i + 1])
      BY BodyFacts
    <2>2. n \in Nat /\ n >= 1
      BY BodyFacts
    <2> HIDE DEF n, b, d
    <2>3. 1 \in 1..n /\ n - 1 + 1 = n
      BY <2>2
    <2>4. QED
      BY <2>1, <2>2, <2>3
  <1>4. d[n] \in 0..15
    <2>1. v \in 0..(Word - 1)
      BY WordFacts
    <2>2. \A i \in 1..n : d[i] \in 0..15
      BY <2>1, DigitsType
    <2> HIDE DEF n, d
    <2>3. QED
      BY <1>3, <2>2
  <1>5. b[1] # 45
    BY <1>3, <1>4 DEF Char
  <1>6. CASE IsNeg(k, v)
    <2>1. b = Tail(f)
      BY <1>6 DEF Body
    <2>2. Len(b) = n /\ f \in Seq(0..255)
      BY BodyFacts, FoldedFacts
    <2> HIDE DEF n, f
    <2>3. Len(f) = n + 1
      BY <1>6, DigitsType, FoldedFacts, WordFacts DEF n, f
    <2>4. Tail(f)[1] = f[2]
      BY <1>3, <2>1, <2>2, <2>3
    <2> HIDE DEF b
    <2>5. f[2] # 48
      BY <1>1, <2>1, <2>4
    <2>6. f[1] = 45 /\ f # <<48>>
      BY <1>2, <1>6
    <2>7. QED
      BY <1>6, <2>5, <2>6 DEF f
  <1>7. CASE ~IsNeg(k, v)
    <2>1. b = f
      BY <1>7 DEF Body
    <2>2. QED
      BY <1>1, <1>5, <1>7, <2>1
  <1>8. QED
    BY <1>6, <1>7

(* The number the register stands for, and the one that is meant. *)
LEMMA RegisterNumber ==
  ASSUME NEW k \in Kinds, NEW a \in [bits : 0..(Word - 1), type : Types]
  PROVE  LET v == ArgToReg(a)
             n == IF IsNeg(k, v) THEN -(Word - v) ELSE v
         IN IF Negative(a) THEN n = a.bits % Byte /\ n # Meant(k, a) ELSE n = Meant(k, a)
  <1> DEFINE v == ArgToReg(a)
             low == a.bits % Byte
             h == Word \div 2
             g == Byte \div 2
  <1>1. /\ Byte \in Nat /\ Byte >= 2 /\ Byte <= h /\ h \in Nat
        /\ Word \in Nat /\ Word >= 16 /\ Word = 2 * h
    BY ByteFacts
  <1>2. a.bits \in 0..(Word - 1) /\ a.bits \in Nat /\ a.type \in {"word", "u8", "i8"}
    BY <1>1 DEF Types
  <1>3. low \in 0..(Byte - 1) /\ a.bits % Word = a.bits
    <2>1. \A x, w \in Nat : w >= 1 => x % w \in 0..(w - 1)
      BY DivMod
    <2>2. low \in 0..(Byte - 1)
      <3>1. Byte >= 1 /\ Byte \in Nat /\ a.bits \in Nat
        BY <1>1, <1>2
      <3>2. QED
        BY <2>1, <3>1
    <2>3. a.bits % Word = a.bits
      <3>1. Word * 0 + a.bits = a.bits /\ (Word * 0 + a.bits) % Word = a.bits
        BY <1>1, <1>2, OnlyDivMod
      <3>2. QED
        BY <3>1
    <2>4. QED
      BY <2>2, <2>3
  <1>4. v = IF a.type = "word" THEN a.bits ELSE low
    BY <1>3 DEF ArgToReg
  <1>5. g \in Nat
    BY <1>1
  <1>6. IsNeg(k, v) <=> k = "i64" /\ v >= h
    BY KindFacts
  <1>7. Routine(k).signed <=> k = "i64"
    BY DEF Kinds, Routine, U64ToStr, I64ToStr, HexToStr, OctToStr, BinToStr
  <1>8. Negative(a) <=> a.type = "i8" /\ low >= g
    BY DEF Negative
  <1>9. /\ Number(a) = IF a.type = "word" THEN a.bits
                       ELSE IF Negative(a) THEN low - Byte ELSE low
        /\ Meant(k, a) = IF k = "i64" THEN IF Number(a) >= h THEN Number(a) - Word ELSE Number(a)
                         ELSE IF Number(a) < 0 THEN Number(a) + Word ELSE Number(a)
    BY <1>7 DEF Number, Meant
  <1> HIDE DEF v, low, h, g
  <1>10. CASE a.type = "word"
    BY <1>1, <1>2, <1>4, <1>6, <1>8, <1>9, <1>10 DEF low, v
  <1>11. CASE a.type # "word"
    <2>1. v = low /\ low < h /\ ~IsNeg(k, v)
      BY <1>1, <1>3, <1>4, <1>6, <1>11
    <2>2. CASE Negative(a)
      BY <1>1, <1>3, <1>9, <1>11, <2>1, <2>2 DEF low, v
    <2>3. CASE ~Negative(a)
      BY <1>1, <1>3, <1>9, <1>11, <2>1, <2>3 DEF low, v
    <2>4. QED
      BY <2>2, <2>3
  <1>12. QED
    BY <1>10, <1>11

(* The text is right, of zero and of any other number. *)
LEMMA ImpliesTextRight ==
  ASSUME IInv
  PROVE  TextRight
  <1> SUFFICES ASSUME pc = "returned" PROVE TextRight
    BY DEF TextRight
  <1> DEFINE v == Value
             f == Folded(kind, v)
             n == IF IsNeg(kind, v) THEN -(Word - v) ELSE v
  <1>1. kind \in Kinds /\ v \in 0..(Word - 1) /\ Written = f
    BY ReturnedText
  <1>2. arg \in [bits : 0..(Word - 1), type : Types]
    BY DEF IInv, Typed
  <1>3. IF Negative(arg) THEN n = arg.bits % Byte /\ n # Meant(kind, arg) ELSE n = Meant(kind, arg)
    BY <1>1, <1>2, RegisterNumber DEF Value
  <1>4. CASE v = 0
    <2>1. f = <<48>>
      BY <1>4 DEF Folded
    <2>2. ~IsNeg(kind, v)
      BY <1>1, <1>4, MagnitudeType
    <2>3. Printed = 0
      <3>1. Reads(f) = 0
        BY <1>1, <2>1, KindFacts, ReadsZero DEF Reads, Radix
      <3>2. f[1] # 45
        BY <2>1
      <3>3. QED
        BY <1>1, <3>1, <3>2 DEF Printed
    <2>4. QED
      BY <1>1, <1>3, <1>4, <2>1, <2>2, <2>3 DEF TextRight, Value
  <1>5. CASE v # 0
    <2>1. v \in 1..(Word - 1)
      <3> DEFINE w == v
      <3>1. w \in 0..(Word - 1) /\ w # 0
        BY <1>1, <1>5
      <3> HIDE DEF w
      <3>2. w \in 1..(Word - 1)
        BY <3>1
      <3>3. QED
        BY <3>2 DEF w
    <2>2. Reads(Body(kind, v)) = Magnitude(kind, v)
      BY <1>1, <2>1, BodyReads DEF Reads, Radix
    <2>3. /\ f # <<48>> => f[1] # 48
          /\ IsNeg(kind, v) => f[1] = 45 /\ f[2] # 48
          /\ ~IsNeg(kind, v) => f[1] # 45
      BY <1>1, <2>1, TextReads
    <2>4. Printed = n
      <3>1. CASE IsNeg(kind, v)
        <4>1. Body(kind, v) = Tail(f) /\ Magnitude(kind, v) = Word - v
          BY <3>1 DEF Body, Magnitude
        <4>2. QED
          BY <1>1, <2>2, <2>3, <3>1, <4>1 DEF Printed
      <3>2. CASE ~IsNeg(kind, v)
        <4>1. Body(kind, v) = f /\ Magnitude(kind, v) = v
          BY <3>2 DEF Body, Magnitude
        <4>2. QED
          BY <1>1, <2>2, <2>3, <3>2, <4>1 DEF Printed
      <3>3. QED
        BY <3>1, <3>2
    <2> HIDE DEF n, f
    <2>5. Written # <<48>> => Written[1] # 48 /\ (Written[1] = 45 => Written[2] # 48)
      BY <1>1, <2>3
    <2>6. Written = Folded(kind, ArgToReg(arg))
      BY <1>1 DEF f, Value
    <2>7. QED
      BY <1>3, <2>4, <2>5, <2>6 DEF TextRight
  <1>6. QED
    BY <1>4, <1>5

(* Only a full binary text reaches the end of its buffer. *)
LEMMA ImpliesZeroOverruns ==
  ASSUME IInv
  PROVE  ZeroOverrunsOnlyFullBinary
  <1> SUFFICES ASSUME pc = "returned" PROVE ZeroOverrunsOnlyFullBinary
    BY DEF ZeroOverrunsOnlyFullBinary
  <1> DEFINE v == Value
             n == BufBytes(kind)
             l == Len(Folded(kind, v))
  <1>1. kind \in Kinds /\ v \in 0..(Word - 1) /\ (text[n] # Local <=> v # 0 /\ Full(kind, v))
    BY ReturnedText
  <1>2. Word \in Nat /\ Word \div 2 \in Nat /\ Word \div 2 >= 1
    BY WordFacts
  <1>3. FoldedBytes(kind) = n /\ n \in Nat /\ n >= 3
    BY <1>1, BufferFacts
  <1>4. v = 0 => ~Full(kind, v)
    BY <1>2 DEF Full
  <1>5. l + 1 > n <=> Full(kind, v)
    <2>1. CASE v = 0
      <3>1. l = 1
        BY <2>1 DEF Folded
      <3>2. QED
        BY <1>3, <1>4, <2>1, <3>1
    <2>2. CASE v # 0
      <3>1. v \in 1..(Word - 1)
        <4> DEFINE w == v
        <4>1. w \in 0..(Word - 1) /\ w # 0
          BY <1>1, <2>2
        <4> HIDE DEF w
        <4>2. w \in 1..(Word - 1)
          BY <4>1
        <4>3. QED
          BY <4>2 DEF w
      <3>2. l = Len(Signed(kind, v))
        BY <1>1, <3>1, FoldedFacts
      <3>3. l \in Nat /\ l <= n
        BY <1>1, <3>1, <3>2, SignedLength
      <3>4. l = n <=> Full(kind, v)
        BY <1>1, <3>1, <3>2, Room
      <3> HIDE DEF l, n
      <3>5. l + 1 > n <=> l = n
        BY <1>3, <3>3
      <3>6. QED
        BY <3>4, <3>5
    <2>3. QED
      BY <2>1, <2>2
  <1>6. QED
    BY <1>1, <1>3, <1>4, <1>5 DEF ZeroOverrunsOnlyFullBinary, Full, Value

(* The value of a literal is what LiteralsRead says. *)
LEMMA ImpliesLiteralRight ==
  ASSUME IInv
  PROVE  LiteralRight
  <1> SUFFICES ASSUME pc = "parsed" PROVE LiteralRight
    BY DEF LiteralRight
  <1>1. Typed /\ AtParsed
    BY DEF IInv, Places
  <1>2. lit.base \in Bases /\ lit.digits \in Seq(Nat)
    BY <1>1 DEF Typed
  <1>3. num = StrToU64(lit.base, lit.digits)
    BY <1>1 DEF AtParsed
  <1> DEFINE b == lit.base
             d == lit.digits
             s == StrToU64(b, d)
             v == ReadsAs(b, d)
  <1>4. /\ s = TooLong => v >= Word
        /\ s >= 0 /\ (b \in {10, 16} \/ v < Pow(2, IntBits - 1)) => s = v
    BY <1>2, LiteralsRead
  <1>5. num = s
    BY <1>3
  <1> HIDE DEF s, v
  <1>6. QED
    BY <1>4, <1>5 DEF LiteralRight, v

(* Type correctness, and room: no state of a routine has more digits than  *)
(* its scratch area, or a character outside the buffer and the byte after  *)
(* it.                                                                     *)
THEOREM NumTypeCorrect == Spec => []TypeOK
  BY Invariance, ImpliesTypeOK, PTL

(* The text the program prints is the one the compiler folds the number    *)
(* to, and reads back as the number the argument is, with its sign, unless *)
(* that is an i8 below zero, which is printed as its byte: for every width *)
(* of the word, every value and every format.                              *)
THEOREM TextAlwaysRight == Spec => []TextRight
  BY Invariance, ImpliesTextRight, PTL

(* The zero that ends a text falls outside the buffer exactly when the     *)
(* text is binary and has every digit.                                     *)
THEOREM OnlyFullBinaryOverruns == Spec => []ZeroOverrunsOnlyFullBinary
  BY Invariance, ImpliesZeroOverruns, PTL

(* A literal refused for its length does not fit a word, and an accepted   *)
(* one has its value.                                                      *)
THEOREM LiteralsAlwaysRight == Spec => []LiteralRight
  BY Invariance, ImpliesLiteralRight, PTL
============================================================================
