--------------------------- MODULE ByteBufferProofs ---------------------------
(***************************************************************************)
(* Integers and strings come out of the buffer as they went in, whatever   *)
(* the size of an octet and the width of the integer.                      *)
(***************************************************************************)
EXTENDS ByteBuffer, SequenceTheorems, WellFoundedInduction, TLAPS

(***************************************************************************)
(* Induction for a set instead of a predicate.                             *)
(***************************************************************************)
LEMMA NatWellFounded ==
  IsWellFoundedOn({ss \in Nat \X Nat : ss[1] < ss[2]}, Nat)
  BY NatLessThanWellFounded DEF OpToRel

\* A set of numbers with 0 and every successor in it is all of them.
LEMMA SetInduction ==
  ASSUME NEW S, 0 \in S, \A n \in Nat : n \in S => n + 1 \in S
  PROVE  Nat \subseteq S
<1> SUFFICES ASSUME Nat \ S # {} PROVE FALSE
  OBVIOUS
<1> DEFINE R == {ss \in Nat \X Nat : ss[1] < ss[2]}
<1>1. PICK x \in Nat \ S : \A y \in Nat \ S : <<y, x>> \notin R
  <2> HIDE DEF R
  <2>1. IsWellFoundedOn(R, Nat)
    BY NatWellFounded DEF R
  <2> QED
    BY <2>1, WFMin
<1>2. x - 1 \in Nat /\ (x - 1) + 1 = x
  OBVIOUS
<1>3. <<x - 1, x>> \in R
  BY <1>2
<1>4. x - 1 \in S
  BY <1>1, <1>2, <1>3
<1> QED
  BY <1>1, <1>2, <1>4

\* The same up to a bound.
LEMMA RangeInduction ==
  ASSUME NEW w \in Nat, NEW S, 0 \in S,
         \A k \in 0 .. w - 1 : k \in S => k + 1 \in S
  PROVE  \A k \in 0 .. w : k \in S
<1> DEFINE T == {k \in Nat : k <= w => k \in S}
<1>1. 0 \in T /\ \A k \in Nat : k \in T => k + 1 \in T
  OBVIOUS
<1> HIDE DEF T
<1>2. \A k \in 0 .. w : k \in T
  BY <1>1, SetInduction
<1> QED
  BY <1>2 DEF T

\* A function can be defined step by step over a range of numbers.
Steps(n, A) == [1 .. n -> [A -> A]]

IsRecursion(f, n, A, a, step) ==
  /\ f \in [0 .. n -> A]
  /\ f[0] = a
  /\ \A i \in 1 .. n : f[i] = step[i][f[i - 1]]

\* There is such a function, for any start and any steps.
LEMMA RecursionExists ==
  ASSUME NEW A, NEW a \in A, NEW n \in Nat, NEW step \in Steps(n, A)
  PROVE  \E f : IsRecursion(f, n, A, a, step)
<1> DEFINE S == {k \in Nat : \E f : IsRecursion(f, k, A, a, step)}
<1>1. 0 \in S
  <2> DEFINE f == [i \in 0 .. 0 |-> a]
  <2>1. IsRecursion(f, 0, A, a, step)
    BY DEF IsRecursion
  <2> QED
    BY <2>1
<1>2. ASSUME NEW k \in 0 .. n - 1, k \in S PROVE k + 1 \in S
  <2>1. PICK f : IsRecursion(f, k, A, a, step)
    BY <1>2
  <2>2. /\ f \in [0 .. k -> A] /\ f[0] = a
        /\ \A i \in 1 .. k : f[i] = step[i][f[i - 1]]
    BY <2>1 DEF IsRecursion
  <2> DEFINE g == [i \in 0 .. k + 1 |->
                     IF i <= k THEN f[i] ELSE step[k + 1][f[k]]]
  <2>3. step[k + 1][f[k]] \in A
    <3>1. f[k] \in A /\ k + 1 \in 1 .. n
      BY <2>2
    <3> QED
      BY <3>1 DEF Steps
  <2>4. g \in [0 .. k + 1 -> A] /\ g[0] = a
    BY <2>2, <2>3
  <2>5. ASSUME NEW i \in 1 .. k + 1 PROVE g[i] = step[i][g[i - 1]]
    <3>1. CASE i <= k
      <4>1. g[i] = f[i] /\ g[i - 1] = f[i - 1]
        BY <3>1
      <4> QED
        BY <2>2, <3>1, <4>1
    <3>2. CASE i = k + 1
      <4>1. g[i] = step[i][f[k]] /\ g[i - 1] = f[k]
        BY <3>2
      <4> QED
        BY <4>1
    <3> QED
      BY <3>1, <3>2
  <2> HIDE DEF g
  <2>6. IsRecursion(g, k + 1, A, a, step)
    BY <2>4, <2>5 DEF IsRecursion
  <2> QED
    BY <2>6
<1> HIDE DEF S
<1>3. n \in S
  <2>1. \A k \in 0 .. n : k \in S
    BY <1>1, <1>2, RangeInduction
  <2> QED
    BY <2>1
<1> QED
  BY <1>3 DEF S

----------------------------------------------------------------------------
(* The recursive functions have the values their equations say.            *)

\* Quotients has the values its equations say.
LEMMA QuotientsFacts ==
  ASSUME NEW w \in Nat, NEW n \in Int
  PROVE  /\ Quotients(w, n) \in [0 .. w -> Int]
         /\ Quotients(w, n)[0] = n
         /\ \A i \in 1 .. w :
              Quotients(w, n)[i] = Quotients(w, n)[i - 1] \div Octets
<1> DEFINE q == Quotients(w, n)
           step == [i \in 1 .. w |-> [x \in Int |-> x \div Octets]]
<1>1. step \in Steps(w, Int)
  BY OctetsAssumption DEF Steps
<1>2. \E f : IsRecursion(f, w, Int, n, step)
  <2> HIDE DEF step
  <2> QED
    BY <1>1, RecursionExists
<1>3. PICK f : IsRecursion(f, w, Int, n, step)
  BY <1>2
<1>4. \A i \in 0 .. w : f[i] = IF i = 0 THEN n ELSE f[i - 1] \div Octets
  <2>1. \A i \in 1 .. w : f[i - 1] \in Int /\ f[i] = step[i][f[i - 1]]
    <3> HIDE DEF step
    <3> QED
      BY <1>3 DEF IsRecursion
  <2>2. \A i \in 1 .. w : f[i] = f[i - 1] \div Octets
    BY <2>1
  <2> QED
    <3> HIDE DEF step
    <3> QED
      BY <1>3, <2>2 DEF IsRecursion
<1>5. f = [i \in 0 .. w |-> IF i = 0 THEN n ELSE f[i - 1] \div Octets]
  BY <1>3, <1>4 DEF IsRecursion
<1>6. q = [i \in 0 .. w |-> IF i = 0 THEN n ELSE q[i - 1] \div Octets]
  BY <1>5 DEF Quotients
<1> HIDE DEF q, step
<1>7. \A i \in 0 .. w : q[i] = IF i = 0 THEN n ELSE q[i - 1] \div Octets
  BY <1>6, Zenon
<1>8. q[0] = n /\ \A i \in 1 .. w : q[i] = q[i - 1] \div Octets
  BY <1>7
<1> DEFINE S == {k \in 0 .. w : q[k] \in Int}
<1>9. 0 \in S
  BY <1>8
<1>10. ASSUME NEW k \in 0 .. w - 1, k \in S PROVE k + 1 \in S
  <2>1. q[k + 1] = q[k] \div Octets
    BY <1>8
  <2> QED
    BY <1>10, <2>1, OctetsAssumption
<1> HIDE DEF S
<1>11. \A k \in 0 .. w : k \in S
  BY <1>9, <1>10, RangeInduction
<1>12. q \in [0 .. w -> Int]
  BY <1>6, <1>11 DEF S
<1> QED
  BY <1>8, <1>12 DEF q

\* The values of no octet, of the first, of the first two, and so on.
IsValue(value, start, b) ==
  /\ value \in [0 .. Len(b) -> Int]
  /\ value[0] = start
  /\ \A i \in 1 .. Len(b) : value[i] = value[i - 1] * Octets + b[i]

\* So has BigEndian, for every octet read.
LEMMA BigEndianFacts ==
  ASSUME NEW start \in Int, NEW b \in Seq(Octet)
  PROVE  \E value : IsValue(value, start, b)
                    /\ BigEndian(start, b) = value[Len(b)]
<1> DEFINE n == Len(b)
           step == [i \in 1 .. n |-> [x \in Int |-> x * Octets + b[i]]]
           v == CHOOSE f : f = [i \in 0 .. n |-> IF i = 0 THEN start
                                     ELSE f[i - 1] * Octets + b[i]]
<1>1. n \in Nat /\ \A i \in 1 .. n : b[i] \in Int
  BY OctetsAssumption DEF Octet
<1>2. step \in Steps(n, Int)
  BY <1>1, OctetsAssumption DEF Steps
<1>3. \E f : IsRecursion(f, n, Int, start, step)
  <2> HIDE DEF step, n
  <2> QED
    BY <1>1, <1>2, RecursionExists
<1>4. BigEndian(start, b) = v[n]
  BY DEF BigEndian
<1>5. PICK f : IsRecursion(f, n, Int, start, step)
  BY <1>3
<1> HIDE DEF n
<1>6. \A i \in 0 .. n : f[i] = IF i = 0 THEN start
                               ELSE f[i - 1] * Octets + b[i]
  <2>1. \A i \in 1 .. n : f[i - 1] \in Int /\ f[i] = step[i][f[i - 1]]
    <3> HIDE DEF step
    <3> QED
      BY <1>1, <1>5 DEF IsRecursion
  <2>2. \A i \in 1 .. n : f[i] = f[i - 1] * Octets + b[i]
    BY <2>1
  <2> QED
    <3> HIDE DEF step
    <3> QED
      BY <1>5, <2>2 DEF IsRecursion
<1>7. f = [i \in 0 .. n |-> IF i = 0 THEN start
                            ELSE f[i - 1] * Octets + b[i]]
  BY <1>5, <1>6 DEF IsRecursion
<1>8. v = [i \in 0 .. n |-> IF i = 0 THEN start
                            ELSE v[i - 1] * Octets + b[i]]
  BY <1>7
<1> HIDE DEF v, step
<1>9. \A i \in 0 .. n : v[i] = IF i = 0 THEN start
                               ELSE v[i - 1] * Octets + b[i]
  BY <1>8, Zenon
<1>10. v[0] = start /\ \A i \in 1 .. n : v[i] = v[i - 1] * Octets + b[i]
  BY <1>1, <1>9
<1> DEFINE S == {k \in 0 .. n : v[k] \in Int}
<1>11. 0 \in S
  BY <1>1, <1>10
<1>12. ASSUME NEW k \in 0 .. n - 1, k \in S PROVE k + 1 \in S
  <2>1. v[k + 1] = v[k] * Octets + b[k + 1] /\ b[k + 1] \in Int
    BY <1>1, <1>10
  <2> QED
    BY <1>1, <1>12, <2>1, OctetsAssumption
<1> HIDE DEF S
<1>13. \A k \in 0 .. n : k \in S
  BY <1>1, <1>11, <1>12, RangeInduction
<1>14. v \in [0 .. n -> Int]
  BY <1>8, <1>13 DEF S
<1>15. IsValue(v, start, b)
  BY <1>10, <1>14 DEF IsValue, n
<1> QED
  BY <1>4, <1>15 DEF n

----------------------------------------------------------------------------
(* Integers.                                                               *)

\* A number is its low octet and what is left without it.
LEMMA Division ==
  ASSUME NEW n \in Int
  PROVE  /\ n \div Octets \in Int
         /\ n % Octets \in Octet
         /\ (n \div Octets) * Octets + (n % Octets) = n
  BY OctetsAssumption DEF Octet

\* One octet more keeps the order of numbers.
LEMMA TimesOctets ==
  ASSUME NEW m \in Int, NEW n \in Int, m <= n
  PROVE  m * Octets <= n * Octets
<1>1. (n - m) * Octets >= 0
  BY OctetsAssumption
<1>2. (n - m) * Octets = n * Octets - m * Octets
  BY OctetsAssumption
<1> QED
  BY <1>1, <1>2, OctetsAssumption

\* Taking the low octet away undoes putting it there.
LEMMA DivisionExact ==
  ASSUME NEW n \in Int, NEW o \in Octet
  PROVE  (n * Octets + o) \div Octets = n
  BY OctetsAssumption DEF Octet

\* Integer writes octets, as many as its width.
LEMMA IntegerFacts ==
  ASSUME NEW w \in Nat, NEW n \in Int
  PROVE  /\ Integer(w, n) \in Seq(Octet)
         /\ Len(Integer(w, n)) = w
         /\ \A i \in 1 .. w : Integer(w, n)[i] = Quotients(w, n)[w - i] % Octets
<1>1. \A i \in 1 .. w : Quotients(w, n)[w - i] % Octets \in Octet
  <2> SUFFICES ASSUME NEW i \in 1 .. w
               PROVE  Quotients(w, n)[w - i] % Octets \in Octet
    OBVIOUS
  <2>1. Quotients(w, n)[w - i] \in Int
    BY QuotientsFacts
  <2> QED
    BY <2>1, Division
<1> QED
  BY <1>1 DEF Integer

\* What the octets of n are worth, from the left, is n without the octets
\* not read yet, when the start is what the octets have no room for.
LEMMA ValuesOfInteger ==
  ASSUME NEW w \in Nat, NEW n \in Int
  PROVE  BigEndian(Quotients(w, n)[w], Integer(w, n)) = n
<1> DEFINE q == Quotients(w, n)
           b == Integer(w, n)
<1>1. /\ q \in [0 .. w -> Int] /\ q[0] = n
      /\ \A i \in 1 .. w : q[i] = q[i - 1] \div Octets
  BY QuotientsFacts
<1>2. /\ b \in Seq(Octet) /\ Len(b) = w
      /\ \A i \in 1 .. w : b[i] = q[w - i] % Octets
  BY IntegerFacts
<1>3. q[w] \in Int
  BY <1>1
<1> HIDE DEF q, b
<1>4. PICK v : IsValue(v, q[w], b) /\ BigEndian(q[w], b) = v[w]
  BY <1>2, <1>3, BigEndianFacts
<1>5. /\ v \in [0 .. w -> Int] /\ v[0] = q[w]
      /\ \A i \in 1 .. w : v[i] = v[i - 1] * Octets + b[i]
  BY <1>2, <1>4 DEF IsValue
<1> DEFINE S == {i \in 0 .. w : v[i] = q[w - i]}
<1>6. 0 \in S
  BY <1>5
<1>7. ASSUME NEW k \in 0 .. w - 1, k \in S PROVE k + 1 \in S
  <2> DEFINE m == w - (k + 1)
  <2>1. m \in 0 .. w - 1 /\ k + 1 \in 1 .. w
    OBVIOUS
  <2>2. v[k] = q[m + 1]
    BY <1>7
  <2>3. q[m + 1] = q[m] \div Octets /\ q[m] \in Int
    BY <1>1, <2>1
  <2>4. v[k + 1] = v[k] * Octets + b[k + 1] /\ b[k + 1] = q[m] % Octets
    BY <1>2, <1>5, <2>1
  <2>5. v[k + 1] = q[m]
    BY <2>2, <2>3, <2>4, Division
  <2> QED
    BY <2>5
<1> HIDE DEF S
<1>8. w \in S
  <2>1. \A k \in 0 .. w : k \in S
    BY <1>6, <1>7, RangeInduction
  <2> QED
    BY <2>1
<1>9. v[w] = q[0]
  BY <1>8 DEF S
<1> QED
  BY <1>1, <1>4, <1>9 DEF q, b

\* An unsigned integer that its width has room for is read as it was written.
THEOREM UnsignedRoundTrip ==
  ASSUME NEW w \in Nat, NEW n \in Int, FitsUnsigned(w, n)
  PROVE  UnsignedOf(Integer(w, n)) = n
  BY ValuesOfInteger DEF FitsUnsigned, UnsignedOf

\* So is a signed one.
THEOREM SignedRoundTrip ==
  ASSUME NEW w \in Nat \ {0}, NEW n \in Int, FitsSigned(w, n)
  PROVE  SignedOf(Integer(w, n)) = n
<1> DEFINE q == Quotients(w, n)
           b == Integer(w, n)
<1>1. q[w - 1] \in Int /\ q[w] = q[w - 1] \div Octets
  BY QuotientsFacts
<1>2. b[1] = q[w - 1] % Octets
  BY IntegerFacts
<1>3. /\ q[w - 1] >= -(Octets \div 2)
      /\ q[w - 1] < Octets \div 2
  BY <1>1, OctetsAssumption DEF FitsSigned
<1> HIDE DEF q, b
<1>4. q[w] = IF b[1] >= Octets \div 2 THEN -1 ELSE 0
  BY <1>1, <1>2, <1>3, OctetsAssumption
<1> QED
  BY <1>4, ValuesOfInteger DEF q, b, SignedOf

\* An unsigned integer that is too large for its width is read as less than
\* it was.
LEMMA UnsignedAtMost ==
  ASSUME NEW w \in Nat, NEW n \in Nat
  PROVE  UnsignedOf(Integer(w, n)) <= n
<1> DEFINE q == Quotients(w, n)
           b == Integer(w, n)
<1>1. /\ q \in [0 .. w -> Int] /\ q[0] = n
      /\ \A i \in 1 .. w : q[i] = q[i - 1] \div Octets
  BY QuotientsFacts
<1>2. /\ b \in Seq(Octet) /\ Len(b) = w
      /\ \A i \in 1 .. w : b[i] = q[w - i] % Octets
  BY IntegerFacts
<1> HIDE DEF q, b
<1>3. PICK v : IsValue(v, 0, b) /\ BigEndian(0, b) = v[w]
  BY <1>2, BigEndianFacts
<1>4. /\ v \in [0 .. w -> Int] /\ v[0] = 0
      /\ \A i \in 1 .. w : v[i] = v[i - 1] * Octets + b[i]
  BY <1>2, <1>3 DEF IsValue
<1>5. q[w] >= 0
  <2> DEFINE S == {i \in 0 .. w : q[i] >= 0}
  <2>1. 0 \in S
    BY <1>1
  <2>2. ASSUME NEW k \in 0 .. w - 1, k \in S PROVE k + 1 \in S
    <3>1. q[k + 1] = q[k] \div Octets /\ q[k] \in Int
      BY <1>1
    <3> QED
      BY <2>2, <3>1, OctetsAssumption
  <2> HIDE DEF S
  <2>3. \A k \in 0 .. w : k \in S
    BY <2>1, <2>2, RangeInduction
  <2> QED
    BY <2>3 DEF S
<1> DEFINE S == {i \in 0 .. w : v[i] <= q[w - i]}
<1>6. 0 \in S
  BY <1>4, <1>5
<1>7. ASSUME NEW k \in 0 .. w - 1, k \in S PROVE k + 1 \in S
  <2> DEFINE m == w - (k + 1)
  <2>1. m \in 0 .. w - 1 /\ k + 1 \in 1 .. w
    OBVIOUS
  <2>2. v[k] <= q[m + 1] /\ v[k] \in Int
    BY <1>4, <1>7
  <2>3. q[m + 1] = q[m] \div Octets /\ q[m] \in Int
    BY <1>1, <2>1
  <2>4. v[k + 1] = v[k] * Octets + b[k + 1] /\ b[k + 1] = q[m] % Octets
    BY <1>2, <1>4, <2>1
  <2>5. q[m + 1] \in Int
    BY <2>3, OctetsAssumption
  <2>6. v[k] * Octets <= q[m + 1] * Octets
    BY <2>2, <2>5, TimesOctets
  <2>7. q[m] = q[m + 1] * Octets + b[k + 1] /\ b[k + 1] \in Int
    <3>1. q[m] = (q[m] \div Octets) * Octets + (q[m] % Octets)
      BY <2>3, Division
    <3>2. q[m] % Octets \in Int
      BY <2>3, OctetsAssumption
    <3> HIDE DEF m
    <3> QED
      BY <2>3, <2>4, <3>1, <3>2
  <2>8. v[k + 1] <= q[m]
    <3> DEFINE x == v[k] * Octets
               y == q[m + 1] * Octets
    <3>1. x \in Int /\ y \in Int /\ x <= y
      BY <2>2, <2>5, <2>6, OctetsAssumption
    <3>2. v[k + 1] = x + b[k + 1] /\ q[m] = y + b[k + 1]
      BY <2>4, <2>7
    <3> HIDE DEF x, y
    <3> QED
      BY <2>7, <3>1, <3>2
  <2> QED
    BY <2>8
<1> HIDE DEF S
<1>8. w \in S
  <2>1. \A k \in 0 .. w : k \in S
    BY <1>6, <1>7, RangeInduction
  <2> QED
    BY <2>1
<1>9. v[w] <= q[0]
  BY <1>8 DEF S
<1> QED
  BY <1>1, <1>3, <1>9 DEF b, UnsignedOf

\* Whatever the octets, they are an unsigned integer of their width.
LEMMA UnsignedInRange ==
  ASSUME NEW b \in Seq(Octet)
  PROVE  UnsignedOf(b) \in Nat /\ FitsUnsigned(Len(b), UnsignedOf(b))
<1> DEFINE w == Len(b)
           n == UnsignedOf(b)
           q == Quotients(w, n)
<1>1. w \in Nat /\ \A i \in 1 .. w : b[i] \in Octet
  OBVIOUS
<1>2. PICK v : IsValue(v, 0, b) /\ n = v[w]
  BY BigEndianFacts DEF UnsignedOf
<1>3. /\ v \in [0 .. w -> Int] /\ v[0] = 0
      /\ \A i \in 1 .. w : v[i] = v[i - 1] * Octets + b[i]
  BY <1>2 DEF IsValue
<1> HIDE DEF w
<1>4. n \in Nat
  <2> DEFINE S == {i \in 0 .. w : v[i] >= 0}
  <2>1. 0 \in S
    BY <1>1, <1>3
  <2>2. ASSUME NEW k \in 0 .. w - 1, k \in S PROVE k + 1 \in S
    <3>1. /\ v[k + 1] = v[k] * Octets + b[k + 1] /\ v[k] \in Int /\ v[k] >= 0
          /\ b[k + 1] \in Octet
      BY <1>1, <1>3, <2>2
    <3>2. v[k] * Octets \in Nat
      BY <3>1, OctetsAssumption
    <3>3. v[k + 1] >= 0
      BY <3>1, <3>2, OctetsAssumption DEF Octet
    <3> QED
      BY <1>1, <2>2, <3>3
  <2> HIDE DEF S
  <2>3. \A k \in 0 .. w : k \in S
    BY <1>1, <2>1, <2>2, RangeInduction
  <2>4. v[w] >= 0 /\ v[w] \in Int
    BY <1>1, <1>3, <2>3 DEF S
  <2> QED
    BY <1>2, <2>4
<1> HIDE DEF n
<1>5. /\ q \in [0 .. w -> Int] /\ q[0] = n
      /\ \A i \in 1 .. w : q[i] = q[i - 1] \div Octets
  <2>1. w \in Nat /\ n \in Int
    BY <1>1, <1>4
  <2> QED
    BY <2>1, QuotientsFacts
<1> HIDE DEF q
<1> DEFINE S == {i \in 0 .. w : q[i] = v[w - i]}
<1>6. 0 \in S
  BY <1>1, <1>2, <1>5
<1>7. ASSUME NEW k \in 0 .. w - 1, k \in S PROVE k + 1 \in S
  <2> DEFINE m == w - (k + 1)
  <2>1. m \in 0 .. w - 1 /\ m + 1 \in 1 .. w
    BY <1>1
  <2>2. q[k] = v[m + 1] /\ q[k + 1] = q[k] \div Octets
    BY <1>1, <1>5, <1>7
  <2>3. v[m + 1] = v[m] * Octets + b[m + 1] /\ v[m] \in Int /\ b[m + 1] \in Octet
    BY <1>1, <1>3, <2>1
  <2>4. q[k + 1] = v[m]
    BY <2>2, <2>3, DivisionExact
  <2> QED
    BY <1>1, <2>4
<1> HIDE DEF S
<1>8. \A k \in 0 .. w : k \in S
  BY <1>1, <1>6, <1>7, RangeInduction
<1>9. q[w] = 0
  BY <1>1, <1>3, <1>8 DEF S
<1> QED
  BY <1>4, <1>9 DEF FitsUnsigned, w, n, q
=============================================================================
