---------------------------- MODULE TinyAdfProofs ----------------------------
(***************************************************************************)
(* Parser and bit banging of tinyADF are one atomic register write of what *)
(* was typed, for digits and registers of any size, any counter and        *)
(* anything on the line. The proof has three parts: powers of two, what    *)
(* digits mean, how bits move from one end of the argument to the other    *)
(* end of the chip; and then the invariant that ties them to the program.  *)
(***************************************************************************)
EXTENDS TinyAdf, FiniteSetTheorems, FunctionTheorems, WellFoundedInduction, TLAPS

(***************************************************************************)
(* Numbers                                                                 *)
(***************************************************************************)
(* A set of natural numbers that is not empty has a least member: a least  *)
(* counterexample stands in for an induction.                              *)
LEMMA Least ==
  ASSUME NEW T \in SUBSET Nat, T # {}
  PROVE  \E m \in T : \A k \in T : m <= k
<1>1. IsWellFoundedOn(OpToRel(<, Nat), Nat)
  BY NatLessThanWellFounded
<1>2. PICK m \in T : \A k \in T : ~(<<k, m>> \in OpToRel(<, Nat))
  BY <1>1, WFMin
<1>3. \A k \in T : ~(k < m)
  BY <1>2 DEF OpToRel
<1> QED
  BY <1>3

(* The powers of two, kept folded.                                         *)
Pow(n) == 2^n

(* A power of two counts the subsets of a set.                             *)
LEMMA PowCounts ==
  \A n \in Nat : /\ Pow(n) \in Nat
                /\ IsFiniteSet(SUBSET (1..n)) /\ Pow(n) = Cardinality(SUBSET (1..n))
<1> TAKE n \in Nat
<1>1. IsFiniteSet(1..n) /\ Cardinality(1..n) = n
  BY FS_Interval
<1>2. IsFiniteSet(SUBSET (1..n)) /\ Cardinality(SUBSET (1..n)) = 2^n
  BY <1>1, FS_SUBSET, Zenon
<1>3. Cardinality(SUBSET (1..n)) \in Nat
  BY <1>2, FS_CardinalityType
<1> QED BY <1>2, <1>3, Zenon DEF Pow

(* They are natural numbers,                                               *)
LEMMA PowType == \A n \in Nat : Pow(n) \in Nat
BY PowCounts, Zenon

(* the first is one,                                                       *)
LEMMA PowZero == Pow(0) = 1
BY SMT DEF Pow

(* and each is twice the one before: the subsets with and without the last *)
(* element are as many.                                                    *)
LEMMA PowNext == \A n \in Nat : Pow(n + 1) = 2 * Pow(n)
<1> TAKE n \in Nat
<1> DEFINE A == SUBSET (1..n)
           C == SUBSET (1..(n + 1))
           f == [T \in A |-> T \cup {n + 1}]
<1>1. n + 1 \in Nat /\ 1..(n + 1) = (1..n) \cup {n + 1} /\ n + 1 \notin 1..n
  OBVIOUS
<1>2. f \in Bijection(A, C \ A)
  <2>1. \A T \in A : f[T] \in C \ A
    BY <1>1, Zenon
  <2>2. f \in [A -> C \ A]
    BY <2>1, Zenon
  <2>3. \A T, U \in A : f[T] = f[U] => T = U
    <3> TAKE T, U \in A
    <3>1. n + 1 \notin T /\ n + 1 \notin U
      BY <1>1, Zenon
    <3>2. HAVE f[T] = f[U]
    <3>3. T \cup {n + 1} = U \cup {n + 1}
      BY <3>2, Zenon
    <3> HIDE DEF f, A
    <3>4. \A x : x \in T <=> x \in U
      BY <3>1, <3>3, Zenon
    <3> QED BY <3>4, Zenon
  <2>4. \A D \in C \ A : \E T \in A : f[T] = D
    <3> TAKE D \in C \ A
    <3>1. n + 1 \in D
      BY <1>1, Zenon
    <3>2. D \ {n + 1} \in A
      BY <1>1, Zenon
    <3>3. f[D \ {n + 1}] = D
      BY <3>1, <3>2, Zenon
    <3> QED BY <3>2, <3>3, Zenon
  <2> HIDE DEF f, A, C
  <2>5. f \in Injection(A, C \ A)
    BY <2>2, <2>3, Fun_IsInj, Zenon
  <2>6. f \in Surjection(A, C \ A)
    BY <2>2, <2>4, Fun_IsSurj, Zenon
  <2> QED BY <2>5, <2>6, Zenon DEF Bijection
<1> HIDE DEF f
<1>3. IsFiniteSet(A) /\ IsFiniteSet(C) /\ Cardinality(A) = Pow(n) /\ Cardinality(C) = Pow(n + 1)
      /\ Pow(n) \in Nat /\ Pow(n + 1) \in Nat
  BY <1>1, PowCounts, Zenon
<1>4. Cardinality(C \ A) = Cardinality(A)
  <2> HIDE DEF A, C
  <2>1. ExistsBijection(A, C \ A)
    BY <1>2, Zenon DEF ExistsBijection
  <2> QED BY <1>3, <2>1, FS_Bijection, Zenon
<1>5. C \cap A = A
  BY <1>1, Zenon
<1> HIDE DEF A, C
<1>6. Cardinality(C \ A) = Cardinality(C) - Cardinality(C \cap A)
  BY <1>3, FS_Difference, Zenon
<1> QED BY <1>3, <1>4, <1>5, <1>6

(* Powers multiply.                                                        *)
LEMMA PowAdd == \A m, n \in Nat : Pow(m + n) = Pow(m) * Pow(n)
<1> SUFFICES ASSUME NEW m \in Nat, {n \in Nat : Pow(m + n) # Pow(m) * Pow(n)} # {} PROVE FALSE
  OBVIOUS
<1> DEFINE T == {n \in Nat : Pow(m + n) # Pow(m) * Pow(n)}
<1>1. PICK n \in T : \A k \in T : n <= k
  BY Least
<1>2. n # 0
  <2>1. Pow(m + 0) = Pow(m) * 1
    <3>1. m + 0 = m /\ Pow(m) \in Nat
      BY PowType
    <3> QED BY <3>1
  <2> QED BY <1>1, <2>1, PowZero
<1> DEFINE k == n - 1
<1>3. k \in Nat /\ n = k + 1 /\ k \notin T
  BY <1>1, <1>2
<1> HIDE DEF k
<1>4. Pow(m + k) = Pow(m) * Pow(k)
  BY <1>3
<1>5. Pow(m + n) = 2 * Pow(m + k) /\ Pow(n) = 2 * Pow(k)
  BY <1>3, PowNext
<1>6. Pow(m) \in Nat /\ Pow(k) \in Nat
  BY <1>3, PowType
<1>7. 2 * (Pow(m) * Pow(k)) = Pow(m) * (2 * Pow(k))
  BY <1>6
<1> QED BY <1>1, <1>4, <1>5, <1>7

(* None is zero.                                                           *)
LEMMA PowPositive == \A n \in Nat : Pow(n) > 0
<1> SUFFICES ASSUME {n \in Nat : ~(Pow(n) > 0)} # {} PROVE FALSE
  OBVIOUS
<1>1. PICK n \in {n \in Nat : ~(Pow(n) > 0)} : \A k \in {i \in Nat : ~(Pow(i) > 0)} : n <= k
  BY Least
<1>2. n # 0
  BY <1>1, PowZero
<1>3. n - 1 \in Nat /\ Pow(n - 1) > 0 /\ n = (n - 1) + 1
  BY <1>1, <1>2
<1>4. Pow(n) = 2 * Pow(n - 1) /\ Pow(n - 1) \in Nat
  BY <1>3, PowNext, PowType
<1> QED BY <1>1, <1>3, <1>4

(* Multiplication keeps the order.                                         *)
LEMMA Times ==
  ASSUME NEW a \in Nat, NEW b \in Nat, NEW p \in Nat, p > 0, a < b
  PROVE  a * p < b * p
OBVIOUS

(* A quotient and a remainder are the only ones.                           *)
LEMMA ModOf ==
  ASSUME NEW p \in Nat, p > 0, NEW q \in Nat, NEW r \in Nat, r < p
  PROVE  (q * p + r) % p = r /\ (q * p + r) \div p = q
OBVIOUS

(***************************************************************************)
(* What digits mean                                                        *)
(***************************************************************************)
Base == Pow(DIGIT_BITS)
Places(k) == Pow(DIGIT_BITS * k)
DigitSet == 0..(Base - 1)

(* What the digits are made of: Base values each, Places(k) values for k   *)
(* of them, as many as the register has with all digits.                   *)
LEMMA PlacesType ==
  /\ Base \in Nat /\ Base > 0 /\ Width \in Nat /\ Width > 0 /\ Places(WordDigits) = Pow(Width)
  /\ Places(0) = 1
  /\ \A k \in Nat : Places(k) \in Nat /\ Places(k) > 0 /\ Places(k + 1) = Places(k) * Base
<1>1. DIGIT_BITS \in Nat /\ WordDigits \in Nat /\ DIGIT_BITS > 0 /\ WordDigits > 0
  BY SizeAssumption
<1>2. \A k \in Nat : DIGIT_BITS * k \in Nat /\ DIGIT_BITS * (k + 1) = DIGIT_BITS * k + DIGIT_BITS
  BY <1>1
<1>3. DIGIT_BITS * 0 = 0 /\ DIGIT_BITS * WordDigits \in Nat /\ DIGIT_BITS * WordDigits > 0
  BY <1>1
<1> QED BY <1>1, <1>2, <1>3, PowAdd, PowType, PowPositive, PowZero DEF Base, Places, Width

(* The value of the digits up to each place.                               *)
IsValues(s, v) ==
  /\ v \in [0..Len(s) -> Nat] /\ v[0] = 0
  /\ \A k \in 1..Len(s) : v[k] = v[k - 1] * Base + s[k]

(* There are such values: a least place without would have one.            *)
LEMMA ValuesExist ==
  ASSUME NEW s \in Seq(Nat)
  PROVE  \E v : IsValues(s, v)
<1> DEFINE Upto(n, v) == /\ v \in [0..n -> Nat] /\ v[0] = 0
                        /\ \A k \in 1..n : v[k] = v[k - 1] * Base + s[k]
           T == {n \in 0..Len(s) : ~(\E v : Upto(n, v))}
<1> SUFFICES ASSUME T # {} PROVE FALSE
  BY DEF IsValues
<1>1. PICK n \in T : \A k \in T : n <= k
  <2>1. T \in SUBSET Nat
    OBVIOUS
  <2> HIDE DEF T
  <2> QED BY <2>1, Least
<1>2. n # 0
  <2> DEFINE v == [i \in 0..0 |-> 0]
  <2>1. Upto(0, v)
    OBVIOUS
  <2> QED BY <1>1, <2>1
<1>3. n - 1 \in 0..Len(s) /\ n - 1 \notin T /\ n \in 1..Len(s)
  <2>1. n \in 0..Len(s) /\ Len(s) \in Nat
    OBVIOUS
  <2>2. n - 1 \in 0..Len(s) /\ n \in 1..Len(s) /\ ~(n <= n - 1)
    BY <1>2, <2>1
  <2> HIDE DEF T
  <2> QED BY <1>1, <2>2
<1>4. PICK v : Upto(n - 1, v)
  BY <1>3
<1> DEFINE u == [i \in 0..n |-> IF i = n THEN v[n - 1] * Base + s[n] ELSE v[i]]
<1>5. s[n] \in Nat /\ Base \in Nat /\ v[n - 1] \in Nat
  <2>1. v[n - 1] \in Nat
    BY <1>3, <1>4
  <2>2. s[n] \in Nat
    BY <1>3
  <2> QED BY <2>1, <2>2, PlacesType
<1>6. v[n - 1] * Base + s[n] \in Nat
  <2> DEFINE x == v[n - 1]
             y == s[n]
  <2>1. x \in Nat /\ y \in Nat /\ Base \in Nat
    BY <1>5
  <2> HIDE DEF x, y
  <2>2. x * Base + y \in Nat
    BY <2>1
  <2> QED BY <2>2 DEF x, y
<1>7. Upto(n, u)
  <2>1. u \in [0..n -> Nat]
    BY <1>3, <1>4, <1>6
  <2>2. u[0] = 0
    BY <1>2, <1>3, <1>4
  <2>3. \A k \in 1..n : u[k] = u[k - 1] * Base + s[k]
    BY <1>3, <1>4
  <2> QED BY <2>1, <2>2, <2>3
<1> QED BY <1>1, <1>7

(* Value is the last of them, and they are the only ones.                  *)
LEMMA ValueIs ==
  ASSUME NEW s \in Seq(Nat), NEW v, IsValues(s, v)
  PROVE  Value(s) = v[Len(s)]
<1> DEFINE Step(u) == [k \in 0..Len(s) |-> IF k = 0 THEN 0 ELSE u[k - 1] * 2^DIGIT_BITS + s[k]]
           w == CHOOSE u : u = Step(u)
<1>1. v = Step(v)
  BY DEF IsValues, Base, Pow
<1>2. w = Step(w)
  BY <1>1
<1>3. Value(s) = w[Len(s)]
  BY DEF Value
<1> HIDE DEF w
<1>4. \A k \in 0..Len(s) : w[k] = v[k]
  <2> DEFINE T == {k \in 0..Len(s) : w[k] # v[k]}
  <2> SUFFICES ASSUME T # {} PROVE FALSE
    OBVIOUS
  <2>1. PICK k \in T : \A i \in T : k <= i
    <3>1. T \in SUBSET Nat
      OBVIOUS
    <3> HIDE DEF T
    <3> QED BY <3>1, Least
  <2>2. w[0] = 0 /\ v[0] = 0
    BY <1>1, <1>2
  <2>3. k # 0 /\ k - 1 \in 0..Len(s) /\ w[k - 1] = v[k - 1]
    BY <2>1, <2>2
  <2>4. w[k] = w[k - 1] * 2^DIGIT_BITS + s[k] /\ v[k] = v[k - 1] * 2^DIGIT_BITS + s[k]
    BY <1>1, <1>2, <2>1, <2>3
  <2> QED BY <2>1, <2>3, <2>4
<1> QED BY <1>3, <1>4

(* Multiplying out.                                                        *)
LEMMA Distribute ==
  ASSUME NEW a \in Nat, NEW p \in Nat, NEW x \in Nat, NEW b \in Nat
  PROVE  /\ (a * p + x) * b = a * (p * b) + x * b
         /\ a * (p * b) \in Nat /\ x * b \in Nat /\ a * p \in Nat
<1>1. a * p \in Nat /\ p * b \in Nat /\ x * b \in Nat
  OBVIOUS
<1>2. a * (p * b) \in Nat
  BY <1>1
<1>3. (a * p + x) * b = (a * p) * b + x * b
  OBVIOUS
<1>4. (a * p) * b = a * (p * b)
  OBVIOUS
<1> QED BY <1>1, <1>2, <1>3, <1>4

(* Digits are numbers.                                                     *)
LEMMA DigitsAre ==
  /\ \A d \in DigitSet : d \in Nat /\ d < Base
  /\ \A s \in Seq(DigitSet) : s \in Seq(Nat) /\ Len(s) \in Nat /\ \A k \in 1..Len(s) : s[k] \in DigitSet
<1>1. \A d \in DigitSet : d \in Nat /\ d < Base
  BY PlacesType DEF DigitSet
<1>2. DigitSet \subseteq Nat
  BY <1>1
<1>3. ASSUME NEW s \in Seq(DigitSet)
      PROVE  s \in Seq(Nat) /\ Len(s) \in Nat /\ \A k \in 1..Len(s) : s[k] \in DigitSet
  <2>1. /\ Len(s) \in Nat /\ s = [k \in 1..Len(s) |-> s[k]]
        /\ \A k \in 1..Len(s) : s[k] \in DigitSet
    OBVIOUS
  <2>2. s \in [1..Len(s) -> Nat]
    BY <1>2, <2>1, Zenon
  <2>3. s \in Seq(Nat)
    BY <2>1, <2>2
  <2> QED BY <2>1, <2>3
<1> QED BY <1>1, <1>3

(* No digit counts nothing.                                                *)
LEMMA ValueEmpty == Value(<<>>) = 0
<1> DEFINE v == [i \in 0..Len(<<>>) |-> 0]
<1>1. <<>> \in Seq(Nat) /\ Len(<<>>) = 0
  OBVIOUS
<1>2. IsValues(<<>>, v) /\ v[Len(<<>>)] = 0
  BY <1>1 DEF IsValues
<1> HIDE DEF v
<1> QED BY <1>1, <1>2, ValueIs

(* A digit more shifts the others up.                                      *)
LEMMA ValueAppend ==
  ASSUME NEW s \in Seq(Nat), NEW d \in Nat
  PROVE  Value(s) \in Nat /\ Value(Append(s, d)) = Value(s) * Base + d
<1> DEFINE t == Append(s, d)
           n == Len(s)
<1>1. t \in Seq(Nat) /\ Len(t) = n + 1 /\ n \in Nat /\ t[n + 1] = d /\ \A i \in 1..n : t[i] = s[i]
  OBVIOUS
<1>2. PICK w : IsValues(t, w)
  BY <1>1, ValuesExist
<1> DEFINE v == [i \in 0..n |-> w[i]]
<1> HIDE DEF t
<1>3. v \in [0..n -> Nat] /\ v[0] = 0 /\ \A k \in 1..n : v[k] = v[k - 1] * Base + s[k]
  BY <1>1, <1>2 DEF IsValues
<1>4. Value(s) = w[n]
  <2>1. IsValues(s, v)
    BY <1>3 DEF IsValues
  <2>2. v[n] = w[n]
    BY <1>1
  <2> HIDE DEF v
  <2> QED BY <2>1, <2>2, ValueIs
<1>5. Value(t) = w[n + 1]
  BY <1>1, <1>2, ValueIs
<1>6. w[n + 1] = w[n] * Base + d /\ w[n] \in Nat
  <2>1. n + 1 \in 1..Len(t) /\ (n + 1) - 1 = n /\ n \in 0..Len(t)
    BY <1>1
  <2> HIDE DEF n
  <2> QED BY <1>1, <1>2, <2>1 DEF IsValues
<1> QED BY <1>4, <1>5, <1>6 DEF t

(* A place more.                                                           *)
LEMMA Carry ==
  ASSUME NEW x \in Nat, NEW p \in Nat, NEW b \in Nat, NEW d \in Nat, x < p, d < b
  PROVE  x * b + d < p * b
<1>1. PICK k \in Nat : p = x + 1 + k
  <2>1. p - x - 1 \in Nat /\ p = x + 1 + (p - x - 1)
    OBVIOUS
  <2> QED BY <2>1
<1>2. p * b = x * b + b + k * b /\ k * b \in Nat /\ x * b \in Nat
  BY <1>1
<1> QED BY <1>2

(* Digits stay below their places.                                         *)
LEMMA ValueBound ==
  ASSUME NEW s \in Seq(DigitSet)
  PROVE  Value(s) \in Nat /\ Value(s) < Places(Len(s))
<1>1. s \in Seq(Nat) /\ Len(s) \in Nat /\ \A k \in 1..Len(s) : s[k] \in Nat /\ s[k] < Base
  BY DigitsAre
<1>2. PICK v : IsValues(s, v)
  BY <1>1, ValuesExist
<1>3. \A k \in 0..Len(s) : v[k] \in Nat
  BY <1>2 DEF IsValues
<1>4. \A k \in 0..Len(s) : v[k] < Places(k)
  <2> DEFINE T == {k \in 0..Len(s) : ~(v[k] < Places(k))}
  <2> SUFFICES ASSUME T # {} PROVE FALSE
    OBVIOUS
  <2>1. PICK k \in T : \A i \in T : k <= i
    <3>1. T \in SUBSET Nat
      OBVIOUS
    <3> HIDE DEF T
    <3> QED BY <3>1, Least
  <2>2. k # 0
    BY <1>2, <2>1, PlacesType DEF IsValues
  <2>3. k \in 1..Len(s) /\ k - 1 \in 0..Len(s) /\ k - 1 \in Nat /\ k = (k - 1) + 1 /\ k - 1 \notin T
    BY <1>1, <2>1, <2>2
  <2>4. v[k - 1] < Places(k - 1)
    BY <2>3
  <2>5. v[k] = v[k - 1] * Base + s[k] /\ s[k] \in Nat /\ s[k] < Base /\ v[k - 1] \in Nat
    BY <1>1, <1>2, <1>3, <2>3 DEF IsValues
  <2>6. Places(k) = Places(k - 1) * Base /\ Places(k - 1) \in Nat /\ Base \in Nat
    BY <2>3, PlacesType
  <2>7. v[k] < Places(k)
    BY <2>4, <2>5, <2>6, Carry
  <2> QED BY <2>1, <2>7
<1>5. Value(s) = v[Len(s)]
  BY <1>1, <1>2, ValueIs
<1> QED BY <1>1, <1>3, <1>4, <1>5

(* The first digit has the highest place.                                  *)
LEMMA ValueTail ==
  ASSUME NEW s \in Seq(Nat), Len(s) > 0
  PROVE  Value(s) = s[1] * Places(Len(s) - 1) + Value(Tail(s))
<1> DEFINE t == Tail(s)
           n == Len(s) - 1
<1>1. /\ t \in Seq(Nat) /\ Len(t) = n /\ n \in Nat /\ Len(s) = n + 1
      /\ \A k \in 1..n : t[k] = s[k + 1] /\ t[k] \in Nat
      /\ s[1] \in Nat
  OBVIOUS
<1>2. PICK v : IsValues(s, v)
  BY ValuesExist
<1>3. PICK w : IsValues(t, w)
  BY <1>1, ValuesExist
<1> HIDE DEF t, n
<1>4. \A k \in 0..n : v[k + 1] = s[1] * Places(k) + w[k]
  <2> DEFINE T == {k \in 0..n : v[k + 1] # s[1] * Places(k) + w[k]}
  <2> SUFFICES ASSUME T # {} PROVE FALSE
    OBVIOUS
  <2>1. PICK k \in T : \A i \in T : k <= i
    <3>1. T \in SUBSET Nat
      BY <1>1
    <3> HIDE DEF T
    <3> QED BY <3>1, Least
  <2>2. k # 0
    <3>1. v[1] = v[0] * Base + s[1] /\ v[0] = 0 /\ w[0] = 0
      BY <1>1, <1>2, <1>3 DEF IsValues
    <3>2. v[1] = s[1] * Places(0) + w[0]
      BY <1>1, <3>1, PlacesType
    <3> QED BY <2>1, <3>2
  <2>3. /\ k \in 1..n /\ k - 1 \in 0..n /\ k - 1 \in Nat /\ k = (k - 1) + 1 /\ k - 1 \notin T
        /\ k + 1 \in 1..Len(s) /\ (k + 1) - 1 = k
    BY <1>1, <2>1, <2>2
  <2>4. v[k] = s[1] * Places(k - 1) + w[k - 1]
    BY <2>3
  <2>5. v[k + 1] = v[k] * Base + s[k + 1]
    BY <1>2, <2>3 DEF IsValues
  <2>6. w[k] = w[k - 1] * Base + s[k + 1] /\ w[k - 1] \in Nat /\ s[k + 1] \in Nat
    BY <1>1, <1>3, <2>3 DEF IsValues
  <2>7. Places(k) = Places(k - 1) * Base /\ Places(k - 1) \in Nat /\ Base \in Nat
    BY <2>3, PlacesType
  <2>8. (s[1] * Places(k - 1) + w[k - 1]) * Base = s[1] * Places(k) + w[k - 1] * Base
    <3> DEFINE a == s[1]
               p == Places(k - 1)
               x == w[k - 1]
               b == Base
    <3>1. a \in Nat /\ p \in Nat /\ x \in Nat /\ b \in Nat
      BY <1>1, <2>6, <2>7
    <3> HIDE DEF a, p, x, b
    <3>2. (a * p + x) * b = a * (p * b) + x * b
      BY <3>1, Distribute
    <3> QED BY <2>7, <3>2, Zenon DEF a, p, x, b
  <2>9. v[k + 1] = s[1] * Places(k) + w[k]
    <3>1. s[1] * Places(k) \in Nat /\ w[k - 1] * Base \in Nat
      BY <1>1, <2>6, <2>7, Distribute
    <3> QED BY <2>4, <2>5, <2>6, <2>8, <3>1
  <2> QED BY <2>1, <2>9
<1>5. Value(s) = v[n + 1] /\ Value(t) = w[n]
  BY <1>1, <1>2, <1>3, ValueIs
<1> QED BY <1>1, <1>4, <1>5 DEF t, n

(* With all digits there, one more pushes the first one out.               *)
LEMMA ShiftedIn ==
  ASSUME NEW s \in Seq(DigitSet), Len(s) = WordDigits, NEW d \in DigitSet
  PROVE  (Value(s) * Base + d) % Pow(Width) = Value(Append(Tail(s), d))
<1> DEFINE n == WordDigits - 1
           t == Tail(s)
           u == Append(t, d)
           p == Places(n)
           x == Value(t)
<1>1. WordDigits \in Nat /\ n \in Nat /\ WordDigits = n + 1 /\ Len(s) > 0
  BY SizeAssumption
<1>2. /\ s \in Seq(Nat) /\ t \in Seq(Nat) /\ t \in Seq(DigitSet) /\ s[1] \in Nat /\ d \in Nat
      /\ u \in Seq(DigitSet) /\ Len(u) = n + 1
  <2>1. t \in Seq(DigitSet) /\ Len(t) = n /\ s[1] \in DigitSet
    BY <1>1
  <2>2. u \in Seq(DigitSet) /\ Len(u) = n + 1
    BY <1>1, <2>1
  <2> HIDE DEF t, u
  <2> QED BY <2>1, <2>2, DigitsAre
<1>3. Value(s) = s[1] * p + x
  BY <1>1, <1>2, ValueTail
<1>4. x \in Nat /\ Value(u) = x * Base + d
  BY <1>2, ValueAppend
<1>5. Value(u) < Pow(Width) /\ Value(u) \in Nat
  BY <1>1, <1>2, ValueBound, PlacesType
<1>6. p \in Nat /\ Base \in Nat /\ p * Base = Pow(Width) /\ Pow(Width) \in Nat /\ Pow(Width) > 0
  BY <1>1, PlacesType
<1> HIDE DEF n, t, u, p, x
<1>7. Value(s) * Base + d = s[1] * Pow(Width) + Value(u)
  <2>1. (s[1] * p + x) * Base = s[1] * (p * Base) + x * Base
    <3> DEFINE a == s[1]
               b == Base
    <3>1. a \in Nat /\ b \in Nat
      BY <1>2, <1>6
    <3> HIDE DEF a, b
    <3>2. (a * p + x) * b = a * (p * b) + x * b
      BY <1>4, <1>6, <3>1, Distribute
    <3> QED BY <3>2, Zenon DEF a, b
  <2>2. s[1] * (p * Base) \in Nat /\ x * Base \in Nat
    BY <1>2, <1>4, <1>6, Distribute
  <2> QED BY <1>2, <1>3, <1>4, <1>6, <2>1, <2>2
<1>8. (s[1] * Pow(Width) + Value(u)) % Pow(Width) = Value(u)
  BY <1>2, <1>5, <1>6, ModOf
<1> QED BY <1>7, <1>8 DEF u, t

(* With room left, nothing is pushed out.                                  *)
LEMMA PlacesGrow ==
  ASSUME NEW m \in Nat, NEW n \in Nat, m <= n
  PROVE  Places(m) <= Places(n)
<1> DEFINE T == {k \in Nat : ~(Places(m) <= Places(m + k))}
<1>1. T = {}
  <2> SUFFICES ASSUME T # {} PROVE FALSE
    OBVIOUS
  <2>1. PICK k \in T : \A i \in T : k <= i
    BY Least
  <2>2. k # 0
    BY <2>1, PlacesType
  <2>3. k - 1 \in Nat /\ k - 1 \notin T /\ m + k = (m + (k - 1)) + 1 /\ m + (k - 1) \in Nat
    BY <2>1, <2>2
  <2>4. Places(m) <= Places(m + (k - 1)) /\ Places(m + k) = Places(m + (k - 1)) * Base
    BY <2>3, PlacesType
  <2>5. Base \in Nat /\ Base > 0 /\ Places(m + (k - 1)) \in Nat /\ Places(m) \in Nat
    BY <2>3, PlacesType
  <2>6. Places(m + (k - 1)) <= Places(m + (k - 1)) * Base
    BY <2>5
  <2>7. Places(m) <= Places(m + k)
    BY <2>4, <2>5, <2>6
  <2> QED BY <2>1, <2>7
<1>2. n - m \in Nat /\ m + (n - m) = n
  OBVIOUS
<1> QED BY <1>1, <1>2

(* With room for one more, nothing is pushed out.                          *)
LEMMA RoomLeft ==
  ASSUME NEW s \in Seq(DigitSet), Len(s) < WordDigits, NEW d \in DigitSet
  PROVE  (Value(s) * Base + d) % Pow(Width) = Value(Append(s, d))
<1> DEFINE u == Append(s, d)
<1>1. s \in Seq(Nat) /\ d \in Nat /\ u \in Seq(DigitSet) /\ Len(u) = Len(s) + 1 /\ Len(s) \in Nat
  <2>1. u \in Seq(DigitSet) /\ Len(u) = Len(s) + 1
    OBVIOUS
  <2> HIDE DEF u
  <2> QED BY <2>1, DigitsAre
<1>2. Value(u) = Value(s) * Base + d
  BY <1>1, ValueAppend
<1>3. Value(u) \in Nat /\ Value(u) < Places(Len(u))
  BY <1>1, ValueBound
<1>4. Places(Len(u)) <= Pow(Width) /\ Pow(Width) \in Nat
  BY <1>1, PlacesGrow, PlacesType, SizeAssumption
<1>5. Places(Len(u)) \in Nat
  BY <1>1, PlacesType
<1> HIDE DEF u
<1>6. Value(u) < Pow(Width)
  BY <1>3, <1>4, <1>5
<1> QED BY <1>2, <1>3, <1>4, <1>6 DEF u

(***************************************************************************)
(* Bits on the wires                                                       *)
(***************************************************************************)
(* The top b bits of w are the low bits of sh; the others are at the top   *)
(* of a.                                                                   *)
SentOf(w, a, sh, b) ==
  \E hi \in Nat, lo \in Nat, q \in Int :
    /\ w = hi * Pow(Width - b) + lo /\ lo < Pow(Width - b)
    /\ a = lo * Pow(b)
    /\ sh = q * Pow(b) + hi

(* Before the first bit the argument is the word.                          *)
LEMMA NothingSent ==
  ASSUME NEW w \in Nat, w < Pow(Width), NEW sh \in Nat
  PROVE  SentOf(w, w, sh, 0)
<1>1. Width - 0 = Width /\ Pow(Width) \in Nat /\ Pow(0) = 1
  BY PlacesType, PowType, PowZero
<1>2. w = 0 * Pow(Width) + w /\ w = w * 1 /\ sh = sh * 1 + 0 /\ sh \in Int
  BY <1>1
<1> QED BY <1>1, <1>2 DEF SentOf

(* After the last the shift register is, and the argument is empty.        *)
LEMMA AllSent ==
  ASSUME NEW w \in Nat, w < Pow(Width), NEW sh \in Nat, sh < Pow(Width),
         NEW a, SentOf(w, a, sh, Width)
  PROVE  sh = w /\ a = 0
<1>1. Width - Width = 0 /\ Pow(Width) \in Nat /\ Pow(0) = 1 /\ Pow(Width) > 0
  BY PlacesType, PowType, PowZero, PowPositive
<1>2. PICK hi \in Nat, lo \in Nat, q \in Int :
        /\ w = hi * Pow(Width - Width) + lo /\ lo < Pow(Width - Width)
        /\ a = lo * Pow(Width)
        /\ sh = q * Pow(Width) + hi
  BY DEF SentOf
<1>3. lo = 0 /\ hi = w
  BY <1>1, <1>2
<1>4. a = 0
  BY <1>1, <1>2, <1>3
<1> DEFINE p == Pow(Width)
<1>5. sh = q * p + hi /\ sh < p /\ hi < p /\ p \in Nat
  BY <1>1, <1>2, <1>3
<1> HIDE DEF p
<1>6. q = 0
  <2>1. ASSUME q >= 1 PROVE FALSE
    <3>1. q * p >= p
      BY <1>5, <2>1
    <3> QED BY <1>5, <3>1
  <2>2. ASSUME q <= -1 PROVE FALSE
    <3>1. (-q) * p >= p
      BY <1>5, <2>2
    <3>2. q * p = -((-q) * p)
      BY <1>5
    <3> QED BY <1>5, <3>1, <3>2
  <2> QED BY <2>1, <2>2
<1>7. sh = w
  BY <1>3, <1>5, <1>6
<1> QED BY <1>4, <1>7

(* The bit at the top, and what doubling leaves behind it.                 *)
Splits(M, B, lo, bit, l) ==
  /\ lo = bit * M + l /\ l < M
  /\ (lo * B) \div (M * B) = bit
  /\ (2 * (lo * B)) % (2 * (M * B)) = l * (2 * B)

LEMMA TopBit ==
  ASSUME NEW M \in Nat, NEW B \in Nat, M > 0, B > 0, NEW lo \in Nat, lo < 2 * M
  PROVE  \E bit \in {0, 1}, l \in Nat : Splits(M, B, lo, bit, l)
<1> DEFINE bit == IF lo < M THEN 0 ELSE 1
           l == IF lo < M THEN lo ELSE lo - M
           H == M * B
           x == l * B
<1>1. bit \in {0, 1} /\ l \in Nat /\ lo = bit * M + l /\ l < M
  <2>1. CASE lo < M BY <2>1
  <2>2. CASE ~(lo < M) BY <2>2
  <2> QED BY <2>1, <2>2
<1>2. lo * B = bit * (M * B) + l * B
  <2>1. CASE lo < M BY <2>1
  <2>2. CASE ~(lo < M)
    <3>1. lo * B = (M + l) * B
      BY <2>2
    <3>2. (M + l) * B = M * B + l * B
      BY <1>1
    <3> QED BY <2>2, <3>1, <3>2
  <2> QED BY <2>1, <2>2
<1> HIDE DEF bit, l
<1>3. H \in Nat /\ x \in Nat /\ x < H
  BY <1>1, Times
<1>4. lo * B = bit * H + x /\ bit \in Nat
  BY <1>1, <1>2
<1>5. l * (2 * B) = 2 * x
  BY <1>1
<1> HIDE DEF H, x
<1>6. (bit * H + x) \div H = bit
  BY <1>3, <1>4, ModOf
<1>7. (2 * (bit * H + x)) % (2 * H) = 2 * x
  <2> DEFINE p == 2 * H
             r == 2 * x
  <2>1. 2 * (bit * H + x) = bit * p + r /\ p \in Nat /\ r \in Nat /\ r < p /\ p > 0
    <3>1. CASE bit = 0 BY <1>3, <3>1
    <3>2. CASE bit = 1 BY <1>3, <3>2
    <3> QED BY <1>1, <3>1, <3>2
  <2> HIDE DEF p, r
  <2>2. (bit * p + r) % p = r
    BY <1>4, <2>1, ModOf
  <2> QED BY <2>1, <2>2 DEF p, r
<1>8. Splits(M, B, lo, bit, l)
  BY <1>1, <1>4, <1>5, <1>6, <1>7 DEF H, Splits
<1> QED BY <1>1, <1>8

(* A step shifts the top bit from one end to the other.                    *)
LEMMA NextBit ==
  ASSUME NEW b \in Nat, b < Width, NEW w \in Nat, NEW a \in Nat, NEW sh \in Nat,
         SentOf(w, a, sh, b)
  PROVE  /\ a \div Pow(Width - 1) \in {0, 1}
         /\ SentOf(w, (2 * a) % Pow(Width), (2 * sh + a \div Pow(Width - 1)) % Pow(Width), b + 1)
<1> DEFINE m == Width - b - 1
           M == Pow(m)
           B == Pow(b)
           F == Pow(Width)
<1>1. m \in Nat /\ Width - b = m + 1 /\ Width - 1 = m + b /\ Width = m + b + 1 /\ Width - (b + 1) = m
      /\ m + b \in Nat
  BY PlacesType
<1>2. M \in Nat /\ B \in Nat /\ M > 0 /\ B > 0
  BY <1>1, PowType, PowPositive
<1>3. /\ Pow(Width - b) = 2 * M /\ Pow(Width - 1) = M * B /\ F = 2 * (M * B) /\ Pow(b + 1) = 2 * B
      /\ Pow(Width - (b + 1)) = M
  BY <1>1, PowNext, PowAdd
<1>4. PICK hi \in Nat, lo \in Nat, q \in Int :
        w = hi * (2 * M) + lo /\ lo < 2 * M /\ a = lo * B /\ sh = q * B + hi
  BY <1>3 DEF SentOf
<1> HIDE DEF m, M, B, F
<1>5. PICK bit \in {0, 1}, l \in Nat :
        /\ lo = bit * M + l /\ l < M
        /\ a \div Pow(Width - 1) = bit
        /\ (2 * a) % F = l * (2 * B)
  <2>1. \E bit \in {0, 1}, l \in Nat : Splits(M, B, lo, bit, l)
    <3>1. M \in Nat /\ B \in Nat /\ M > 0 /\ B > 0 /\ lo \in Nat /\ lo < 2 * M
      BY <1>2, <1>4
    <3> QED BY <3>1, TopBit
  <2> QED BY <1>3, <1>4, <2>1, Zenon DEF Splits
<1> DEFINE h == 2 * hi + bit
<1>6. h \in Nat
  BY <1>4, <1>5
<1>7. w = h * M + l
  <2>1. hi * (2 * M) = (2 * hi) * M
    BY <1>2
  <2>2. (2 * hi) * M + bit * M = (2 * hi + bit) * M
    BY <1>2, <1>5
  <2>3. hi * (2 * M) \in Nat /\ bit * M \in Nat
    BY <1>2, <1>5
  <2> QED BY <1>4, <1>5, <2>1, <2>2, <2>3
<1> DEFINE y == 2 * sh + bit
           t == y \div F
           P == 2 * B
<1>8. y \in Nat /\ F \in Nat /\ F > 0 /\ P \in Nat /\ F = M * P
  <2>1. M * B \in Nat /\ M * B > 0
    BY <1>2
  <2>2. 2 * (M * B) = M * (2 * B)
    BY <1>2
  <2> QED BY <1>2, <1>3, <1>5, <2>1, <2>2
<1>9. y = q * P + h
  <2>1. 2 * (q * B) = q * (2 * B)
    BY <1>2
  <2>2. q * B \in Int
    BY <1>2
  <2> QED BY <1>4, <1>5, <2>1, <2>2
<1>10. y = F * t + (y % F) /\ t \in Int /\ y % F \in Int
  <2>1. y \in Nat /\ F \in Nat /\ F > 0
    BY <1>8
  <2> HIDE DEF y
  <2> QED BY <2>1
<1> HIDE DEF y, t, P, h
<1>11. y % F = (q - t * M) * P + h /\ q - t * M \in Int
  <2>1. F * t = (t * M) * P
    <3>1. (M * P) * t = (t * M) * P
      BY <1>2, <1>8, <1>10
    <3> QED BY <1>8, <3>1
  <2> DEFINE z == t * M
  <2>2. z \in Int
    BY <1>2, <1>10
  <2> HIDE DEF z
  <2>3. (q - z) * P = q * P - z * P /\ q * P \in Int /\ z * P \in Int
    BY <1>8, <2>2
  <2>4. F * t = z * P
    BY <2>1 DEF z
  <2>5. y % F = (q - z) * P + h /\ q - z \in Int
    BY <1>6, <1>9, <1>10, <2>2, <2>3, <2>4
  <2> QED BY <2>5 DEF z
<1>12. SentOf(w, l * P, y % F, b + 1)
  BY <1>3, <1>5, <1>6, <1>7, <1>11 DEF SentOf, P
<1> QED BY <1>5, <1>12 DEF y, P, F

(***************************************************************************)
(* The invariant                                                           *)
(***************************************************************************)
Values == 0..(Pow(Width) - 1)

(* The counter of digits and what it stands for.                           *)
CountInv ==
  /\ count < DigitsWrap => digits = count
  /\ count = DigitsWrap => digits = 0
  /\ Len(typed) = IF count < WordDigits THEN count ELSE WordDigits

(* Between commands the argument is what has been typed.                   *)
MeaningInv == pc = "loop" => argument = Meaning

(* How much of the word is in the chip, and where the wires are.           *)
Sent(b) == SentOf(word, argument, shift, b)
SendInv ==
  /\ pc = "loop" => word = None /\ PORTB = Low
  /\ pc # "loop" => word \in Values /\ count = 0 /\ number = 0
  /\ pc = "data" => PORTB.LE = 0 /\ PORTB.CLK = 0 /\ Sent(Width - iii)
  /\ pc = "clk" => /\ PORTB.LE = 0 /\ PORTB.CLK = 0 /\ iii > 0 /\ Sent(Width - iii)
                   /\ PORTB.DATA = argument \div Pow(Width - 1)
  /\ pc = "shift" => PORTB.LE = 0 /\ PORTB.CLK = 1 /\ Sent(Width - iii)
  /\ pc = "le" => PORTB.CLK = 0 /\ latched = word /\ argument = 0

Inv ==
  /\ TypeOK /\ rx \in Seq(Chars(DigitSet)) /\ typed \in Seq(DigitSet) /\ number \in Values
  /\ CountInv /\ MeaningInv /\ SendInv

(* The sizes and ranges, in the terms of the lemmas.                       *)
LEMMA Sizes ==
  /\ 2^Width = Pow(Width) /\ 2^DIGIT_BITS = Base /\ 2^(Width - 1) = Pow(Width - 1)
  /\ Width \in Nat /\ Width > 0 /\ Pow(Width) \in Nat /\ Pow(Width) > 0 /\ Base \in Nat /\ Base > 0
  /\ WordDigits \in Nat /\ WordDigits > 0 /\ DigitsWrap \in Nat /\ WordDigits < DigitsWrap
  /\ 0..(2^DIGIT_BITS - 1) = DigitSet /\ 0..(2^Width - 1) = Values
<1>1. 2^Width = Pow(Width) /\ 2^DIGIT_BITS = Base /\ 2^(Width - 1) = Pow(Width - 1)
  BY Zenon DEF Pow, Base
<1>2. 0..(2^DIGIT_BITS - 1) = DigitSet /\ 0..(2^Width - 1) = Values
  BY <1>1, Zenon DEF DigitSet, Values
<1> QED
  BY <1>1, <1>2, PlacesType, PowType, PowPositive, SizeAssumption

(* A digit more, whether there is room for it or the first one goes.       *)
LEMMA DigitMore ==
  ASSUME NEW s \in Seq(DigitSet), NEW d \in DigitSet, Len(s) <= WordDigits
  PROVE  LET t == Append(IF Len(s) < WordDigits THEN s ELSE Tail(s), d)
         IN  /\ t \in Seq(DigitSet)
             /\ Len(t) = IF Len(s) < WordDigits THEN Len(s) + 1 ELSE WordDigits
             /\ Value(t) = (Value(s) * Base + d) % Pow(Width)
<1>1. CASE Len(s) < WordDigits
  <2>1. Append(s, d) \in Seq(DigitSet) /\ Len(Append(s, d)) = Len(s) + 1
    OBVIOUS
  <2> QED BY <1>1, <2>1, RoomLeft
<1>2. CASE Len(s) = WordDigits
  <2>1. Append(Tail(s), d) \in Seq(DigitSet) /\ Len(Append(Tail(s), d)) = WordDigits
    BY <1>2, Sizes
  <2> QED BY <1>2, <2>1, ShiftedIn
<1> QED
  BY <1>1, <1>2, Sizes

(* What TypeOK says, in the terms of the proofs.                           *)
LEMMA TypeIs ==
  TypeOK <=>
    /\ pc \in {"loop", "data", "clk", "shift", "le"}
    /\ argument \in Values /\ digits \in 0..(DigitsWrap - 1) /\ iii \in 0..Width
    /\ echo \in BOOLEAN /\ verbose \in BOOLEAN
    /\ PORTB \in [DATA : {0, 1}, LE : {0, 1}, CLK : {0, 1}]
    /\ shift \in Values /\ latched \in Values \cup {None}
    /\ \A k \in DOMAIN rx : rx[k] \in Chars(DigitSet)
    /\ count \in 0..(DigitsWrap + 1) /\ Len(typed) <= WordDigits
BY Sizes, Zenon DEF TypeOK

(* The serial buffer keeps to its characters.                              *)
LEMMA RxType ==
  ASSUME NEW q \in Seq(Chars(DigitSet))
  PROVE  \A k \in DOMAIN q : q[k] \in Chars(DigitSet)
OBVIOUS

(* A number divided by the values of its bits is a word.                   *)
LEMMA Reduced == \A n \in Nat : n % Pow(Width) \in Values
BY Sizes DEF Values

(* The invariant holds at power-on.                                        *)
LEMMA InitInv == Init => Inv
<1> SUFFICES ASSUME Init PROVE Inv
  OBVIOUS
<1>1. 0 \in Values /\ 0 \in 0..Width /\ 0 \in 0..(DigitsWrap - 1) /\ 0 \in 0..(DigitsWrap + 1)
  BY Sizes DEF Values
<1>2. TypeOK
  <2>1. rx = <<>> /\ DOMAIN rx = {} /\ typed = <<>> /\ Len(typed) = 0
    BY DEF Init
  <2>2. PORTB \in [DATA : {0, 1}, LE : {0, 1}, CLK : {0, 1}]
    BY DEF Init, Low
  <2>3. \A k \in DOMAIN rx : rx[k] \in Chars(DigitSet)
    BY <2>1
  <2>4. Len(typed) <= WordDigits
    BY <2>1, Sizes
  <2>5. argument \in Values /\ digits \in 0..(DigitsWrap - 1) /\ iii \in 0..Width
        /\ shift \in Values /\ count \in 0..(DigitsWrap + 1)
    BY <1>1 DEF Init
  <2> QED BY <2>2, <2>3, <2>4, <2>5, TypeIs DEF Init
<1>3. rx \in Seq(Chars(DigitSet)) /\ typed \in Seq(DigitSet) /\ number \in Values
  BY <1>1 DEF Init
<1>4. CountInv /\ MeaningInv /\ SendInv
  BY Sizes DEF Init, CountInv, MeaningInv, Meaning, SendInv
<1> QED BY <1>2, <1>3, <1>4 DEF Inv

(* Shifting keeps to the register.                                         *)
LEMMA ArgumentType ==
  ASSUME NEW a \in Values
  PROVE  /\ a \in Nat /\ a < Pow(Width) /\ (2 * a) % Pow(Width) \in Values
         /\ a # None
         /\ \A d \in {0, 1} : (2 * a + d) % Pow(Width) \in Values
<1>1. a \in Nat /\ a < Pow(Width)
  BY Sizes DEF Values
<1>2. 2 * a \in Nat /\ \A d \in {0, 1} : 2 * a + d \in Nat
  BY <1>1
<1> QED BY <1>1, <1>2, Reduced, NoneAssumption

(* A digit, counted and shifted in.                                        *)
LEMMA DigitInv ==
  ASSUME Inv, NEW d \in DigitSet, Digit(d)
  PROVE  Inv'
<1>1. /\ pc = "loop" /\ pc' = "loop" /\ rx # <<>> /\ rx' = Tail(rx) /\ number' = 0
      /\ UNCHANGED <<echo, verbose, iii, PORTB, shift, latched, word, due>>
      /\ argument' = ((IF digits = 0 THEN 0 ELSE argument * Base) + d) % Pow(Width)
      /\ digits' = (digits + 1) % DigitsWrap
      /\ typed' = Append(IF Len(typed) < WordDigits THEN typed ELSE Tail(typed), d)
      /\ count' = IF count > DigitsWrap THEN count ELSE count + 1
  BY Sizes DEF Digit, Take, Typed, line, chip
<1>2. /\ typed \in Seq(DigitSet) /\ Len(typed) \in Nat /\ Len(typed) <= WordDigits
      /\ count \in 0..(DigitsWrap + 1) /\ digits \in 0..(DigitsWrap - 1) /\ argument \in Values
      /\ d \in Nat /\ DigitsWrap \in Nat /\ WordDigits \in Nat
  BY Sizes, TypeIs, DigitsAre DEF Inv
<1>3. /\ typed' \in Seq(DigitSet)
      /\ Len(typed') = IF Len(typed) < WordDigits THEN Len(typed) + 1 ELSE WordDigits
      /\ Value(typed') = (Value(typed) * Base + d) % Pow(Width)
  BY <1>1, <1>2, DigitMore
<1>4. argument' \in Values
  <2>1. argument * Base \in Nat /\ 0 \in Nat
    BY <1>2, Sizes, ArgumentType
  <2> DEFINE x == IF digits = 0 THEN 0 ELSE argument * Base
  <2>2. x \in Nat
    BY <2>1
  <2> HIDE DEF x
  <2>3. x + d \in Nat
    BY <1>2, <2>2
  <2> QED BY <1>1, <2>3, Reduced DEF x
<1>5. digits' \in 0..(DigitsWrap - 1) /\ count' \in 0..(DigitsWrap + 1)
  BY <1>1, <1>2, Sizes
<1>6. rx' \in Seq(Chars(DigitSet))
  BY <1>1 DEF Inv
<1>7. CountInv'
  <2>1. Len(typed') = IF count' < WordDigits THEN count' ELSE WordDigits
    BY <1>1, <1>2, <1>3, Sizes DEF Inv, CountInv
  <2>2. CASE count < DigitsWrap - 1
    <3>1. digits = count /\ count + 1 < DigitsWrap /\ count + 1 \in Nat
      BY <1>2, <2>2 DEF Inv, CountInv
    <3>2. (count + 1) % DigitsWrap = count + 1
      BY <1>2, <3>1
    <3> QED BY <1>1, <1>2, <2>1, <2>2, <3>1, <3>2 DEF CountInv
  <2>3. CASE count = DigitsWrap - 1
    <3>1. digits + 1 = DigitsWrap
      BY <1>2, <2>3 DEF Inv, CountInv
    <3>2. DigitsWrap % DigitsWrap = 0
      BY <1>2, Sizes
    <3>3. digits' = 0 /\ count' = DigitsWrap
      BY <1>1, <1>2, <2>3, <3>1, <3>2
    <3> QED BY <1>2, <2>1, <3>3 DEF CountInv
  <2>4. CASE count > DigitsWrap - 1
    <3>1. count' > DigitsWrap /\ count' \in Nat
      BY <1>1, <1>2, <2>4
    <3>2. ~(count' < DigitsWrap) /\ count' # DigitsWrap
      BY <1>2, <3>1
    <3> QED BY <2>1, <3>2 DEF CountInv
  <2> QED BY <1>2, <2>2, <2>3, <2>4
<1>8. MeaningInv'
  <2>1. CASE count > DigitsWrap - 1
    BY <1>1, <1>2, <2>1 DEF MeaningInv, Meaning
  <2>2. CASE count = 0
    <3>1. digits = 0 /\ Len(typed) = 0 /\ typed = <<>>
      BY <1>2, <2>2, Sizes DEF Inv, CountInv
    <3>2. Value(typed) * Base = 0
      BY <3>1, ValueEmpty, Sizes
    <3>3. argument' = Value(typed')
      BY <1>1, <1>3, <3>1, <3>2
    <3>4. count' = 1 /\ 1 \in 1..DigitsWrap
      BY <1>1, <1>2, <2>2, Sizes
    <3> QED BY <3>3, <3>4 DEF MeaningInv, Meaning
  <2>3. CASE count \in 1..(DigitsWrap - 1)
    <3>1. digits = count /\ digits # 0 /\ count \in 1..DigitsWrap /\ count # 0
      BY <1>2, <2>3 DEF Inv, CountInv
    <3>2. argument = Value(typed)
      BY <1>1, <3>1 DEF Inv, MeaningInv, Meaning
    <3>3. argument' = Value(typed')
      BY <1>1, <1>3, <3>1, <3>2
    <3>4. count' \in 1..DigitsWrap /\ count' # 0
      BY <1>1, <1>2, <2>3
    <3> QED BY <3>3, <3>4 DEF MeaningInv, Meaning
  <2> QED BY <1>2, <2>1, <2>2, <2>3
<1>9. SendInv'
  BY <1>1 DEF Inv, SendInv
<1>10. TypeOK'
  <2>1. \A k \in DOMAIN rx' : rx'[k] \in Chars(DigitSet)
    BY <1>6, RxType
  <2>2. Len(typed') <= WordDigits
    BY <1>2, <1>3
  <2> QED BY <1>1, <1>4, <1>5, <2>1, <2>2, TypeIs, Sizes DEF Inv, TypeOK
<1>11. number' \in Values
  BY <1>1, Sizes DEF Values
<1> QED BY <1>3, <1>6, <1>7, <1>8, <1>9, <1>10, <1>11 DEF Inv

(* A letter that is no R: its number is kept.                              *)
LEMMA SettingInv ==
  ASSUME Inv, Setting
  PROVE  Inv'
<1>1. /\ pc = "loop" /\ pc' = "loop" /\ rx # <<>> /\ rx' = Tail(rx) /\ number' = Meaning
      /\ digits' = 0 /\ typed' = <<>> /\ count' = 0
      /\ UNCHANGED <<argument, iii, PORTB, shift, latched, word, due>>
      /\ echo' \in BOOLEAN /\ verbose' \in BOOLEAN
  BY DEF Setting, Read, Take, EndNumber, line, chip, Inv, TypeOK
<1>2. argument = Meaning /\ argument \in Values
  BY <1>1, TypeIs DEF Inv, MeaningInv
<1>3. rx' \in Seq(Chars(DigitSet)) /\ typed' \in Seq(DigitSet) /\ number' \in Values /\ Len(typed') = 0
  BY <1>1, <1>2 DEF Inv
<1>4. CountInv' /\ MeaningInv'
  BY <1>1, <1>2, <1>3, Sizes DEF CountInv, MeaningInv, Meaning
<1>5. SendInv'
  BY <1>1 DEF Inv, SendInv
<1>6. TypeOK'
  <2>1. \A k \in DOMAIN rx' : rx'[k] \in Chars(DigitSet)
    BY <1>3, RxType
  <2>2. count' \in 0..(DigitsWrap + 1) /\ Len(typed') <= WordDigits /\ digits' \in 0..(DigitsWrap - 1)
    BY <1>1, <1>3, Sizes
  <2> QED BY <1>1, <2>1, <2>2, Sizes DEF Inv, TypeOK
<1> QED BY <1>3, <1>4, <1>5, <1>6 DEF Inv

(* A character that does nothing.                                          *)
LEMMA BlankInv ==
  ASSUME Inv, Blank
  PROVE  Inv'
<1>1. /\ rx # <<>> /\ rx' = Tail(rx)
      /\ UNCHANGED <<pc, argument, digits, echo, verbose, iii, PORTB, shift, latched, typed, count,
                     number, word, due>>
  BY DEF Blank, Read, Take, line, chip, history
<1>2. rx' \in Seq(Chars(DigitSet))
  BY <1>1 DEF Inv
<1>3. \A k \in DOMAIN rx' : rx'[k] \in Chars(DigitSet)
  BY <1>2, RxType
<1>4. TypeOK'
  BY <1>1, <1>3, Sizes DEF Inv, TypeOK
<1> QED BY <1>1, <1>2, <1>4 DEF Inv, CountInv, MeaningInv, Meaning, SendInv, Sent

(* The host only adds characters.                                          *)
LEMMA HostInv ==
  ASSUME Inv, rx' \in Seq(Chars(DigitSet)),
         UNCHANGED <<pc, argument, digits, line, iii, chip, history, word>>
  PROVE  Inv'
<1>1. UNCHANGED <<pc, argument, digits, echo, verbose, iii, PORTB, shift, latched, typed, count,
                  number, word>>
  BY DEF line, chip, history
<1>2. \A k \in DOMAIN rx' : rx'[k] \in Chars(DigitSet)
  BY RxType
<1>3. TypeOK'
  BY <1>1, <1>2, Sizes DEF Inv, TypeOK
<1> QED BY <1>1, <1>3 DEF Inv, CountInv, MeaningInv, Meaning, SendInv, Sent

(* R hands the word over, no bit of it is on the wires yet.                *)
LEMMA RegisterInv ==
  ASSUME Inv, set_register
  PROVE  Inv'
<1>1. /\ pc = "loop" /\ pc' = "data" /\ rx # <<>> /\ rx' = Tail(rx) /\ number' = 0 /\ word' = Meaning
      /\ digits' = 0 /\ typed' = <<>> /\ count' = 0 /\ iii' = Width
      /\ UNCHANGED <<argument, echo, verbose, due>>
      /\ Drive([PORTB EXCEPT !.LE = 0, !.CLK = 0])
  BY DEF set_register, Read, Take, EndNumber, line
<1>2. PORTB = Low
  BY <1>1 DEF Inv, SendInv
<1>3. /\ PORTB' \in [DATA : {0, 1}, LE : {0, 1}, CLK : {0, 1}]
      /\ PORTB'.LE = 0 /\ PORTB'.CLK = 0 /\ shift' = shift /\ latched' = latched
  <2> DEFINE w == [PORTB EXCEPT !.LE = 0, !.CLK = 0]
  <2>1. PORTB \in [DATA : {0, 1}, LE : {0, 1}, CLK : {0, 1}] /\ PORTB.LE = 0 /\ PORTB.CLK = 0
    BY <1>2 DEF Low
  <2>2. w \in [DATA : {0, 1}, LE : {0, 1}, CLK : {0, 1}] /\ w.LE = 0 /\ w.CLK = 0
    BY <2>1
  <2> HIDE DEF w
  <2>3. PORTB' = w /\ shift' = shift /\ latched' = latched
    BY <1>1, <2>1, <2>2 DEF Drive, w
  <2> QED BY <2>2, <2>3
<1>4. argument = Meaning /\ argument \in Values /\ shift \in Values
  BY <1>1, TypeIs DEF Inv, MeaningInv
<1>5. /\ rx' \in Seq(Chars(DigitSet)) /\ typed' \in Seq(DigitSet) /\ number' \in Values
      /\ Len(typed') = 0 /\ word' \in Values
  BY <1>1, <1>4, Sizes DEF Inv, Values
<1>6. CountInv' /\ MeaningInv'
  BY <1>1, <1>5, Sizes DEF CountInv, MeaningInv
<1>7. SendInv'
  <2>1. SentOf(word', argument', shift', 0)
    BY <1>1, <1>3, <1>4, NothingSent, ArgumentType
  <2>2. Width - iii' = 0
    BY <1>1, Sizes
  <2> QED BY <1>1, <1>3, <1>5, <2>1, <2>2 DEF SendInv, Sent, Low
<1>8. TypeOK'
  <2>1. \A k \in DOMAIN rx' : rx'[k] \in Chars(DigitSet)
    BY <1>5, RxType
  <2>2. /\ count' \in 0..(DigitsWrap + 1) /\ Len(typed') <= WordDigits /\ digits' \in 0..(DigitsWrap - 1)
        /\ iii' \in 0..Width /\ pc' \in {"loop", "data", "clk", "shift", "le"}
    BY <1>1, <1>5, Sizes
  <2> QED BY <1>1, <1>2, <1>3, <2>1, <2>2, Sizes DEF Inv, TypeOK
<1> QED BY <1>5, <1>6, <1>7, <1>8 DEF Inv

(* The wires while a word is sent.                                         *)
LEMMA WiresType ==
  ASSUME NEW w \in [DATA : {0, 1}, LE : {0, 1}, CLK : {0, 1}], NEW d \in {0, 1}
  PROVE  /\ [w EXCEPT !.DATA = d] \in [DATA : {0, 1}, LE : {0, 1}, CLK : {0, 1}]
         /\ [w EXCEPT !.LE = d] \in [DATA : {0, 1}, LE : {0, 1}, CLK : {0, 1}]
         /\ [w EXCEPT !.CLK = d] \in [DATA : {0, 1}, LE : {0, 1}, CLK : {0, 1}]
         /\ [w EXCEPT !.DATA = d].DATA = d /\ [w EXCEPT !.DATA = d].LE = w.LE
         /\ [w EXCEPT !.DATA = d].CLK = w.CLK
         /\ [w EXCEPT !.LE = d].LE = d /\ [w EXCEPT !.LE = d].CLK = w.CLK
         /\ [w EXCEPT !.LE = d].DATA = w.DATA
         /\ [w EXCEPT !.CLK = d].CLK = d /\ [w EXCEPT !.CLK = d].LE = w.LE
         /\ [w EXCEPT !.CLK = d].DATA = w.DATA
OBVIOUS

(* What a step in the middle of a word leaves alone.                       *)
Quiet == UNCHANGED <<digits, echo, verbose, rx, typed, count, number, word>>

(* ... and what is left to show of it.                                     *)
LEMMA QuietInv ==
  ASSUME Inv, Quiet, pc # "loop", pc' \in {"loop", "data", "clk", "shift", "le"},
         argument' \in Values, iii' \in 0..Width, shift' \in Values, latched' \in Values \cup {None},
         PORTB' \in [DATA : {0, 1}, LE : {0, 1}, CLK : {0, 1}],
         MeaningInv', SendInv'
  PROVE  Inv'
<1>1. TypeOK'
  BY Sizes DEF Inv, TypeOK, Quiet
<1> QED BY <1>1 DEF Inv, Quiet, CountInv

(* The top bit of the argument goes to the wire.                           *)
LEMMA DataBitInv ==
  ASSUME Inv, DataBit
  PROVE  Inv'
<1> DEFINE d == argument \div Pow(Width - 1)
           w == [PORTB EXCEPT !.DATA = d]
<1>1. /\ pc = "data" /\ pc' = "clk" /\ iii > 0 /\ Quiet /\ UNCHANGED <<argument, iii>> /\ Drive(w)
      /\ word' = word
  BY Sizes, Zenon DEF DataBit, Quiet, line, history
<1>2. /\ PORTB \in [DATA : {0, 1}, LE : {0, 1}, CLK : {0, 1}] /\ PORTB.LE = 0 /\ PORTB.CLK = 0
      /\ Sent(Width - iii) /\ word \in Values /\ argument \in Values /\ shift \in Values
      /\ iii \in 0..Width /\ latched \in Values \cup {None} /\ count = 0 /\ number = 0
  BY <1>1, TypeIs DEF Inv, SendInv
<1>3. d \in {0, 1}
  <2>1. Width - iii \in Nat /\ Width - iii < Width
    BY <1>1, <1>2, Sizes
  <2>2. word \in Nat /\ argument \in Nat /\ shift \in Nat
    BY <1>2, ArgumentType
  <2> QED BY <1>2, <2>1, <2>2, NextBit, Zenon DEF Sent
<1>4. /\ w \in [DATA : {0, 1}, LE : {0, 1}, CLK : {0, 1}] /\ w.DATA = d
      /\ w.LE = 0 /\ w.CLK = 0
  BY <1>2, <1>3, WiresType
<1> HIDE DEF d, w
<1>5. PORTB' = w /\ shift' = shift /\ latched' = latched
  BY <1>1, <1>2, <1>4 DEF Drive
<1>6. SendInv'
  BY <1>1, <1>2, <1>4, <1>5 DEF SendInv, Sent, Quiet, d
<1> QED BY <1>1, <1>2, <1>4, <1>5, <1>6, QuietInv DEF MeaningInv

(* The chip takes it, the argument moves up.                               *)
LEMMA ClkHighInv ==
  ASSUME Inv, ClkHigh
  PROVE  Inv'
<1> DEFINE w == [PORTB EXCEPT !.CLK = 1]
           d == argument \div Pow(Width - 1)
<1>1. /\ pc = "clk" /\ pc' = "shift" /\ Quiet /\ iii' = iii - 1 /\ Drive(w)
      /\ argument' = (2 * argument) % Pow(Width) /\ word' = word
  BY Sizes, Zenon DEF ClkHigh, Quiet, line, history
<1>2. /\ PORTB \in [DATA : {0, 1}, LE : {0, 1}, CLK : {0, 1}] /\ PORTB.LE = 0 /\ PORTB.CLK = 0
      /\ PORTB.DATA = d /\ iii > 0
      /\ Sent(Width - iii) /\ word \in Values /\ argument \in Values /\ shift \in Values
      /\ iii \in 0..Width /\ latched \in Values \cup {None} /\ count = 0 /\ number = 0
  BY <1>1, TypeIs DEF Inv, SendInv
<1>3. d \in {0, 1} /\ SentOf(word, (2 * argument) % Pow(Width), (2 * shift + d) % Pow(Width), Width - iii + 1)
  <2>1. Width - iii \in Nat /\ Width - iii < Width
    BY <1>2, Sizes
  <2>2. word \in Nat /\ argument \in Nat /\ shift \in Nat
    BY <1>2, ArgumentType
  <2> QED BY <1>2, <2>1, <2>2, NextBit, Zenon DEF Sent
<1>4. /\ w \in [DATA : {0, 1}, LE : {0, 1}, CLK : {0, 1}] /\ w.DATA = d
      /\ w.LE = 0 /\ w.CLK = 1
  BY <1>2, WiresType
<1> HIDE DEF d, w
<1>5. PORTB' = w /\ shift' = (2 * shift + d) % Pow(Width) /\ latched' = latched
  BY <1>1, <1>2, <1>4, Sizes DEF Drive
<1>6. Width - iii' = Width - iii + 1 /\ iii' \in 0..Width
  BY <1>1, <1>2, Sizes
<1>7. SendInv'
  BY <1>1, <1>2, <1>3, <1>4, <1>5, <1>6 DEF SendInv, Sent, Quiet
<1>8. argument' \in Values /\ shift' \in Values
  BY <1>1, <1>2, <1>3, <1>5, ArgumentType
<1> QED BY <1>1, <1>2, <1>4, <1>5, <1>6, <1>7, <1>8, QuietInv DEF MeaningInv

(* CLK falls.                                                              *)
LEMMA ClkLowInv ==
  ASSUME Inv, ClkLow
  PROVE  Inv'
<1> DEFINE w == [PORTB EXCEPT !.CLK = 0]
<1>1. /\ pc = "shift" /\ pc' = "data" /\ Quiet /\ UNCHANGED <<argument, iii>> /\ Drive(w) /\ word' = word
  BY DEF ClkLow, Quiet, line, history
<1>2. /\ PORTB \in [DATA : {0, 1}, LE : {0, 1}, CLK : {0, 1}] /\ PORTB.LE = 0 /\ PORTB.CLK = 1
      /\ Sent(Width - iii) /\ word \in Values /\ argument \in Values /\ shift \in Values
      /\ iii \in 0..Width /\ latched \in Values \cup {None} /\ count = 0 /\ number = 0
  BY <1>1, TypeIs DEF Inv, SendInv
<1>3. w \in [DATA : {0, 1}, LE : {0, 1}, CLK : {0, 1}] /\ w.LE = 0 /\ w.CLK = 0
  BY <1>2, WiresType
<1> HIDE DEF w
<1>4. PORTB' = w /\ shift' = shift /\ latched' = latched
  BY <1>1, <1>2, <1>3 DEF Drive
<1>5. SendInv'
  BY <1>1, <1>2, <1>3, <1>4 DEF SendInv, Sent, Quiet
<1> QED BY <1>1, <1>2, <1>3, <1>4, <1>5, QuietInv DEF MeaningInv

(* With all bits sent the chip latches the word.                           *)
LEMMA LatchesWord ==
  ASSUME Inv, LeHigh
  PROVE  latched' = word /\ shift' = shift /\ argument = 0 /\ word \in Values
<1> DEFINE w == [PORTB EXCEPT !.LE = 1]
<1>1. pc = "data" /\ iii = 0 /\ Drive(w)
  BY DEF LeHigh
<1>2. /\ PORTB \in [DATA : {0, 1}, LE : {0, 1}, CLK : {0, 1}] /\ PORTB.LE = 0 /\ PORTB.CLK = 0
      /\ Sent(Width - iii) /\ word \in Values /\ argument \in Values /\ shift \in Values
  BY <1>1, TypeIs DEF Inv, SendInv
<1>3. shift = word /\ argument = 0
  <2>1. SentOf(word, argument, shift, Width)
    BY <1>1, <1>2, Sizes DEF Sent
  <2> QED BY <1>2, <2>1, AllSent, ArgumentType
<1>4. w.LE = 1 /\ w.CLK = 0
  BY <1>2, WiresType
<1> HIDE DEF w
<1> QED BY <1>1, <1>2, <1>3, <1>4 DEF Drive

(* LE rises.                                                               *)
LEMMA LeHighInv ==
  ASSUME Inv, LeHigh
  PROVE  Inv'
<1> DEFINE w == [PORTB EXCEPT !.LE = 1]
<1>1. /\ pc = "data" /\ pc' = "le" /\ Quiet /\ UNCHANGED <<argument, iii>> /\ Drive(w) /\ word' = word
  BY DEF LeHigh, Quiet, line, history
<1>2. /\ PORTB \in [DATA : {0, 1}, LE : {0, 1}, CLK : {0, 1}] /\ PORTB.CLK = 0 /\ argument \in Values
      /\ iii \in 0..Width /\ shift \in Values /\ count = 0 /\ number = 0
  BY <1>1, TypeIs DEF Inv, SendInv
<1>3. latched' = word /\ shift' = shift /\ argument = 0 /\ word \in Values
  BY LatchesWord
<1>4. w \in [DATA : {0, 1}, LE : {0, 1}, CLK : {0, 1}] /\ w.CLK = 0 /\ PORTB' = w
  BY <1>1, <1>2, WiresType DEF Drive
<1> HIDE DEF w
<1>5. SendInv'
  BY <1>1, <1>2, <1>3, <1>4 DEF SendInv, Quiet
<1> QED BY <1>1, <1>2, <1>3, <1>4, <1>5, QuietInv DEF MeaningInv

(* LE falls, the call returns.                                             *)
LEMMA LeLowInv ==
  ASSUME Inv, LeLow
  PROVE  Inv'
<1>1. /\ pc = "le" /\ pc' = "loop" /\ word' = None /\ Drive(Low)
      /\ UNCHANGED <<argument, iii, digits, echo, verbose, rx, typed, count, number>>
  BY DEF LeLow, line, history
<1>2. PORTB' = Low /\ shift' = shift /\ latched' = latched
  BY <1>1 DEF Drive, Low
<1>3. argument = 0 /\ number = 0 /\ count = 0
  BY <1>1 DEF Inv, SendInv
<1>4. Low \in [DATA : {0, 1}, LE : {0, 1}, CLK : {0, 1}]
  BY DEF Low
<1>5. TypeOK'
  BY <1>1, <1>2, <1>4, Sizes DEF Inv, TypeOK
<1>6. MeaningInv'
  BY <1>1, <1>3 DEF MeaningInv, Meaning
<1>7. SendInv'
  BY <1>1, <1>2 DEF SendInv
<1> QED BY <1>1, <1>5, <1>6, <1>7 DEF Inv, CountInv

(* What the driver sends are characters.                                   *)
LEMMA CommandType ==
  ASSUME NEW w \in Words
  PROVE  Command(w) \in Seq(Chars(DigitSet))
<1>1. w \in Nat
  BY DataAssumption, Sizes DEF Values
<1>2. ASSUME NEW k \in 1..(WordDigits + 1), ~(k > WordDigits)
      PROVE  (w \div 2^(DIGIT_BITS * (WordDigits - k))) % 2^DIGIT_BITS \in DigitSet
  <2> DEFINE n == DIGIT_BITS * (WordDigits - k)
             p == Pow(n)
  <2>1. n \in Nat
    <3>1. WordDigits - k \in Nat /\ DIGIT_BITS \in Nat
      BY <1>2, Sizes, SizeAssumption
    <3> QED BY <3>1
  <2>2. p \in Nat /\ p > 0 /\ 2^n = p
    BY <2>1, PowType, PowPositive DEF Pow
  <2> HIDE DEF n, p
  <2>3. w \div p \in Nat
    BY <1>1, <2>2
  <2>4. (w \div p) % Base \in DigitSet
    BY <2>3, Sizes DEF DigitSet
  <2> QED BY <2>2, <2>4, Sizes DEF n
<1>3. <<"R", 0>> \in Chars(DigitSet)
  BY DEF Chars, Letters
<1>4. \A d \in DigitSet : <<"digit", d>> \in Chars(DigitSet)
  BY DEF Chars
<1>5. \A k \in 1..(WordDigits + 1) :
        (IF k > WordDigits THEN <<"R", 0>>
         ELSE <<"digit", (w \div 2^(DIGIT_BITS * (WordDigits - k))) % 2^DIGIT_BITS>>) \in Chars(DigitSet)
  BY <1>2, <1>3, <1>4, Zenon
<1>6. Command(w) \in [1..(WordDigits + 1) -> Chars(DigitSet)]
  BY <1>5, Zenon DEF Command
<1>7. WordDigits + 1 \in Nat
  BY Sizes
<1> QED BY <1>6, <1>7

(* Every step keeps the invariant.                                         *)
LEMMA NextInv == Inv /\ [Next]_vars => Inv'
<1> SUFFICES ASSUME Inv, [Next]_vars PROVE Inv'
  OBVIOUS
<1>1. CASE \E d \in 0..(2^DIGIT_BITS - 1) : Digit(d)
  BY <1>1, DigitInv, Sizes
<1>2. CASE Setting
  BY <1>2, SettingInv
<1>3. CASE Blank
  BY <1>3, BlankInv
<1>4. CASE set_register
  BY <1>4, RegisterInv
<1>5. CASE DataBit
  BY <1>5, DataBitInv
<1>6. CASE ClkHigh
  BY <1>6, ClkHighInv
<1>7. CASE ClkLow
  BY <1>7, ClkLowInv
<1>8. CASE LeHigh
  BY <1>8, LeHighInv
<1>9. CASE LeLow
  BY <1>9, LeLowInv
<1>10. CASE Type
  <2>1. PICK c \in Chars(Digits) : rx' = Append(rx, c)
    BY <1>10 DEF Type
  <2>2. c \in Chars(DigitSet)
    BY DataAssumption, Sizes DEF Chars
  <2>3. rx' \in Seq(Chars(DigitSet))
    BY <2>1, <2>2 DEF Inv
  <2> QED BY <1>10, <2>3, HostInv DEF Type
<1>11. CASE set_regs
  <2>1. PICK w \in Words : rx' = rx \o Command(w)
    BY <1>11 DEF set_regs
  <2>2. rx' \in Seq(Chars(DigitSet))
    BY <2>1, CommandType DEF Inv
  <2> QED BY <1>11, <2>2, HostInv DEF set_regs
<1>12. CASE UNCHANGED vars
  <2>1. UNCHANGED <<pc, argument, digits, line, iii, chip, history, word, rx>>
    BY <1>12 DEF vars
  <2> QED BY <2>1, HostInv DEF Inv
<1> QED
  BY <1>1, <1>2, <1>3, <1>4, <1>5, <1>6, <1>7, <1>8, <1>9, <1>10, <1>11, <1>12 DEF Next, loop

(* It holds always.                                                        *)
LEMMA AlwaysInv == Spec => []Inv
BY InitInv, NextInv, PTL DEF Spec

(* The argument keeps to its bits and the counter to its byte, for digits  *)
(* and registers of any size, whatever is typed (tinyADF.ino:39, 59,       *)
(* 131-142).                                                               *)
THEOREM TypesHold == Spec => []TypeOK
<1>1. Inv => TypeOK
  BY DEF Inv
<1> QED BY <1>1, AlwaysInv, PTL

(* The characters before an R and the bits behind it are one atomic write  *)
(* of what was typed: of the last digits there is room for, of fewer, or   *)
(* of the number kept from the command before (tinyADF.ino:58-109,         *)
(* 125-146).                                                               *)
THEOREM TinyAdfImplements == Spec => Implements
<1>1. Init => Abstract!Init
  BY DEF Init, Abstract!Init
<1>2. ASSUME Inv, [Next]_vars
      PROVE  [Abstract!Next]_(Abstract!vars)
  <2>1. CASE (\E d \in 0..(2^DIGIT_BITS - 1) : Digit(d)) \/ Setting \/ Blank \/ Type \/ set_regs
    BY <2>1 DEF Digit, Setting, Blank, Type, set_regs, chip, Abstract!vars
  <2>2. CASE DataBit \/ ClkHigh \/ ClkLow
    <3>1. word' = word
      BY <2>2 DEF DataBit, ClkHigh, ClkLow
    <3>2. PORTB.LE = 0 /\ PORTB \in [DATA : {0, 1}, LE : {0, 1}, CLK : {0, 1}]
      BY <1>2, <2>2 DEF Inv, SendInv, TypeOK, DataBit, ClkHigh, ClkLow
    <3>3. latched' = latched
      BY <2>2, <3>2 DEF DataBit, ClkHigh, ClkLow, Drive
    <3> QED BY <3>1, <3>3 DEF Abstract!vars
  <2>3. CASE set_register
    <3>1. pc = "loop" /\ word' = Meaning /\ Drive([PORTB EXCEPT !.LE = 0, !.CLK = 0])
      BY <2>3 DEF set_register, Read, Take
    <3>2. word = None /\ word' = argument /\ argument \in Values /\ PORTB = Low
      BY <1>2, <3>1, TypeIs DEF Inv, MeaningInv, SendInv
    <3>3. latched' = latched
      BY <3>1, <3>2 DEF Drive, Low
    <3> QED BY <3>2, <3>3, Sizes DEF Abstract!Next, Abstract!Call
  <2>4. CASE LeHigh
    <3>1. latched' = word /\ word \in Values
      BY <1>2, <2>4, LatchesWord
    <3>2. word # None /\ word' = word
      BY <2>4, <3>1, ArgumentType DEF LeHigh
    <3> QED BY <3>1, <3>2 DEF Abstract!Next, Abstract!Latch
  <2>5. CASE LeLow
    <3>1. word \in Values /\ latched = word
      BY <1>2, <2>5 DEF Inv, SendInv, LeLow
    <3>2. word' = None /\ latched' = latched
      BY <2>5 DEF LeLow, Drive, Low
    <3> QED BY <3>1, <3>2, ArgumentType DEF Abstract!Next, Abstract!Return
  <2>6. CASE UNCHANGED vars
    BY <2>6 DEF vars, chip, Abstract!vars
  <2> QED BY <1>2, <2>1, <2>2, <2>3, <2>4, <2>5, <2>6 DEF Next, loop
<1> QED
  BY <1>1, <1>2, AlwaysInv, PTL DEF Spec, Implements, Abstract!Spec
=============================================================================
