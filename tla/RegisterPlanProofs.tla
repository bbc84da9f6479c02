-------------------------- MODULE RegisterPlanProofs --------------------------
(***************************************************************************)
(* For every set of requests the words of the three programs tune the chip *)
(* to the frequency asked for up to a step of the modulus, the divider     *)
(* brings the VCO into its range, and no value runs into its neighbours:   *)
(* the arithmetic of the fraction and its reduction, the way the chip      *)
(* reads the bit fields back, and at the end the invariant of the steps    *)
(* between request and words.  What gcd computes is proved for every pair  *)
(* of numbers, by looking at a least counterexample.                       *)
(***************************************************************************)
EXTENDS RegisterPlan, FiniteSetTheorems, WellFoundedInduction, TLAPS

(***************************************************************************)
(* Numbers                                                                 *)
(***************************************************************************)
(* A set of natural numbers that is not empty has a least member: the way  *)
(* the proofs here do without an induction over data.                      *)
LEMMA Least ==
  ASSUME NEW T \in SUBSET Nat, T # {}
  PROVE  \E m \in T : \A k \in T : m <= k
<1>1. IsWellFoundedOn(OpToRel(<, Nat), Nat)
  BY NatLessThanWellFounded
<1>2. PICK m \in T : \A k \in T : ~(<<k, m>> \in OpToRel(<, Nat))
  BY <1>1, WFMin
<1>3. \A k \in T : ~(k < m)
  BY <1>2 DEF OpToRel
<1> QED
  BY <1>3

(* The common divisors of two numbers, the largest of a set, and what gcd  *)
(* is to compute.                                                          *)
Common(a, b) == {d \in Nat \ {0} : a % d = 0 /\ b % d = 0}
Greatest(S) == CHOOSE g \in S : \A d \in S : d <= g
Hcf == [p \in Nat \X Nat |->
         IF p[1] = 0 THEN p[2] ELSE IF p[2] = 0 THEN p[1] ELSE Greatest(Common(p[1], p[2]))]

(* Division with remainder.                                                *)
LEMMA Division ==
  ASSUME NEW p \in Nat, p > 0, NEW a \in Nat
  PROVE  /\ a \div p \in Nat /\ a % p \in Nat /\ a % p < p /\ a % p <= a
         /\ a = p * (a \div p) + (a % p)
<1>1. a \div p \in Int /\ a % p \in Nat /\ a % p < p
  OBVIOUS
<1>2. a = p * (a \div p) + (a % p)
  OBVIOUS
<1>3. a \div p \in Nat
  OBVIOUS
<1>4. p * (a \div p) >= 0
  BY <1>3
<1> QED
  BY <1>1, <1>2, <1>3, <1>4

(* A quotient and a remainder are the only ones.                           *)
LEMMA Quotient ==
  ASSUME NEW p \in Nat, p > 0, NEW q \in Nat, NEW r \in Nat, r < p
  PROVE  (p * q + r) \div p = q /\ (p * q + r) % p = r
OBVIOUS

(* A multiple of d leaves no remainder.                                    *)
LEMMA Multiple ==
  ASSUME NEW d \in Nat \ {0}, NEW m \in Nat
  PROVE  (d * m) % d = 0 /\ (d * m) \div d = m
<1>1. d * m = d * m + 0 /\ d * m \in Nat
  OBVIOUS
<1> QED BY <1>1, Quotient

(* A divisor of b divides a if it divides a modulo b.                      *)
LEMMA DividesMod ==
  ASSUME NEW a \in Nat, NEW b \in Nat \ {0}, NEW d \in Nat \ {0}, b % d = 0
  PROVE  a % d = 0 <=> (a % b) % d = 0
<1> DEFINE m == b \div d
           q == a \div b
           r == a % b
           s == r \div d
           t == r % d
<1>1. m \in Nat /\ b = d * m /\ q \in Nat /\ r \in Nat /\ a = b * q + r
  BY Division
<1>2. s \in Nat /\ t \in Nat /\ t < d /\ r = d * s + t
  BY <1>1, Division
<1> HIDE DEF m, q, s, t
<1>3. a = d * (m * q + s) + t /\ m * q + s \in Nat
  <2> HIDE DEF r
  <2>1. b * q = d * (m * q) /\ m * q \in Nat
    BY <1>1
  <2>2. d * (m * q + s) = d * (m * q) + d * s
    BY <1>1, <1>2, <2>1
  <2> QED BY <1>1, <1>2, <2>1, <2>2
<1>4. a % d = t
  <2> DEFINE x == m * q + s
  <2>1. x \in Nat /\ a = d * x + t /\ t \in Nat /\ t < d
    BY <1>2, <1>3
  <2> HIDE DEF x
  <2> QED BY <2>1, Quotient
<1> QED
  BY <1>4 DEF t

(* Euclid: the remainder has the same common divisors.                     *)
LEMMA CommonMod ==
  ASSUME NEW a \in Nat \ {0}, NEW b \in Nat \ {0}
  PROVE  Common(a, b) = Common(a % b, b) /\ Common(a, b) = Common(a, b % a)
         /\ a % b \in Nat /\ b % a \in Nat
<1>1. a % b \in Nat /\ b % a \in Nat
  BY Division
<1>2. \A d \in Nat \ {0} : b % d = 0 => (a % d = 0 <=> (a % b) % d = 0)
  BY DividesMod
<1>3. \A d \in Nat \ {0} : a % d = 0 => (b % d = 0 <=> (b % a) % d = 0)
  BY DividesMod
<1> QED
  BY <1>1, <1>2, <1>3 DEF Common

(* Every common divisor with zero divides the other number, the largest    *)
(* is that number.                                                         *)
LEMMA GreatestZero ==
  ASSUME NEW b \in Nat \ {0}
  PROVE  Greatest(Common(0, b)) = b /\ Greatest(Common(b, 0)) = b
<1>1. b \in Common(0, b)
  <2>1. b = b * 1 /\ 0 = b * 0
    OBVIOUS
  <2> QED BY <2>1, Multiple DEF Common
<1>2. \A d \in Common(0, b) : d \in Nat /\ d <= b
  <2> SUFFICES ASSUME NEW d \in Nat \ {0}, b % d = 0 PROVE d <= b
    BY DEF Common
  <2> DEFINE m == b \div d
  <2>1. m \in Nat /\ b = d * m
    BY Division
  <2> HIDE DEF m
  <2>2. m >= 1
    BY <2>1
  <2>3. d * m >= d
    BY <2>1, <2>2
  <2> QED BY <2>1, <2>3
<1>3. Common(b, 0) = Common(0, b)
  BY DEF Common
<1>4. \E g \in Common(0, b) : \A d \in Common(0, b) : d <= g
  BY <1>1, <1>2
<1> DEFINE g == Greatest(Common(0, b))
<1>5. g \in Common(0, b) /\ \A d \in Common(0, b) : d <= g
  BY <1>4 DEF Greatest
<1>6. g = b
  BY <1>1, <1>2, <1>5
<1> QED
  BY <1>3, <1>6

(* The recursive gcd of core.py is defined for every pair: the largest     *)
(* common divisor is a function that satisfies its equation.               *)
LEMMA GcdDef ==
  \A a, b \in Nat : gcd[<<a, b>>] = IF a = 0 THEN b ELSE IF b = 0 THEN a
                                  ELSE IF a > b THEN gcd[<<a % b, b>>] ELSE gcd[<<a, b % a>>]
<1> DEFINE F(g) == [p \in Nat \X Nat |->
                      IF p[1] = 0 THEN p[2] ELSE IF p[2] = 0 THEN p[1]
                      ELSE IF p[1] > p[2] THEN g[<<p[1] % p[2], p[2]>>]
                      ELSE g[<<p[1], p[2] % p[1]>>]]
<1>1. ASSUME NEW a \in Nat, NEW b \in Nat
      PROVE  Hcf[<<a, b>>] = IF a = 0 THEN b ELSE IF b = 0 THEN a
                                  ELSE IF a > b THEN Hcf[<<a % b, b>>] ELSE Hcf[<<a, b % a>>]
  <2>1. ASSUME a # 0, b # 0
        PROVE  Hcf[<<a, b>>] = Hcf[<<a % b, b>>] /\ Hcf[<<a, b>>] = Hcf[<<a, b % a>>]
    <3>1. Hcf[<<a, b>>] = Greatest(Common(a, b))
      BY <2>1 DEF Hcf
    <3>2. \A x \in Nat : Hcf[<<x, b>>] = Greatest(Common(x, b))
      BY <2>1, GreatestZero DEF Hcf
    <3>3. \A x \in Nat : Hcf[<<a, x>>] = Greatest(Common(a, x))
      BY <2>1, GreatestZero DEF Hcf
    <3> QED BY <2>1, <3>1, <3>2, <3>3, CommonMod
  <2> QED BY <2>1 DEF Hcf
<1>2. Hcf = F(Hcf)
  <2>1. ASSUME NEW p \in Nat \X Nat PROVE Hcf[p] = F(Hcf)[p]
    <3>1. p[1] \in Nat /\ p[2] \in Nat /\ p = <<p[1], p[2]>>
      OBVIOUS
    <3>2. Hcf[<<p[1], p[2]>>] = F(Hcf)[p]
      BY <1>1, <3>1
    <3> QED BY <3>1, <3>2
  <2> QED BY <2>1 DEF Hcf
<1>3. gcd = F(gcd)
  <2>1. gcd = CHOOSE g : g = F(g)
    BY DEF gcd
  <2> QED BY <1>2, <2>1
<1>4. ASSUME NEW a \in Nat, NEW b \in Nat
      PROVE  gcd[<<a, b>>] = IF a = 0 THEN b ELSE IF b = 0 THEN a
                         ELSE IF a > b THEN gcd[<<a % b, b>>] ELSE gcd[<<a, b % a>>]
  <2>1. gcd[<<a, b>>] = F(gcd)[<<a, b>>]
    BY <1>3
  <2> QED BY <2>1
<1> QED
  BY <1>4

(* It divides both: there is no pair with a least sum for which it does    *)
(* not.                                                                    *)
LEMMA GcdDivides ==
  ASSUME NEW a \in Nat, NEW b \in Nat, a + b > 0
  PROVE  gcd[<<a, b>>] \in Common(a, b)
<1> DEFINE Pairs == {p \in Nat \X Nat : p[1] + p[2] > 0 /\ gcd[p] \notin Common(p[1], p[2])}
           Sums == {p[1] + p[2] : p \in Pairs}
<1> SUFFICES ASSUME Pairs # {} PROVE FALSE
  <2>1. <<a, b>> \notin Pairs => gcd[<<a, b>>] \in Common(a, b)
    OBVIOUS
  <2> QED BY <2>1
<1>1. PICK s \in Sums : \A k \in Sums : s <= k
  <2>1. Sums \in SUBSET Nat /\ Sums # {}
    OBVIOUS
  <2> HIDE DEF Sums
  <2> QED BY <2>1, Least
<1>2. PICK x \in Nat, y \in Nat : x + y = s /\ x + y > 0 /\ gcd[<<x, y>>] \notin Common(x, y)
  <2>1. PICK p \in Pairs : s = p[1] + p[2]
    OBVIOUS
  <2>2. p = <<p[1], p[2]>> /\ p[1] \in Nat /\ p[2] \in Nat
    OBVIOUS
  <2> QED BY <2>1, <2>2
<1>3. \A u, v \in Nat : u + v < s /\ u + v > 0 => gcd[<<u, v>>] \in Common(u, v)
  <2> SUFFICES ASSUME NEW u \in Nat, NEW v \in Nat, u + v < s, u + v > 0,
                      gcd[<<u, v>>] \notin Common(u, v)
               PROVE FALSE
    OBVIOUS
  <2>1. <<u, v>> \in Pairs
    OBVIOUS
  <2>2. <<u, v>>[1] + <<u, v>>[2] \in Sums
    BY <2>1
  <2>3. u + v \in Sums /\ s \in Nat
    BY <2>2
  <2> HIDE DEF Sums
  <2> QED BY <1>1, <2>3
<1> HIDE DEF Pairs, Sums
<1>4. gcd[<<x, y>>] = IF x = 0 THEN y ELSE IF y = 0 THEN x
                  ELSE IF x > y THEN gcd[<<x % y, y>>] ELSE gcd[<<x, y % x>>]
  BY GcdDef
<1>5. CASE x = 0 \/ y = 0
  <2>1. \A z \in Nat \ {0} : z % z = 0 /\ 0 % z = 0
    <3> SUFFICES ASSUME NEW z \in Nat \ {0} PROVE z % z = 0 /\ 0 % z = 0
      OBVIOUS
    <3>1. z = z * 1 /\ 0 = z * 0
      OBVIOUS
    <3> QED BY <3>1, Multiple
  <2> QED BY <1>2, <1>4, <1>5, <2>1 DEF Common
<1>6. CASE x # 0 /\ y # 0
  <2>1. x % y \in Nat /\ x % y < y /\ y % x \in Nat /\ y % x < x
    BY <1>6, Division
  <2>2. CASE x > y
    <3>1. gcd[<<x % y, y>>] \in Common(x % y, y)
      <4>1. (x % y) + y < s /\ (x % y) + y > 0
        BY <1>2, <1>6, <2>1, <2>2
      <4> QED BY <1>3, <2>1, <4>1
    <3> QED BY <1>2, <1>4, <1>6, <2>2, <3>1, CommonMod
  <2>3. CASE ~(x > y)
    <3>1. gcd[<<x, y % x>>] \in Common(x, y % x)
      <4>1. x + (y % x) < s /\ x + (y % x) > 0
        BY <1>2, <1>6, <2>1, <2>3
      <4> QED BY <1>3, <2>1, <4>1
    <3> QED BY <1>2, <1>4, <1>6, <2>3, <3>1, CommonMod
  <2> QED BY <2>2, <2>3
<1> QED
  BY <1>5, <1>6

(* The gcd of a number with itself.                                        *)
LEMMA GcdSame == \A a \in Nat \ {0} : gcd[<<a, a>>] = a
<1> SUFFICES ASSUME NEW a \in Nat \ {0} PROVE gcd[<<a, a>>] = a
  OBVIOUS
<1>1. a % a = 0
  <2>1. a = a * 1
    OBVIOUS
  <2> QED BY <2>1, Multiple
<1>2. gcd[<<a, a>>] = gcd[<<a, a % a>>]
  <2>1. a \in Nat /\ ~(a > a) /\ a # 0
    OBVIOUS
  <2> QED BY <2>1, GcdDef
<1>3. gcd[<<a, 0>>] = a
  <2>1. a \in Nat /\ 0 \in Nat /\ a # 0
    OBVIOUS
  <2> QED BY <2>1, GcdDef
<1> QED
  BY <1>1, <1>2, <1>3

(* A reduced fraction is the fraction.                                     *)
LEMMA Parts ==
  ASSUME NEW a \in Nat, NEW b \in Nat, a + b > 0
  PROVE  LET g == gcd[<<a, b>>] IN
         /\ g \in Nat \ {0} /\ a \div g \in Nat /\ b \div g \in Nat
         /\ a = g * (a \div g) /\ b = g * (b \div g)
<1>1. gcd[<<a, b>>] \in Common(a, b)
  BY GcdDivides
<1> QED
  BY <1>1, Division DEF Common

(* A ratio has the value of the quotient it is made of.                    *)
LEMMA RatioOf ==
  ASSUME NEW n \in Nat, NEW d \in Nat \ {0}
  PROVE  /\ Ratio(n, d).num \in Nat /\ Ratio(n, d).den \in Nat \ {0}
         /\ Ratio(n, d).num * d = n * Ratio(n, d).den
         /\ n > 0 => Ratio(n, d).num > 0
<1> DEFINE g == gcd[<<n, d>>]
           a == n \div g
           b == d \div g
<1>1. g \in Nat \ {0} /\ a \in Nat /\ b \in Nat /\ n = g * a /\ d = g * b
  BY Parts
<1>2. Ratio(n, d).num = a /\ Ratio(n, d).den = b
  BY DEF Ratio
<1> HIDE DEF g, a, b
<1>3. b # 0
  BY <1>1
<1>4. a * (g * b) = (g * a) * b
  BY <1>1
<1>5. n > 0 => a # 0
  BY <1>1
<1> QED
  BY <1>1, <1>2, <1>3, <1>4, <1>5

(* The fields of a request.                                                *)
LEMMA RequestType ==
  ASSUME NEW q \in Requests
  PROVE  /\ q.prog \in Programs /\ q.device \in Devices /\ q.freq \in Nat /\ q.ref \in Nat \ {0}
         /\ q.r \in 1..1023 /\ q.doubler \in 0..1 /\ q.div2 \in 0..1 /\ q.feedback \in 0..1
         /\ q.mode \in 0..1 /\ q.band \in 0..255
         /\ 1000 * q.ref * (1 + q.doubler) >= (1 + q.div2) * q.r
BY RequestsAssumption DEF Request

(* The phase detector has a kilohertz at least.                            *)
LEMMA PfdOf ==
  ASSUME NEW q \in Requests
  PROVE  LET f == Pfd(q) IN
         /\ f.num \in Nat \ {0} /\ f.den \in Nat \ {0} /\ f.num >= f.den
         /\ f.num * ((1 + q.div2) * q.r) = (1000 * q.ref * (1 + q.doubler)) * f.den
<1> DEFINE a == 1000 * q.ref * (1 + q.doubler)
           b == (1 + q.div2) * q.r
           f == Ratio(a, b)
<1>1. a \in Nat /\ b \in Nat /\ b > 0 /\ a >= b
  <2>1. 1000 * q.ref \in Nat /\ (q.doubler = 0 \/ q.doubler = 1) /\ (q.div2 = 0 \/ q.div2 = 1)
        /\ q.r \in Nat /\ q.r > 0
    BY RequestType
  <2> QED BY <2>1, RequestType
<1> HIDE DEF a, b
<1>2. f.num \in Nat /\ f.den \in Nat \ {0} /\ f.num * b = a * f.den /\ f.num > 0
  BY <1>1, RatioOf
<1> HIDE DEF f
<1>3. f.num >= f.den
  <2> SUFFICES ASSUME f.num < f.den PROVE FALSE
    BY <1>2
  <2>1. f.num * b < f.den * b
    BY <1>1, <1>2
  <2>2. f.den * b <= f.den * a
    BY <1>1, <1>2
  <2>3. f.den * a = a * f.den /\ f.num * b \in Nat /\ f.den * b \in Nat /\ f.den * a \in Nat
    BY <1>1, <1>2
  <2> QED BY <1>2, <2>1, <2>2, <2>3
<1> QED
  BY <1>2, <1>3 DEF Pfd, f, a, b

(***************************************************************************)
(* The output divider                                                      *)
(***************************************************************************)
(* The powers of two as values the solver can compare.                     *)
Pow(k) == 2^k

(* They are seven numbers.                                                 *)
LEMMA Powers ==
  \A k \in 0..6 : \/ k = 0 /\ Pow(k) = 1
                  \/ k = 1 /\ Pow(k) = 2
                  \/ k = 2 /\ Pow(k) = 4
                  \/ k = 3 /\ Pow(k) = 8
                  \/ k = 4 /\ Pow(k) = 16
                  \/ k = 5 /\ Pow(k) = 32
                  \/ k = 6 /\ Pow(k) = 64
<1>1. 2^0 = 1 /\ 2^1 = 2 /\ 2^2 = 4 /\ 2^3 = 8 /\ 2^4 = 16 /\ 2^5 = 32 /\ 2^6 = 64
  BY SMT
<1>2. \A k \in 0..6 : k = 0 \/ k = 1 \/ k = 2 \/ k = 3 \/ k = 4 \/ k = 5 \/ k = 6
  BY SMT
<1> QED
  BY <1>1, <1>2, Zenon DEF Pow

(* What is a power of two that divides the output.                         *)
LEMMA DividerPowers ==
  {2^k : k \in 0..6} = {1, 2, 4, 8, 16, 32, 64}
<1>1. 0 \in 0..6 /\ 1 \in 0..6 /\ 2 \in 0..6 /\ 3 \in 0..6 /\ 4 \in 0..6 /\ 5 \in 0..6 /\ 6 \in 0..6
  BY SMT
<1>2. {1, 2, 4, 8, 16, 32, 64} \subseteq {2^k : k \in 0..6}
  <2>1. /\ 2^0 \in {2^k : k \in 0..6} /\ 2^1 \in {2^k : k \in 0..6} /\ 2^2 \in {2^k : k \in 0..6}
        /\ 2^3 \in {2^k : k \in 0..6} /\ 2^4 \in {2^k : k \in 0..6} /\ 2^5 \in {2^k : k \in 0..6}
        /\ 2^6 \in {2^k : k \in 0..6}
    BY <1>1, Zenon
  <2> QED BY <2>1, SMT
<1>3. {2^k : k \in 0..6} \subseteq {1, 2, 4, 8, 16, 32, 64}
  BY Powers, SMT
<1> QED
  BY <1>2, <1>3, Zenon

(* The divider brings the VCO into its range if one does, and is the last  *)
(* on its side if none does.                                               *)
Reaches(freq, divider) ==
  /\ divider \in {1, 2, 4, 8, 16, 32, 64}
  /\ freq >= 34375 /\ freq <= 4400000
       => freq * divider >= 2200000 /\ freq * divider <= 4400000
  /\ freq < 34375 => divider = 64
  /\ freq > 4400000 => divider = 1

(* The VCO reaches its lower bound.                                        *)
Enough(freq, p) == freq * p >= 2200000

(* The first power of two that reaches the bound does not overshoot it by  *)
(* a factor of two (core.py:113-116).                                      *)
LEMMA LibraryReaches == \A freq \in Nat : Reaches(freq, LibraryDivider(freq))
<1> SUFFICES ASSUME NEW freq \in Nat PROVE Reaches(freq, LibraryDivider(freq))
  OBVIOUS
<1> DEFINE fits == {k \in 0..6 : Enough(freq, Pow(k))}
           first == CHOOSE k \in fits : \A j \in fits : k <= j
<1>1. LibraryDivider(freq) = IF fits = {} THEN 64 ELSE Pow(first)
  BY SMT DEF LibraryDivider, Pow, Enough
<1>2. CASE freq < 34375
  <2>1. ASSUME NEW k \in 0..6 PROVE ~Enough(freq, Pow(k))
    <3>1. Pow(k) \in 1..64
      BY Powers, SMT
    <3>2. freq * Pow(k) <= freq * 64
      BY <3>1, SMT
    <3> QED BY <1>2, <3>1, <3>2, SMT DEF Enough
  <2>2. LibraryDivider(freq) = 64
    BY <1>1, <2>1, SMT
  <2> QED BY <1>2, <2>2, SMT DEF Reaches
<1>3. CASE freq >= 34375
  <2>1. Enough(freq, Pow(6))
    BY <1>3, Powers, SMT DEF Enough
  <2>2. first \in fits /\ \A j \in fits : first <= j
    <3>1. fits \in SUBSET Nat /\ 6 \in fits
      BY <2>1, SMT
    <3> HIDE DEF fits
    <3>2. \E m \in fits : \A j \in fits : m <= j
      BY <3>1, Least
    <3> QED BY <3>2, Zenon
  <2>3. first \in 0..6 /\ Enough(freq, Pow(first))
        /\ \A j \in 0..6 : Enough(freq, Pow(j)) => first <= j
    BY <2>2, Zenon
  <2>4. LibraryDivider(freq) = Pow(first)
    BY <1>1, <2>2, Zenon
  <2> HIDE DEF first
  <2> DEFINE p == Pow(first)
             h == Pow(first - 1)
  <2>5. Enough(freq, p) /\ p \in {1, 2, 4, 8, 16, 32, 64}
    BY <2>3, Powers, SMT
  <2>6. p > 1 => ~Enough(freq, h) /\ h \in Nat /\ p = 2 * h
    <3> SUFFICES ASSUME p > 1 PROVE ~Enough(freq, h) /\ h \in Nat /\ p = 2 * h
      OBVIOUS
    <3>1. first - 1 \in 0..6 /\ ~(first <= first - 1)
      BY <2>3, Powers, SMT
    <3>2. ~Enough(freq, h)
      BY <2>3, <3>1, Zenon
    <3>3. h \in Nat /\ p = 2 * h
      BY <2>3, <3>1, Powers, SMT
    <3> QED BY <3>2, <3>3
  <2> HIDE DEF p, h
  <2>7. p > 1 => freq * p < 4400000
    <3>1. p > 1 => freq * h \in Nat /\ freq * p = 2 * (freq * h)
      BY <2>6, SMT
    <3> QED BY <2>6, <3>1, SMT DEF Enough
  <2>8. freq > 4400000 => p = 1
    <3> SUFFICES ASSUME freq > 4400000, p # 1 PROVE FALSE
      OBVIOUS
    <3>1. p > 1 /\ h >= 1
      BY <2>5, <2>6, SMT
    <3>2. freq * h >= freq
      BY <2>6, <3>1, SMT
    <3> QED BY <2>6, <3>1, <3>2, SMT DEF Enough
  <2>9. freq <= 4400000 => freq * p <= 4400000
    <3>1. p = 1 \/ p > 1
      BY <2>5, SMT
    <3>2. freq * p \in Nat /\ freq * 1 = freq
      BY <2>5, SMT
    <3> QED BY <2>7, <3>1, <3>2, SMT
  <2>10. Reaches(freq, p)
    BY <1>3, <2>5, <2>8, <2>9, SMT DEF Reaches, Enough
  <2> QED BY <2>4, <2>10, Zenon DEF p
<1> QED
  BY <1>2, <1>3, SMT

(* Nor does one doubling for every bound that is not reached               *)
(* (adf4351.cpp:37-58).                                                    *)
LEMMA GuiReaches == \A freq \in Nat : Reaches(freq, GuiDivider(freq))
<1> SUFFICES ASSUME NEW freq \in Nat PROVE Reaches(freq, GuiDivider(freq))
  OBVIOUS
<1> DEFINE above == {x \in Bounds : freq < x}
           a == 2200000
           b == 1100000
           c == 550000
           d == 275000
           e == 137500
           f == 68750
<1>1. /\ b # a /\ c \notin {a, b} /\ d \notin {a, b, c} /\ e \notin {a, b, c, d}
      /\ f \notin {a, b, c, d, e}
  BY SMT
<1>2. /\ freq < f => above = {a, b, c, d, e, f}
      /\ f <= freq /\ freq < e => above = {a, b, c, d, e}
      /\ e <= freq /\ freq < d => above = {a, b, c, d}
      /\ d <= freq /\ freq < c => above = {a, b, c}
      /\ c <= freq /\ freq < b => above = {a, b}
      /\ b <= freq /\ freq < a => above = {a}
      /\ a <= freq => above = {}
  BY SMT DEF Bounds
<1>3. GuiDivider(freq) = 2^Cardinality(above)
  BY SMT DEF GuiDivider
<1> HIDE DEF above, a, b, c, d, e, f
<1>4. Cardinality({}) = 0 /\ IsFiniteSet({a}) /\ Cardinality({a}) = 1
  BY FS_EmptySet, FS_Singleton
<1>5. IsFiniteSet({a, b}) /\ Cardinality({a, b}) = 2
  <2>1. {a, b} = {a} \cup {b} /\ b \notin {a}
    BY <1>1
  <2> QED BY <1>4, <2>1, FS_AddElement
<1>6. IsFiniteSet({a, b, c}) /\ Cardinality({a, b, c}) = 3
  <2>1. {a, b, c} = {a, b} \cup {c}
    OBVIOUS
  <2> QED BY <1>1, <1>5, <2>1, FS_AddElement
<1>7. IsFiniteSet({a, b, c, d}) /\ Cardinality({a, b, c, d}) = 4
  <2>1. {a, b, c, d} = {a, b, c} \cup {d}
    OBVIOUS
  <2> QED BY <1>1, <1>6, <2>1, FS_AddElement
<1>8. IsFiniteSet({a, b, c, d, e}) /\ Cardinality({a, b, c, d, e}) = 5
  <2>1. {a, b, c, d, e} = {a, b, c, d} \cup {e}
    OBVIOUS
  <2> QED BY <1>1, <1>7, <2>1, FS_AddElement
<1>9. Cardinality({a, b, c, d, e, f}) = 6
  <2>1. {a, b, c, d, e, f} = {a, b, c, d, e} \cup {f}
    OBVIOUS
  <2> QED BY <1>1, <1>8, <2>1, FS_AddElement
<1>10. 2^0 = 1 /\ 2^1 = 2 /\ 2^2 = 4 /\ 2^3 = 8 /\ 2^4 = 16 /\ 2^5 = 32 /\ 2^6 = 64
  BY SMT
<1>11. freq < f => GuiDivider(freq) = 64
  <2> SUFFICES ASSUME freq < f PROVE GuiDivider(freq) = 64
    OBVIOUS
  <2>1. above = {a, b, c, d, e, f}
    BY <1>2, Zenon
  <2>2. Cardinality(above) = 6
    BY <1>9, <2>1, Zenon
  <2> QED BY <1>3, <1>10, <2>2, Zenon
<1>12. f <= freq /\ freq < e => GuiDivider(freq) = 32
  <2> SUFFICES ASSUME f <= freq /\ freq < e PROVE GuiDivider(freq) = 32
    OBVIOUS
  <2>1. above = {a, b, c, d, e}
    BY <1>2, Zenon
  <2>2. Cardinality(above) = 5
    BY <1>8, <2>1, Zenon
  <2> QED BY <1>3, <1>10, <2>2, Zenon
<1>13. e <= freq /\ freq < d => GuiDivider(freq) = 16
  <2> SUFFICES ASSUME e <= freq /\ freq < d PROVE GuiDivider(freq) = 16
    OBVIOUS
  <2>1. above = {a, b, c, d}
    BY <1>2, Zenon
  <2>2. Cardinality(above) = 4
    BY <1>7, <2>1, Zenon
  <2> QED BY <1>3, <1>10, <2>2, Zenon
<1>14. d <= freq /\ freq < c => GuiDivider(freq) = 8
  <2> SUFFICES ASSUME d <= freq /\ freq < c PROVE GuiDivider(freq) = 8
    OBVIOUS
  <2>1. above = {a, b, c}
    BY <1>2, Zenon
  <2>2. Cardinality(above) = 3
    BY <1>6, <2>1, Zenon
  <2> QED BY <1>3, <1>10, <2>2, Zenon
<1>15. c <= freq /\ freq < b => GuiDivider(freq) = 4
  <2> SUFFICES ASSUME c <= freq /\ freq < b PROVE GuiDivider(freq) = 4
    OBVIOUS
  <2>1. above = {a, b}
    BY <1>2, Zenon
  <2>2. Cardinality(above) = 2
    BY <1>5, <2>1, Zenon
  <2> QED BY <1>3, <1>10, <2>2, Zenon
<1>16. b <= freq /\ freq < a => GuiDivider(freq) = 2
  <2> SUFFICES ASSUME b <= freq /\ freq < a PROVE GuiDivider(freq) = 2
    OBVIOUS
  <2>1. above = {a}
    BY <1>2, Zenon
  <2>2. Cardinality(above) = 1
    BY <1>4, <2>1, Zenon
  <2> QED BY <1>3, <1>10, <2>2, Zenon
<1>17. a <= freq => GuiDivider(freq) = 1
  <2> SUFFICES ASSUME a <= freq PROVE GuiDivider(freq) = 1
    OBVIOUS
  <2>1. above = {}
    BY <1>2, Zenon
  <2>2. Cardinality(above) = 0
    BY <1>4, <2>1, Zenon
  <2> QED BY <1>3, <1>10, <2>2, Zenon
<1> QED
  BY <1>11, <1>12, <1>13, <1>14, <1>15, <1>16, <1>17, SMT DEF Reaches, a, b, c, d, e, f

(* The divider is one of seven.                                            *)
LEMMA GuiDividerType ==
  ASSUME NEW q \in Requests
  PROVE  GuiDivider(q.freq) \in {1, 2, 4, 8, 16, 32, 64} /\ q.freq \in Nat
<1>1. q.freq \in Nat
  BY RequestsAssumption, SMT DEF Request
<1>2. Reaches(q.freq, GuiDivider(q.freq))
  BY <1>1, GuiReaches, Zenon
<1> QED
  BY <1>1, <1>2, SMT DEF Reaches

(***************************************************************************)
(* The plan                                                                *)
(***************************************************************************)
(* A rounded quotient is half a unit off at most, it is not rounded to     *)
(* zero if it is one or more, nor beyond a whole number above it.          *)
LEMMA NearestOf ==
  ASSUME NEW n \in Nat, NEW d \in Nat \ {0}, NEW m \in Nearest(n, d)
  PROVE  /\ m \in Nat /\ 2 * m * d - 2 * n \in (0 - d)..d
         /\ n >= d => m >= 1
         /\ \A k \in Nat : n <= k * d => m <= k
<1> DEFINE x == n \div d
           t == n % d
<1>1. x \in Nat /\ t \in Nat /\ t < d /\ n = d * x + t
  BY Division
<1>2. m \in {x, x + 1} /\ 2 * m * d - 2 * n \in (0 - d)..d
  BY DEF Nearest
<1> HIDE DEF x, t
<1>3. n >= d => m >= 1
  <2> SUFFICES ASSUME n >= d, x = 0 PROVE FALSE
    BY <1>1, <1>2
  <2>1. d * x = 0
    BY <1>1
  <2> QED BY <1>1, <2>1
<1>4. ASSUME NEW k \in Nat, n <= k * d PROVE m <= k
  <2> SUFFICES ASSUME m > k PROVE FALSE
    BY <1>1, <1>2
  <2>1. CASE x > k
    <3>1. (k + 1) * d <= x * d
      BY <1>1, <2>1
    <3>2. (k + 1) * d = k * d + d /\ k * d \in Nat /\ x * d = d * x /\ x * d \in Nat
      BY <1>1
    <3> QED BY <1>1, <1>4, <3>1, <3>2
  <2>2. CASE x = k /\ m = k + 1
    <3>1. 2 * m * d = 2 * (k * d) + 2 * d /\ k * d = d * x /\ k * d \in Nat
      BY <1>1, <2>2
    <3>2. 2 * m * d - 2 * n <= d
      BY <1>1, <1>2, <3>1
    <3> QED BY <1>1, <1>4, <3>1, <3>2
  <2> QED BY <1>1, <1>2, <2>1, <2>2
<1> QED
  BY <1>1, <1>2, <1>3, <1>4

(* The reduced fraction is the fraction, unless it is zero or one.         *)
LEMMA ReducedOf ==
  ASSUME NEW mod \in Nat \ {0}, NEW frac \in 0..mod
  PROVE  LET R == Reduced(mod, frac) IN
         /\ R.MOD \in Nat \ {0, 1} /\ R.FRAC \in Nat /\ R.FRAC < R.MOD
         /\ frac = 0 => R.FRAC = 0
         /\ frac < mod => R.FRAC * mod = frac * R.MOD
         /\ frac > 0 /\ frac < mod => R.MOD <= mod
<1> DEFINE g == gcd[<<mod, frac>>]
           a == mod \div g
           b == frac \div g
<1>1. g \in Nat \ {0} /\ a \in Nat /\ b \in Nat /\ mod = g * a /\ frac = g * b
  BY Parts
<1>2. Reduced(mod, frac).MOD = (IF a = 1 THEN 2 ELSE a) /\ Reduced(mod, frac).FRAC = b
  BY DEF Reduced
<1>3. frac = mod => a = 1 /\ b = 1
  <2> SUFFICES ASSUME frac = mod PROVE mod \div g = 1
    OBVIOUS
  <2>1. g = mod
    BY GcdSame
  <2> HIDE DEF g
  <2>2. mod = mod * 1
    OBVIOUS
  <2>3. mod \div mod = 1
    BY <2>2, Multiple
  <2> QED BY <2>1, <2>3
<1> HIDE DEF g, a, b
<1>4. a # 0
  BY <1>1
<1>5. frac < mod => b < a
  <2> SUFFICES ASSUME b >= a PROVE g * b >= g * a
    BY <1>1
  <2> QED BY <1>1
<1>6. frac = 0 => b = 0
  <2> SUFFICES ASSUME b > 0 PROVE g * b > 0
    BY <1>1
  <2> QED BY <1>1
<1>7. b * (g * a) = (g * b) * a
  BY <1>1
<1>8. a <= g * a
  BY <1>1
<1>9. frac < mod /\ a = 1 => frac = 0 /\ b = 0
  BY <1>1, <1>5
<1> QED
  BY <1>1, <1>2, <1>3, <1>4, <1>5, <1>6, <1>7, <1>8, <1>9

(* N is a fraction.                                                        *)
LEMMA NOf ==
  ASSUME NEW q \in Requests, NEW divider \in Nat
  PROVE  LET n == N(q, divider) IN n.num \in Nat /\ n.den \in Nat \ {0}
<1> DEFINE f == Pfd(q)
           k == IF q.feedback = 1 THEN divider ELSE 1
<1>1. f.num \in Nat \ {0} /\ f.den \in Nat \ {0}
  BY PfdOf
<1>2. q.freq * k * f.den \in Nat
  <2>1. k \in Nat /\ q.freq \in Nat /\ f.den \in Nat
    BY <1>1, RequestType
  <2> HIDE DEF f, k
  <2> QED BY <2>1
<1> QED
  BY <1>1, <1>2, RatioOf DEF N

(* What a plan holds: the nearest fraction to the rest, reduced.           *)
Nears(n, mod, frac) ==
  2 * frac * n.den - 2 * ((n.num % n.den) * mod) \in (0 - n.den)..n.den

PlanFrom(p, divider, band, n, mod, frac) ==
  /\ frac <= mod /\ p.INT \in Nat
  /\ p.FRAC = Reduced(mod, frac).FRAC /\ p.MOD = Reduced(mod, frac).MOD
  /\ p.divider = divider /\ p.band = band /\ p.step = mod /\ p.up = (frac = mod)
  /\ frac < mod => p.INT = n.num \div n.den /\ Nears(n, mod, frac)
  /\ p = [INT |-> p.INT, FRAC |-> p.FRAC, MOD |-> p.MOD, divider |-> p.divider,
          band |-> p.band, step |-> p.step, up |-> p.up]

(* Every plan is made of a modulus and the nearest fraction.               *)
LEMMA PlansAre ==
  ASSUME NEW q \in Requests, NEW divider \in Nat, NEW band, NEW p \in Plans(q, divider, band)
  PROVE  \E mod \in Nat \ {0}, frac \in Nat :
           PlanFrom(p, divider, band, N(q, divider), mod, frac)
<1> DEFINE n == N(q, divider)
<1> DEFINE Made(s, mod, frac) ==
      [INT |-> s.int, FRAC |-> Reduced(mod, frac).FRAC, MOD |-> Reduced(mod, frac).MOD,
       divider |-> divider, band |-> band, step |-> mod, up |-> frac = mod]
      Third(s, mod) == {Made(s, mod, frac) : frac \in Nearest(s.rest * mod, n.den)}
      Second(s) == UNION {Third(s, mod) : mod \in Nearest(Pfd(q).num, Pfd(q).den)}
<1>1. Plans(q, divider, band) = UNION {Second(s) : s \in Split(q, n)}
  BY DEF Plans
<1>2. PICK s \in Split(q, n) : p \in Second(s)
  <2> HIDE DEF Second
  <2> QED BY <1>1
<1>3. PICK mod \in Nearest(Pfd(q).num, Pfd(q).den) : p \in Third(s, mod)
  <2> HIDE DEF Third
  <2> QED BY <1>2
<1>4. PICK frac \in Nearest(s.rest * mod, n.den) : p = Made(s, mod, frac)
  <2> HIDE DEF Made
  <2> QED BY <1>3
<1>5. n.num \in Nat /\ n.den \in Nat \ {0}
  BY NOf
<1>6. mod \in Nat \ {0}
  BY PfdOf, NearestOf
<1>7. \/ s.int = n.num \div n.den /\ s.rest = n.num % n.den
      \/ s.int = n.num - 1 /\ s.int >= 0 /\ s.rest = 1 /\ n.den = 1
  BY DEF Split
<1> DEFINE num == n.num
           den == n.den
           rest == s.rest
<1>8. s.int \in Nat /\ rest \in Nat /\ (rest < den \/ (rest = 1 /\ den = 1))
  BY <1>5, <1>7, Division
<1>9. rest * mod \in Nat /\ rest * mod <= mod * den
  <2>1. rest <= den /\ den \in Nat
    BY <1>5, <1>8
  <2> HIDE DEF rest, den, num
  <2>2. rest * mod <= den * mod
    BY <1>6, <1>8, <2>1
  <2>3. den * mod = mod * den
    BY <1>6, <2>1
  <2> QED BY <1>6, <1>8, <2>2, <2>3
<1>10. frac \in Nat /\ frac <= mod /\ 2 * frac * den - 2 * (rest * mod) \in (0 - den)..den
  BY <1>5, <1>6, <1>9, NearestOf
<1>11. rest = 1 /\ den = 1 => frac = mod
  <2> HIDE DEF rest, den, num
  <2> SUFFICES ASSUME rest = 1, den = 1 PROVE frac = mod
    OBVIOUS
  <2>1. 2 * frac - 2 * mod \in -1..1
    BY <1>6, <1>10
  <2> QED BY <1>6, <1>10, <2>1
<1>12. frac < mod => s.int = num \div den /\ rest = num % den
  BY <1>6, <1>7, <1>10, <1>11
<1>13. frac < mod => Nears(n, mod, frac)
  BY <1>10, <1>12 DEF Nears
<1>14. /\ p.INT = s.int /\ p.FRAC = Reduced(mod, frac).FRAC /\ p.MOD = Reduced(mod, frac).MOD
       /\ p.divider = divider /\ p.band = band /\ p.step = mod /\ p.up = (frac = mod)
  BY <1>4
<1>15. p = [INT |-> p.INT, FRAC |-> p.FRAC, MOD |-> p.MOD, divider |-> p.divider,
            band |-> p.band, step |-> p.step, up |-> p.up]
  <2> DEFINE up == frac = mod
             f == Reduced(mod, frac).FRAC
             m == Reduced(mod, frac).MOD
             i == s.int
  <2>1. p = [INT |-> i, FRAC |-> f, MOD |-> m, divider |-> divider, band |-> band,
             step |-> mod, up |-> up]
    BY <1>4
  <2> HIDE DEF up, f, m, i
  <2> QED BY <2>1, Zenon
<1> HIDE DEF Made, Third, Second
<1>16. PlanFrom(p, divider, band, n, mod, frac)
  <2>1. /\ frac <= mod /\ p.INT \in Nat
        /\ p.FRAC = Reduced(mod, frac).FRAC /\ p.MOD = Reduced(mod, frac).MOD
        /\ p.divider = divider /\ p.band = band /\ p.step = mod /\ p.up = (frac = mod)
        /\ frac < mod => p.INT = n.num \div n.den /\ Nears(n, mod, frac)
    BY <1>8, <1>10, <1>12, <1>13, <1>14
  <2> QED BY <1>15, <2>1, Zenon DEF PlanFrom
<1> QED
  BY <1>6, <1>10, <1>16

(***************************************************************************)
(* Types                                                                   *)
(***************************************************************************)
Dividers == {1, 2, 4, 8, 16, 32, 64}

PlanType(p) ==
  /\ p.INT \in Nat /\ p.FRAC \in Nat /\ p.MOD \in Nat \ {0, 1} /\ p.FRAC < p.MOD
  /\ p.divider \in Dividers /\ p.band \in Nat /\ p.step \in Nat \ {0} /\ p.up \in BOOLEAN

(* A plan has its type, and the divider and the band it was made for.      *)
LEMMA PlansType ==
  ASSUME NEW q \in Requests, NEW divider \in Dividers, NEW band \in Nat,
         NEW p \in Plans(q, divider, band)
  PROVE  PlanType(p) /\ p.divider = divider /\ p.band = band
<1>1. divider \in Nat
  BY DEF Dividers
<1>2. PICK mod \in Nat \ {0}, frac \in Nat :
           PlanFrom(p, divider, band, N(q, divider), mod, frac)
  BY <1>1, PlansAre
<1>3. frac \in 0..mod
  BY <1>2 DEF PlanFrom
<1>4. /\ Reduced(mod, frac).MOD \in Nat \ {0, 1} /\ Reduced(mod, frac).FRAC \in Nat
      /\ Reduced(mod, frac).FRAC < Reduced(mod, frac).MOD
  BY <1>3, ReducedOf
<1> QED
  BY <1>2, <1>4 DEF PlanType, PlanFrom

(* The divisor is at least one: a quotient rounded up is a number.         *)
LEMMA CeilType ==
  ASSUME NEW n \in Nat, NEW d \in Nat \ {0}
  PROVE  Ceil(n, d) \in Nat
<1>1. n + d - 1 \in Nat
  OBVIOUS
<1> QED
  BY <1>1, Division DEF Ceil

(* The library caps the band divider, the GUI's is any number.             *)
LEMMA BandType ==
  ASSUME NEW q \in Requests
  PROVE  LibraryBand(q) \in 0..255 /\ GuiBands(q) \subseteq Nat
<1> DEFINE f == Pfd(q)
<1>1. f.num \in Nat \ {0} /\ f.den \in Nat \ {0} /\ q.band \in 0..255
  BY PfdOf, RequestType
<1> HIDE DEF f
<1>2. 8 * f.num \in Nat /\ 2 * f.num \in Nat /\ 1000 * f.den \in Nat \ {0}
  BY <1>1
<1>3. Ceil(8 * f.num, 1000 * f.den) \in Nat /\ Ceil(2 * f.num, 1000 * f.den) \in Nat
  BY <1>2, CeilType
<1>4. LibraryBand(q) \in 0..255
  BY <1>1, <1>3 DEF LibraryBand, f
<1>5. GuiBands(q) \subseteq Nat
  <2> DEFINE c == Ceil((IF q.mode = 1 THEN 2 ELSE 8) * Pfd(q).num, 1000 * Pfd(q).den)
  <2>1. c \in Nat
    BY <1>3, Zenon DEF f
  <2>2. GuiBands(q) = {IF c > 255 THEN 255 ELSE c} \cup Garbage
    BY DEF GuiBands
  <2> HIDE DEF c
  <2> QED BY <2>1, <2>2, GarbageAssumption
<1> QED
  BY <1>4, <1>5

(* The command line program's phase detector frequency is whole Hertz.     *)
Hertz(q) == 1000000 * q.ref
EvalPfd(q) == Hertz(q) \div q.r
EvalBand(q) == Ceil(EvalPfd(q), 125000)

EvalMod(q) == EvalPfd(q) \div 1000
EvalPer(q) == Ratio(1000, EvalPfd(q))
EvalN(q) == Ratio(q.freq * GuiDivider(q.freq) * EvalPer(q).num, EvalPer(q).den)
(* The fraction is cut, or the whole part is one lower and the fraction    *)
(* the greatest there is.                                                  *)
CutFrom(p, n, mod, frac) ==
  p.INT = n.num \div n.den /\ (n.num % n.den) * mod - frac * n.den \in 0..n.den
BelowFrom(p, n, mod, frac) ==
  p.INT = n.num \div n.den - 1 /\ n.num % n.den = 0 /\ frac = mod - 1
EvalFrom(p, n, mod, frac) ==
  /\ p.INT \in Nat /\ frac < mod
  /\ p.FRAC = (IF frac = 0 THEN 0 ELSE Reduced(mod, frac).FRAC)
  /\ p.MOD = (IF frac = 0 THEN 2 ELSE Reduced(mod, frac).MOD)
  /\ CutFrom(p, n, mod, frac) \/ BelowFrom(p, n, mod, frac)

EvalNumbers(q) ==
  /\ EvalPfd(q) \in Nat /\ EvalPfd(q) >= 1000 /\ EvalPfd(q) * q.r = Hertz(q)
  /\ EvalMod(q) \in Nat \ {0} /\ EvalN(q).num \in Nat /\ EvalN(q).den \in Nat \ {0}
  /\ EvalN(q).num * EvalPfd(q) = q.freq * GuiDivider(q.freq) * 1000 * EvalN(q).den

(* What a plan of the command line program holds.                          *)
LEMMA EvalOf ==
  ASSUME NEW q \in Requests, q.prog = "adf4351-eval", NEW p \in EvalPlans(q)
  PROVE  /\ EvalNumbers(q)
         /\ p.divider = GuiDivider(q.freq) /\ p.step = EvalMod(q) /\ p.up = FALSE
         /\ p.band = EvalBand(q) /\ p.band \in Nat
         /\ \E frac \in Nat : EvalFrom(p, EvalN(q), EvalMod(q), frac)
<1> DEFINE pfd == EvalPfd(q)
           mod == EvalMod(q)
           n == EvalN(q)
           per == EvalPer(q)
           D == GuiDivider(q.freq)
           freq == q.freq
<1>1. pfd \in Nat /\ pfd >= 1000 /\ pfd * q.r = Hertz(q)
  <2>1. q.ref \in Nat /\ q.r \in Nat /\ q.r > 0 /\ Hertz(q) % q.r = 0
        /\ 1000 * q.ref >= q.r
    <3>1. q.doubler = 0 /\ q.div2 = 0
      BY RequestsAssumption, SMT
    <3>2. (1000000 * q.ref) % q.r = 0
      BY RequestsAssumption, SMT
    <3>3. q.ref \in Nat /\ q.r \in Nat /\ q.r > 0
          /\ 1000 * q.ref * (1 + q.doubler) >= (1 + q.div2) * q.r
      BY RequestType, SMT
    <3>4. 1000 * q.ref * (1 + 0) >= (1 + 0) * q.r
      BY <3>1, <3>3, Zenon
    <3> QED BY <3>2, <3>3, <3>4, SMT DEF Hertz
  <2> DEFINE a == Hertz(q)
             r == q.r
  <2>2. a \in Nat /\ a % r = 0 /\ r \in Nat /\ r > 0 /\ a >= 1000 * r
    BY <2>1, SMT DEF Hertz
  <2>3. pfd = a \div r
    BY DEF EvalPfd
  <2> HIDE DEF a, r
  <2>4. pfd \in Nat /\ a = r * pfd
    BY <2>2, <2>3, Division
  <2>5. pfd >= 1000
    <3> SUFFICES ASSUME pfd <= 999 PROVE FALSE
      BY <2>4
    <3>1. r * pfd <= r * 999
      BY <2>2, <2>4
    <3> QED BY <2>2, <2>4, <3>1
  <2>6. pfd * r = r * pfd
    BY <2>2, <2>4
  <2> QED BY <2>4, <2>5, <2>6 DEF a, r
<1>2. mod \in Nat \ {0} /\ 1000 * mod <= pfd
  <2>1. pfd = 1000 * mod + (pfd % 1000) /\ pfd % 1000 \in Nat /\ pfd % 1000 < 1000 /\ mod \in Nat
    BY <1>1, Division DEF EvalMod
  <2> QED BY <1>1, <2>1
<1>3. per.num \in Nat /\ per.den \in Nat \ {0} /\ per.num * pfd = 1000 * per.den
  BY <1>1, RatioOf DEF EvalPer
<1>4. D \in Nat /\ freq \in Nat
  BY GuiDividerType, SMT
<1>5. n = Ratio(freq * D * per.num, per.den)
  BY DEF EvalN
<1>6. EvalPlans(q) =
       {[INT |-> s.int,
         FRAC |-> IF s.frac = 0 THEN 0 ELSE Reduced(mod, s.frac).FRAC,
         MOD |-> IF s.frac = 0 THEN 2 ELSE Reduced(mod, s.frac).MOD,
         divider |-> D, band |-> EvalBand(q), step |-> mod, up |-> FALSE] : s \in Cut(n, mod)}
  BY SMT DEF EvalPlans, EvalBand, EvalPfd, EvalMod, EvalPer, EvalN, Hertz
<1> HIDE DEF pfd, mod, n, per, D, freq
<1>7. n.num \in Nat /\ n.den \in Nat \ {0} /\ n.num * per.den = freq * D * per.num * n.den
  <2>1. freq * D * per.num \in Nat
    BY <1>3, <1>4
  <2> QED BY <1>3, <1>5, <2>1, RatioOf
<1> DEFINE num == n.num
           den == n.den
           u == per.num
           v == per.den
<1>8. num * pfd = freq * D * 1000 * den
  <2>1. num \in Nat /\ den \in Nat /\ u \in Nat /\ v \in Nat /\ v > 0
        /\ u * pfd = 1000 * v /\ num * v = freq * D * u * den
    BY <1>3, <1>7
  <2> HIDE DEF num, den, u, v
  <2>2. (num * pfd) * v = (num * v) * pfd
    BY <1>1, <2>1
  <2>3. (freq * D * u * den) * pfd = (freq * D * den) * (u * pfd)
    BY <1>1, <1>4, <2>1
  <2>4. (freq * D * den) * (1000 * v) = (freq * D * 1000 * den) * v
    BY <1>4, <2>1
  <2>5. (num * pfd) * v = (freq * D * 1000 * den) * v
    BY <2>1, <2>2, <2>3, <2>4
  <2> DEFINE x == num * pfd
             y == freq * D * 1000 * den
  <2>6. x \in Nat /\ y \in Nat
    BY <1>1, <1>4, <2>1
  <2> HIDE DEF x, y
  <2>7. x * v = y * v
    BY <2>5 DEF x, y
  <2>8. x = y
    BY <2>1, <2>6, <2>7
  <2> QED BY <2>8 DEF x, y
<1> DEFINE rest == num % den
           fine == rest * mod
           whole == num \div den
           x == fine \div den
<1>9. PICK s \in Cut(n, mod) :
        p = [INT |-> s.int,
             FRAC |-> IF s.frac = 0 THEN 0 ELSE Reduced(mod, s.frac).FRAC,
             MOD |-> IF s.frac = 0 THEN 2 ELSE Reduced(mod, s.frac).MOD,
             divider |-> D, band |-> EvalBand(q), step |-> mod, up |-> FALSE]
  BY <1>6
<1> DEFINE frac == s.frac
<1>10. whole \in Nat /\ rest \in Nat /\ rest < den /\ den \in Nat \ {0}
  BY <1>7, Division
<1>11. /\ s.int \in Nat /\ frac \in Nat /\ frac < mod
       /\ \/ s.int = whole /\ fine - frac * den \in 0..den
          \/ s.int = whole - 1 /\ rest = 0 /\ frac = mod - 1
  <2>1. \/ s.int = whole /\ frac = x
        \/ s.int = whole /\ frac = x - 1 /\ fine % den = 0 /\ frac >= 0
        \/ s.int = whole - 1 /\ frac = mod - 1 /\ rest = 0 /\ s.int >= 0
    BY SMT DEF Cut
  <2> HIDE DEF rest, num, den, whole
  <2>2. fine \in Nat
    BY <1>2, <1>10
  <2>3. fine < den * mod
    BY <1>2, <1>10
  <2> HIDE DEF fine, x, frac
  <2>4. x \in Nat /\ fine = den * x + (fine % den) /\ fine % den \in Nat /\ fine % den < den
    BY <1>10, <2>2, Division DEF x
  <2>5. x < mod
    <3> SUFFICES ASSUME x >= mod PROVE FALSE
      BY <1>2, <2>4
    <3>1. den * x >= den * mod /\ den * x \in Nat /\ den * mod \in Nat
      BY <1>2, <1>10, <2>4
    <3> QED BY <2>2, <2>3, <2>4, <3>1
  <2>6. CASE s.int = whole /\ frac = x
    <3>1. frac * den = den * x /\ den * x \in Nat
      BY <1>10, <2>4, <2>6
    <3> QED BY <1>2, <1>10, <2>2, <2>4, <2>5, <2>6, <3>1
  <2>7. CASE s.int = whole /\ frac = x - 1 /\ fine % den = 0 /\ frac >= 0
    <3>1. frac * den = den * x - den /\ den * x \in Nat /\ frac \in Nat /\ frac < mod
      BY <1>2, <1>10, <2>4, <2>5, <2>7
    <3> QED BY <1>10, <2>2, <2>4, <2>7, <3>1
  <2>8. CASE s.int = whole - 1 /\ frac = mod - 1 /\ rest = 0 /\ s.int >= 0
    BY <1>2, <1>10, <2>8
  <2> QED BY <2>1, <2>6, <2>7, <2>8
<1>12. p.band = EvalBand(q) /\ p.band \in Nat
  BY <1>1, <1>9, CeilType, SMT DEF EvalBand, pfd
<1>13. EvalFrom(p, n, mod, frac)
  <2>1. /\ p.INT = s.int /\ p.FRAC = (IF frac = 0 THEN 0 ELSE Reduced(mod, frac).FRAC)
        /\ p.MOD = (IF frac = 0 THEN 2 ELSE Reduced(mod, frac).MOD)
    BY <1>9
  <2> HIDE DEF frac
  <2>2. CutFrom(p, n, mod, frac) \/ BelowFrom(p, n, mod, frac)
    BY <1>11, <2>1, Zenon DEF CutFrom, BelowFrom
  <2> QED BY <1>11, <2>1, <2>2, Zenon DEF EvalFrom
<1>14. p.divider = D /\ p.step = mod /\ p.up = FALSE
  BY <1>9
<1>15. EvalNumbers(q)
  BY <1>1, <1>2, <1>7, <1>8 DEF D, freq, n, mod, pfd, EvalNumbers
<1> QED
  BY <1>11, <1>12, <1>13, <1>14, <1>15 DEF D, n, mod

(* It has the type of a plan.                                              *)
LEMMA EvalPlansType ==
  ASSUME NEW q \in Requests, q.prog = "adf4351-eval", NEW p \in EvalPlans(q)
  PROVE  PlanType(p) /\ p.divider = GuiDivider(q.freq)
<1> DEFINE mod == EvalMod(q)
<1>1. /\ mod \in Nat \ {0} /\ p.divider = GuiDivider(q.freq) /\ p.step = mod
      /\ p.up = FALSE /\ p.band \in Nat
  <2>1. mod \in Nat \ {0}
    <3>1. EvalNumbers(q)
      BY EvalOf, Zenon
    <3> QED BY <3>1 DEF EvalNumbers
  <2>2. p.divider = GuiDivider(q.freq)
    BY EvalOf, Zenon
  <2>3. p.step = mod
    BY EvalOf, Zenon
  <2>4. p.up = FALSE
    BY EvalOf, Zenon
  <2>5. p.band \in Nat
    BY EvalOf
  <2> QED BY <2>1, <2>4, <2>5, <2>2, <2>3, Zenon
<1>2. PICK frac \in Nat : EvalFrom(p, EvalN(q), mod, frac)
  BY EvalOf, Zenon
<1> HIDE DEF mod
<1>3. frac \in 0..mod
  BY <1>1, <1>2 DEF EvalFrom
<1>4. /\ Reduced(mod, frac).MOD \in Nat \ {0, 1} /\ Reduced(mod, frac).FRAC \in Nat
      /\ Reduced(mod, frac).FRAC < Reduced(mod, frac).MOD
  BY <1>1, <1>3, ReducedOf
<1>5. p.divider \in Dividers
  BY <1>1, GuiDividerType, SMT DEF Dividers
<1>6. /\ p.INT \in Nat /\ p.FRAC = (IF frac = 0 THEN 0 ELSE Reduced(mod, frac).FRAC)
      /\ p.MOD = (IF frac = 0 THEN 2 ELSE Reduced(mod, frac).MOD)
  BY <1>2 DEF EvalFrom
<1>7. p.FRAC \in Nat /\ p.MOD \in Nat \ {0, 1} /\ p.FRAC < p.MOD
  BY <1>4, <1>6
<1>8. p.up \in BOOLEAN
  BY <1>1, Zenon
<1> QED
  BY <1>1, <1>5, <1>6, <1>7, <1>8 DEF PlanType

(***************************************************************************)
(* The words, read as the chip reads them                                  *)
(***************************************************************************)
Bits(width) == 0..(2^width - 1)

(* Each register by itself: the value in each planned field, the bits of   *)
(* the surrounding word in the others.                                     *)
R0Holds(w, INT, FRAC) ==
  /\ w \in Nat /\ w % 8 = 0
  /\ Field(w, 15, 16) = INT /\ Field(w, 3, 12) = FRAC

(* R0 holds INT and FRAC.                                                  *)
LEMMA ReadR0 ==
  ASSUME NEW o \in Nat, Field(o, 0, 3) = 0, Field(o, 3, 12) = 0, Field(o, 15, 16) = 0,
         NEW INT \in Bits(16), NEW FRAC \in Bits(12),
         NEW w, w = o + 0 + (INT * 2^15 + FRAC * 2^3)
  PROVE  R0Holds(w, INT, FRAC)
<1>1. INT \in Nat /\ INT < 65536 /\ FRAC \in Nat /\ FRAC < 4096
  BY SMT DEF Bits
<1> DEFINE c == o \div 8
           d == o \div 32768
           g == d \div 65536
<1>2. o % 8 = 0 /\ c % 4096 = 0 /\ d % 65536 = 0 /\ d = c \div 4096
      /\ c \in Nat /\ d \in Nat /\ g \in Nat
  BY SMT DEF Field
<1>3. o = 8 * c
  BY <1>1, <1>2, SMT
<1> HIDE DEF g
<1>4. d = 65536 * g
  BY <1>1, <1>2, SMT DEF g
<1> HIDE DEF d
<1>5. c = 4096 * d
  BY <1>1, <1>2, SMT
<1> HIDE DEF c
<1> DEFINE u == INT + 65536 * g
           s == FRAC + 4096 * u
<1>6. w = 8 * s
  <2>1. w = o + 0 + (INT * 32768 + FRAC * 8)
    BY <1>1, SMT
  <2>2. o = 2147483648 * g
    BY <1>1, <1>2, <1>3, <1>4, <1>5, SMT
  <2> QED BY <1>1, <1>2, <2>1, <2>2, SMT
<1>7. u \in Nat /\ s \in Nat
  BY <1>1, <1>2, SMT
<1>8. w % 8 = 0 /\ w \div 8 = s
  <2> HIDE DEF s
  <2> QED BY <1>1, <1>6, <1>7, SMT
<1>9. w \div 32768 = u /\ s % 4096 = FRAC
  <2> HIDE DEF u
  <2> QED BY <1>1, <1>6, <1>7, SMT
<1>10. u % 65536 = INT
  BY <1>1, <1>2, SMT
<1>11. w \in Nat
  <2> HIDE DEF s
  <2> QED BY <1>1, <1>6, <1>7, SMT
<1> HIDE DEF s, u
<1> QED BY <1>1, <1>8, <1>9, <1>10, <1>11, SMT DEF R0Holds, Field

R1Holds(w, o, MOD) ==
  /\ w \in Nat /\ w % 8 = 1 /\ Field(w, 3, 12) = MOD
  /\ Field(w, 15, 16) = Field(o, 15, 16)

(* R1 holds MOD, next to the phase and the prescaler.                      *)
LEMMA ReadR1 ==
  ASSUME NEW o \in Nat, Field(o, 0, 3) = 0, Field(o, 3, 12) = 0,
         NEW MOD \in Bits(12), NEW w, w = o + 1 + MOD * 2^3
  PROVE  R1Holds(w, o, MOD)
<1>1. MOD \in Nat /\ MOD < 4096
  BY SMT DEF Bits
<1> DEFINE c == o \div 8
           d == o \div 32768
<1>2. o % 8 = 0 /\ c % 4096 = 0 /\ d = c \div 4096 /\ c \in Nat /\ d \in Nat
  BY SMT DEF Field
<1>3. o = 8 * c
  BY <1>1, <1>2, SMT
<1> HIDE DEF d
<1>4. c = 4096 * d
  BY <1>1, <1>2, SMT
<1> HIDE DEF c
<1> DEFINE s == MOD + 4096 * d
<1>5. w = 1 + 8 * s /\ s \in Nat
  BY <1>1, <1>2, <1>3, <1>4, SMT
<1>6. w \div 32768 = d /\ s % 4096 = MOD
  BY <1>1, <1>2, <1>5, SMT
<1> HIDE DEF s
<1>7. w % 8 = 1 /\ w \div 8 = s /\ w \in Nat
  BY <1>1, <1>5, SMT
<1> QED BY <1>1, <1>6, <1>7, SMT DEF R1Holds, Field, d

R2Holds(w, o, dbl, div2, r) ==
  /\ w \in Nat /\ w % 8 = 2
  /\ Field(w, 25, 1) = dbl /\ Field(w, 24, 1) = div2 /\ Field(w, 14, 10) = r
  /\ Field(w, 3, 5) = Field(o, 3, 5) /\ Field(w, 9, 5) = Field(o, 9, 5)
  /\ Field(w, 26, 5) = Field(o, 26, 5)

(* R2 holds the reference path and LDF.                                    *)
LEMMA ReadR2 ==
  ASSUME NEW o \in Nat, Field(o, 0, 3) = 0, Field(o, 8, 1) = 0, Field(o, 14, 12) = 0,
         NEW dbl \in Bits(1), NEW div2 \in Bits(1), NEW r \in Bits(10), NEW ldf \in Bits(1),
         NEW w, w = o + 2 + (dbl * 2^25 + div2 * 2^24 + r * 2^14 + ldf * 2^8)
  PROVE  R2Holds(w, o, dbl, div2, r)
<1>1. /\ dbl \in Nat /\ dbl < 2 /\ div2 \in Nat /\ div2 < 2 /\ ldf \in Nat /\ ldf < 2
      /\ r \in Nat /\ r < 1024
  BY SMT DEF Bits
<1> DEFINE c == o \div 8
           d == o \div 256
           e == o \div 512
           f == o \div 16384
           g == o \div 67108864
           x == c % 32
           y == e % 32
<1>2. o % 8 = 0 /\ d % 2 = 0 /\ f % 4096 = 0
  BY SMT DEF Field
<1>3. d = c \div 32 /\ e = d \div 2 /\ f = e \div 32 /\ g = f \div 4096
  BY SMT
<1>4. c \in Nat /\ d \in Nat /\ e \in Nat /\ f \in Nat /\ g \in Nat
  BY SMT
<1>5. x \in Nat /\ x < 32 /\ y \in Nat /\ y < 32
  BY <1>1, <1>4, SMT
<1>6. o = 8 * c
  BY <1>1, <1>2, SMT
<1> HIDE DEF g
<1>7. f = 4096 * g
  BY <1>1, <1>2, <1>3, <1>4, SMT
<1> HIDE DEF f, y
<1>8. e = 32 * f + y
  BY <1>1, <1>3, <1>4, SMT DEF y
<1> HIDE DEF e
<1>9. d = 2 * e
  BY <1>1, <1>2, <1>3, <1>4, SMT
<1> HIDE DEF d, x
<1>10. c = 32 * d + x
  BY <1>1, <1>3, <1>4, SMT DEF x
<1> HIDE DEF c
<1> DEFINE v == r + 1024 * div2 + 2048 * dbl + 4096 * g
           u == y + 32 * v
           t == ldf + 2 * u
           s == x + 32 * t
<1>11. w = 2 + 8 * s
  <2>1. w = o + 2 + (dbl * 33554432 + div2 * 16777216 + r * 16384 + ldf * 256)
    BY <1>1, SMT
  <2>2. o = 67108864 * g + 512 * y + 8 * x
    BY <1>1, <1>4, <1>5, <1>6, <1>7, <1>8, <1>9, <1>10, SMT
  <2> QED BY <1>1, <1>4, <1>5, <2>1, <2>2, SMT
<1>12. s \in Nat /\ t \in Nat /\ u \in Nat /\ v \in Nat
  BY <1>1, <1>4, <1>5, SMT
<1>13. w % 8 = 2 /\ w \div 8 = s /\ w \in Nat
  <2> HIDE DEF s
  <2> QED BY <1>1, <1>11, <1>12, SMT
<1>14. w \div 256 = t /\ s % 32 = x
  <2> HIDE DEF t
  <2> QED BY <1>1, <1>5, <1>11, <1>12, SMT
<1>15. w \div 512 = u
  <2> HIDE DEF u
  <2> QED BY <1>1, <1>5, <1>11, <1>12, SMT
<1>16. w \div 16384 = v /\ u % 32 = y
  <2> HIDE DEF v
  <2> QED BY <1>1, <1>5, <1>11, <1>12, SMT
<1>17. v % 1024 = r
  BY <1>1, <1>4, SMT
<1>18. w \div 16777216 = div2 + 2 * dbl + 4 * g
  BY <1>1, <1>4, <1>5, <1>11, SMT
<1>19. w \div 33554432 = dbl + 2 * g
  BY <1>1, <1>4, <1>5, <1>11, SMT
<1>20. w \div 67108864 = g
  BY <1>1, <1>4, <1>5, <1>11, SMT
<1> HIDE DEF s, t, u, v
<1> QED
  BY <1>1, <1>4, <1>13, <1>14, <1>15, <1>16, <1>17, <1>18, <1>19, <1>20, SMT
     DEF R2Holds, Field, c, e, g, x, y

R3Holds(w, o) ==
  /\ w \in Nat /\ w % 8 = 3
  /\ Field(w, 3, 20) = Field(o, 3, 20) /\ Field(w, 24, 7) = Field(o, 24, 7)

(* R3 holds the band select mode, on an ADF4351.                           *)
LEMMA ReadR3 ==
  ASSUME NEW o \in Nat, Field(o, 0, 3) = 0, Field(o, 23, 1) = 0, NEW mode \in Bits(1),
         NEW w, w = o + 3 + mode * 2^23
  PROVE  R3Holds(w, o)
<1>1. mode \in Nat /\ mode < 2
  BY SMT DEF Bits
<1> DEFINE c == o \div 8
           d == o \div 8388608
           g == o \div 16777216
           x == c % 1048576
<1>2. o % 8 = 0 /\ d % 2 = 0
  BY SMT DEF Field
<1>3. d = c \div 1048576 /\ g = d \div 2
  BY SMT
<1>4. c \in Nat /\ d \in Nat /\ g \in Nat /\ x \in Nat /\ x < 1048576
  BY SMT
<1>5. o = 8 * c
  BY <1>1, <1>2, SMT
<1> HIDE DEF g
<1>6. d = 2 * g
  BY <1>1, <1>2, <1>3, <1>4, SMT
<1> HIDE DEF d, x
<1>7. c = 1048576 * d + x
  BY <1>1, <1>3, <1>4, SMT DEF x
<1> HIDE DEF c
<1> DEFINE t == mode + 2 * g
           s == x + 1048576 * t
<1>8. w = 3 + 8 * s
  <2>1. w = o + 3 + mode * 8388608
    BY <1>1, SMT
  <2>2. o = 16777216 * g + 8 * x
    BY <1>1, <1>4, <1>5, <1>6, <1>7, SMT
  <2> QED BY <1>1, <1>4, <2>1, <2>2, SMT
<1>9. s \in Nat /\ t \in Nat
  BY <1>1, <1>4, SMT
<1>10. w % 8 = 3 /\ w \div 8 = s /\ w \in Nat
  <2> HIDE DEF s
  <2> QED BY <1>1, <1>8, <1>9, SMT
<1>11. s % 1048576 = x
  <2> HIDE DEF t
  <2> QED BY <1>1, <1>4, <1>9, SMT
<1>12. w \div 16777216 = g
  BY <1>1, <1>4, <1>8, SMT
<1> HIDE DEF s, t
<1> QED BY <1>1, <1>10, <1>11, <1>12, SMT DEF R3Holds, Field, c, g, x

R4Holds(w, o, feedback, e) ==
  /\ w \in Nat /\ w % 8 = 4 /\ Field(w, 23, 1) = feedback /\ Field(w, 20, 3) = e
  /\ Field(w, 3, 9) = Field(o, 3, 9) /\ Field(w, 24, 7) = Field(o, 24, 7)

(* R4 holds the feedback, the output divider and the band divider.         *)
LEMMA ReadR4 ==
  ASSUME NEW o \in Nat, Field(o, 0, 3) = 0, Field(o, 12, 12) = 0,
         NEW feedback \in Bits(1), NEW e \in Bits(3), NEW band \in Bits(8),
         NEW w, w = o + 4 + (feedback * 2^23 + e * 2^20 + band * 2^12)
  PROVE  R4Holds(w, o, feedback, e)
<1>1. /\ feedback \in Nat /\ feedback < 2 /\ e \in Nat /\ e < 8
      /\ band \in Nat /\ band < 256
  BY SMT DEF Bits
<1> DEFINE c == o \div 8
           d == o \div 4096
           g == o \div 16777216
           x == c % 512
<1>2. o % 8 = 0 /\ d % 4096 = 0
  BY SMT DEF Field
<1>3. d = c \div 512 /\ g = d \div 4096
  BY SMT
<1>4. c \in Nat /\ d \in Nat /\ g \in Nat /\ x \in Nat /\ x < 512
  BY SMT
<1>5. o = 8 * c
  BY <1>1, <1>2, SMT
<1> HIDE DEF g
<1>6. d = 4096 * g
  BY <1>1, <1>2, <1>3, <1>4, SMT
<1> HIDE DEF d, x
<1>7. c = 512 * d + x
  BY <1>1, <1>3, <1>4, SMT DEF x
<1> HIDE DEF c
<1> DEFINE u == e + 8 * feedback + 16 * g
           s == x + 512 * band + 131072 * u
<1>8. w = 4 + 8 * s
  <2>1. w = o + 4 + (feedback * 8388608 + e * 1048576 + band * 4096)
    BY <1>1, SMT
  <2>2. o = 16777216 * g + 8 * x
    BY <1>1, <1>4, <1>5, <1>6, <1>7, SMT
  <2> QED BY <1>1, <1>4, <2>1, <2>2, SMT
<1>9. s \in Nat /\ u \in Nat
  BY <1>1, <1>4, SMT
<1>10. w % 8 = 4 /\ w \div 8 = s /\ w \in Nat
  <2> HIDE DEF s
  <2> QED BY <1>1, <1>8, <1>9, SMT
<1>11. s % 512 = x /\ w \div 1048576 = u
  <2> HIDE DEF u
  <2> QED BY <1>1, <1>4, <1>8, <1>9, SMT
<1>12. u % 8 = e
  BY <1>1, <1>4, SMT
<1>13. w \div 8388608 = feedback + 2 * g
  BY <1>1, <1>4, <1>8, SMT
<1>14. w \div 16777216 = g
  BY <1>1, <1>4, <1>8, SMT
<1> HIDE DEF s, u
<1> QED BY <1>1, <1>4, <1>10, <1>11, <1>12, <1>13, <1>14, SMT DEF R4Holds, Field, c, g, x

R5Holds(w, o) ==
  /\ w \in Nat /\ w % 8 = 5
  /\ Field(w, 3, 16) = Field(o, 3, 16) /\ Field(w, 21, 10) = Field(o, 21, 10)

(* R5 holds the two reserved bits.                                         *)
LEMMA ReadR5 ==
  ASSUME NEW o \in Nat, Field(o, 0, 3) = 0, Field(o, 19, 2) = 0,
         NEW w, w = o + 5 + 3 * 2^19
  PROVE  R5Holds(w, o)
<1> DEFINE c == o \div 8
           d == o \div 524288
           g == o \div 2097152
           x == c % 65536
<1>1. o % 8 = 0 /\ d % 4 = 0
  BY SMT DEF Field
<1>2. d = c \div 65536 /\ g = d \div 4
  BY SMT
<1>3. c \in Nat /\ d \in Nat /\ g \in Nat /\ x \in Nat /\ x < 65536
  BY SMT
<1>4. o = 8 * c
  BY <1>1, SMT
<1> HIDE DEF g
<1>5. d = 4 * g
  BY <1>1, <1>2, <1>3, SMT
<1> HIDE DEF d, x
<1>6. c = 65536 * d + x
  BY <1>2, <1>3, SMT DEF x
<1> HIDE DEF c
<1> DEFINE t == 3 + 4 * g
           s == x + 65536 * t
<1>7. w = 5 + 8 * s
  <2>1. w = o + 5 + 1572864
    BY SMT
  <2>2. o = 2097152 * g + 8 * x
    BY <1>3, <1>4, <1>5, <1>6, SMT
  <2> QED BY <1>3, <2>1, <2>2, SMT
<1>8. s \in Nat /\ t \in Nat
  BY <1>3, SMT
<1>9. w % 8 = 5 /\ w \div 8 = s /\ w \in Nat
  <2> HIDE DEF s
  <2> QED BY <1>7, <1>8, SMT
<1>10. s % 65536 = x
  <2> HIDE DEF t
  <2> QED BY <1>3, <1>8, SMT
<1>11. w \div 2097152 = g
  BY <1>3, <1>7, SMT
<1> HIDE DEF s, t
<1> QED BY <1>9, <1>10, <1>11, SMT DEF R5Holds, Field, c, g, x

(* What a plan for a request must be to fit, and what may surround it.     *)
Fitting(p) ==
  /\ p.INT \in Bits(16) /\ p.FRAC \in Bits(12) /\ p.MOD \in Bits(12)
  /\ p.divider \in Dividers /\ p.band \in Bits(8)

(* The other settings leave the planned fields free.                       *)
Surrounding(o) == o \in [Regs -> Nat] /\ \A f \in Planned : Field(o[f[1]], f[2], f[3]) = 0

(* The divider select is the exponent of the divider.                      *)
Exponent(divider) == CHOOSE k \in 0..6 : 2^k = divider

(* Every divider has one.                                                  *)
LEMMA ExponentOf ==
  ASSUME NEW divider \in Dividers
  PROVE  Exponent(divider) \in 0..6 /\ 2^Exponent(divider) = divider
<1>1. \E k \in 0..6 : 2^k = divider
  BY DividerPowers, Zenon DEF Dividers
<1> QED
  BY <1>1, Zenon DEF Exponent

(* The six words one by one.                                               *)
WordsHold(w, q, p, o, ldf, e) ==
  /\ DOMAIN w = Regs /\ w = [r \in Regs |-> w[r]]
  /\ w[0] = o[0] + 0 + (p.INT * 2^15 + p.FRAC * 2^3)
  /\ w[1] = o[1] + 1 + p.MOD * 2^3
  /\ w[2] = o[2] + 2 + (q.doubler * 2^25 + q.div2 * 2^24 + q.r * 2^14 + ldf * 2^8)
  /\ w[3] = o[3] + 3 + (IF q.device = "ADF4351" THEN q.mode * 2^23 ELSE 0)
  /\ w[4] = o[4] + 4 + (q.feedback * 2^23 + e * 2^20 + p.band * 2^12)
  /\ w[5] = o[5] + 5 + 3 * 2^19

(* These are the words that Words makes.                                   *)
LEMMA WordsAre ==
  ASSUME NEW q, NEW p, NEW o, NEW ldf
  PROVE  WordsHold(Words(q, p, o, ldf), q, p, o, ldf, Exponent(p.divider))
<1>1. 0 \in Regs /\ 1 \in Regs /\ 2 \in Regs /\ 3 \in Regs /\ 4 \in Regs /\ 5 \in Regs
  BY DEF Regs
<1>2. Words(q, p, o, ldf)[0] = o[0] + 0 + (p.INT * 2^15 + p.FRAC * 2^3)
  BY <1>1, SMT DEF Words
<1>3. Words(q, p, o, ldf)[1] = o[1] + 1 + p.MOD * 2^3
  BY <1>1, SMT DEF Words
<1>4. Words(q, p, o, ldf)[2]
        = o[2] + 2 + (q.doubler * 2^25 + q.div2 * 2^24 + q.r * 2^14 + ldf * 2^8)
  BY <1>1, SMT DEF Words
<1>5. Words(q, p, o, ldf)[3] = o[3] + 3 + (IF q.device = "ADF4351" THEN q.mode * 2^23 ELSE 0)
  BY <1>1, SMT DEF Words
<1>6. Words(q, p, o, ldf)[4]
        = o[4] + 4 + (q.feedback * 2^23 + Exponent(p.divider) * 2^20 + p.band * 2^12)
  BY <1>1, SMT DEF Words, Exponent
<1>7. Words(q, p, o, ldf)[5] = o[5] + 5 + 3 * 2^19
  BY <1>1, SMT DEF Words
<1>8. /\ DOMAIN Words(q, p, o, ldf) = Regs
      /\ Words(q, p, o, ldf) = [r \in Regs |-> Words(q, p, o, ldf)[r]]
  <2> DEFINE Word(r) == o[r] + r +
        CASE r = 0 -> p.INT * 2^15 + p.FRAC * 2^3
          [] r = 1 -> p.MOD * 2^3
          [] r = 2 -> q.doubler * 2^25 + q.div2 * 2^24 + q.r * 2^14 + ldf * 2^8
          [] r = 3 -> IF q.device = "ADF4351" THEN q.mode * 2^23 ELSE 0
          [] r = 4 -> q.feedback * 2^23 + (CHOOSE k \in 0..6 : 2^k = p.divider) * 2^20
                        + p.band * 2^12
          [] r = 5 -> 3 * 2^19
  <2>1. Words(q, p, o, ldf) = [r \in Regs |-> Word(r)]
    BY Zenon DEF Words
  <2> HIDE DEF Word
  <2> QED BY <2>1
<1> QED
  BY <1>2, <1>3, <1>4, <1>5, <1>6, <1>7, <1>8, Zenon DEF WordsHold

(* The settings of a request fit their fields.                             *)
LEMMA Settings ==
  ASSUME NEW q \in Requests
  PROVE  /\ q.doubler \in Bits(1) /\ q.div2 \in Bits(1) /\ q.mode \in Bits(1)
         /\ q.feedback \in Bits(1) /\ q.r \in Bits(10)
BY RequestsAssumption, SMT DEF Request, Bits

(* Whatever the values, the words are numbers.                             *)
LEMMA WordsType ==
  ASSUME NEW q \in Requests, NEW p, p.INT \in Nat, p.FRAC \in Nat, p.MOD \in Nat, p.band \in Nat,
         p.divider \in Dividers, NEW o \in [Regs -> Nat], NEW ldf \in Bits(1)
  PROVE  Words(q, p, o, ldf) \in [Regs -> Nat]
<1> DEFINE w == Words(q, p, o, ldf)
           e == Exponent(p.divider)
<1>1. o[0] \in Nat /\ o[1] \in Nat /\ o[2] \in Nat /\ o[3] \in Nat /\ o[4] \in Nat /\ o[5] \in Nat
  BY SMT DEF Regs
<1>2. /\ q.doubler \in Nat /\ q.div2 \in Nat /\ q.r \in Nat /\ q.mode \in Nat /\ q.feedback \in Nat
      /\ ldf \in Nat
  BY Settings, SMT DEF Bits
<1>3. e \in Nat
  <2>1. e \in 0..6
    BY ExponentOf
  <2> QED BY <2>1, SMT
<1>4. WordsHold(w, q, p, o, ldf, e)
  BY WordsAre
<1> HIDE DEF e, w
<1>5. w[0] \in Nat /\ w[1] \in Nat
  BY <1>1, <1>4, SMT DEF WordsHold
<1>6. w[2] \in Nat
  BY <1>1, <1>2, <1>4, SMT DEF WordsHold
<1>7. w[3] \in Nat
  BY <1>1, <1>2, <1>4, SMT DEF WordsHold
<1>8. w[4] \in Nat
  BY <1>1, <1>2, <1>3, <1>4, SMT DEF WordsHold
<1>9. w[5] \in Nat
  BY <1>1, <1>4, SMT DEF WordsHold
<1>10. \A r \in Regs : w[r] \in Nat
  BY <1>5, <1>6, <1>7, <1>8, <1>9, SMT DEF Regs
<1>11. w = [r \in Regs |-> w[r]]
  BY <1>4, Zenon DEF WordsHold
<1>12. w \in [Regs -> Nat]
  BY <1>10, <1>11, Zenon
<1> QED
  BY <1>12 DEF w

(* The fields the chip reads for its frequency.                            *)
LEMMA LayoutIs ==
  /\ Layout["FRAC"] = <<0, 3, 12>> /\ Layout["INT"] = <<0, 15, 16>> /\ Layout["MOD"] = <<1, 3, 12>>
  /\ Layout["RMul2"] = <<2, 25, 1>> /\ Layout["RDiv2"] = <<2, 24, 1>>
  /\ Layout["RCounter"] = <<2, 14, 10>> /\ Layout["RFDivSel"] = <<4, 20, 3>>
  /\ Layout["feedback"] = <<4, 23, 1>>
BY SMT DEF Layout

(* What the chip reads out of the words, the numbers of the registers and  *)
(* the settings between the planned fields.                                *)
Reads(w, q, p) ==
  /\ getReg(w, "INT") = p.INT /\ getReg(w, "FRAC") = p.FRAC /\ getReg(w, "MOD") = p.MOD
  /\ getReg(w, "RMul2") = q.doubler /\ getReg(w, "RDiv2") = q.div2 /\ getReg(w, "RCounter") = q.r
  /\ getReg(w, "feedback") = q.feedback /\ ChipDivider(w) = p.divider

Numbered(w) == \A r \in Regs : w[r] % 8 = r

Kept(w, o) == \A f \in Unplanned : Field(w[f[1]], f[2], f[3]) = Field(o[f[1]], f[2], f[3])

(* The words of a fitting plan read as its values.                         *)
LEMMA WordsRead ==
  ASSUME NEW q \in Requests, NEW p, Fitting(p), NEW o, Surrounding(o), NEW ldf \in Bits(1)
  PROVE  LET w == Words(q, p, o, ldf) IN Reads(w, q, p) /\ Numbered(w) /\ Kept(w, o)
<1> DEFINE w == Words(q, p, o, ldf)
           e == Exponent(p.divider)
<1>1. o[0] \in Nat /\ o[1] \in Nat /\ o[2] \in Nat /\ o[3] \in Nat /\ o[4] \in Nat /\ o[5] \in Nat
  BY SMT DEF Surrounding, Regs
<1>2. /\ q.doubler \in Bits(1) /\ q.div2 \in Bits(1) /\ q.mode \in Bits(1) /\ q.feedback \in Bits(1)
      /\ q.r \in Bits(10)
  BY Settings
<1>3. e \in Bits(3) /\ 2^e = p.divider
  <2>1. e \in 0..6 /\ 2^e = p.divider
    BY ExponentOf DEF Fitting
  <2>2. \A k \in 0..6 : k \in Bits(3)
    BY SMT DEF Bits
  <2> QED BY <2>1, <2>2, Zenon
<1>4. p.INT \in Bits(16) /\ p.FRAC \in Bits(12) /\ p.MOD \in Bits(12) /\ p.band \in Bits(8)
  BY Zenon DEF Fitting
<1>5. WordsHold(w, q, p, o, ldf, e)
  BY WordsAre
<1>6. /\ Field(o[0], 0, 3) = 0 /\ Field(o[0], 3, 12) = 0 /\ Field(o[0], 15, 16) = 0
      /\ Field(o[1], 0, 3) = 0 /\ Field(o[1], 3, 12) = 0
      /\ Field(o[2], 0, 3) = 0 /\ Field(o[2], 8, 1) = 0 /\ Field(o[2], 14, 12) = 0
      /\ Field(o[3], 0, 3) = 0 /\ Field(o[3], 23, 1) = 0
      /\ Field(o[4], 0, 3) = 0 /\ Field(o[4], 12, 12) = 0
      /\ Field(o[5], 0, 3) = 0 /\ Field(o[5], 19, 2) = 0
  BY SMT DEF Surrounding, Planned
<1> HIDE DEF w, e
<1>7. R0Holds(w[0], p.INT, p.FRAC)
  <2>1. w[0] = o[0] + 0 + (p.INT * 2^15 + p.FRAC * 2^3)
    BY <1>5, Zenon DEF WordsHold
  <2> QED BY <1>1, <1>4, <1>6, <2>1, ReadR0, Zenon
<1>8. R1Holds(w[1], o[1], p.MOD)
  <2>1. w[1] = o[1] + 1 + p.MOD * 2^3
    BY <1>5, Zenon DEF WordsHold
  <2> QED BY <1>1, <1>4, <1>6, <2>1, ReadR1, Zenon
<1>9. R2Holds(w[2], o[2], q.doubler, q.div2, q.r)
  <2>1. w[2] = o[2] + 2 + (q.doubler * 2^25 + q.div2 * 2^24 + q.r * 2^14 + ldf * 2^8)
    BY <1>5, Zenon DEF WordsHold
  <2> QED BY <1>1, <1>2, <1>6, <2>1, ReadR2, Zenon
<1>10. R3Holds(w[3], o[3])
  <2> DEFINE m == IF q.device = "ADF4351" THEN q.mode ELSE 0
  <2>1. w[3] = o[3] + 3 + (IF q.device = "ADF4351" THEN q.mode * 2^23 ELSE 0)
    BY <1>5, Zenon DEF WordsHold
  <2>2. m \in Bits(1) /\ w[3] = o[3] + 3 + m * 2^23
    BY <1>1, <1>2, <2>1, SMT DEF Bits
  <2> HIDE DEF m
  <2> QED BY <1>1, <1>6, <2>2, ReadR3, Zenon
<1>11. R4Holds(w[4], o[4], q.feedback, e)
  <2>1. w[4] = o[4] + 4 + (q.feedback * 2^23 + e * 2^20 + p.band * 2^12)
    BY <1>5, Zenon DEF WordsHold
  <2> QED BY <1>1, <1>2, <1>3, <1>4, <1>6, <2>1, ReadR4, Zenon
<1>12. R5Holds(w[5], o[5])
  <2>1. w[5] = o[5] + 5 + 3 * 2^19
    BY <1>5, Zenon DEF WordsHold
  <2> QED BY <1>1, <1>6, <2>1, ReadR5, Zenon
<1>13. Numbered(w)
  BY <1>7, <1>8, <1>9, <1>10, <1>11, <1>12, SMT
     DEF Numbered, Regs, R0Holds, R1Holds, R2Holds, R3Holds, R4Holds, R5Holds
<1>14. Kept(w, o)
  BY <1>8, <1>9, <1>10, <1>11, <1>12, SMT
     DEF Kept, Unplanned, R1Holds, R2Holds, R3Holds, R4Holds, R5Holds
<1>15. Reads(w, q, p)
  <2>1. getReg(w, "INT") = p.INT /\ getReg(w, "FRAC") = p.FRAC /\ getReg(w, "MOD") = p.MOD
    BY <1>7, <1>8, LayoutIs, SMT DEF getReg, R0Holds, R1Holds
  <2>2. getReg(w, "RMul2") = q.doubler /\ getReg(w, "RDiv2") = q.div2 /\ getReg(w, "RCounter") = q.r
    BY <1>9, LayoutIs, SMT DEF getReg, R2Holds
  <2>3. getReg(w, "feedback") = q.feedback /\ getReg(w, "RFDivSel") = e
    BY <1>11, LayoutIs, SMT DEF getReg, R4Holds
  <2>4. ChipDivider(w) = p.divider
    BY <1>3, <2>3, Zenon DEF ChipDivider
  <2> QED BY <2>1, <2>2, <2>3, <2>4, Zenon DEF Reads
<1> QED
  BY <1>13, <1>14, <1>15, Zenon DEF w

(***************************************************************************)
(* The words of the command line program                                   *)
(***************************************************************************)
(* The place of each assigned field.                                       *)
LEMMA AssignedAre ==
  \A v \in Nat :
    /\ Assigned("INT", v) = (v % 2^16) * 2^15 /\ Assigned("FRAC", v) = (v % 2^12) * 2^3
    /\ Assigned("MOD", v) = (v % 2^12) * 2^3 /\ Assigned("phase", v) = (v % 2^12) * 2^15
    /\ Assigned("prescaler", v) = (v % 2^1) * 2^27
    /\ Assigned("muxOut", v) = (v % 2^3) * 2^26 /\ Assigned("RCounter", v) = (v % 2^10) * 2^14
    /\ Assigned("doubleBuffer", v) = (v % 2^1) * 2^13 /\ Assigned("CPCurrent", v) = (v % 2^4) * 2^9
    /\ Assigned("LDF", v) = (v % 2^1) * 2^8 /\ Assigned("LDP", v) = (v % 2^1) * 2^7
    /\ Assigned("PDPolarity", v) = (v % 2^1) * 2^6
    /\ Assigned("clkDiv", v) = (v % 2^12) * 2^3
    /\ Assigned("feedback", v) = (v % 2^1) * 2^23 /\ Assigned("RFDivSel", v) = (v % 2^3) * 2^20
    /\ Assigned("bandSelClkDiv", v) = (v % 2^8) * 2^12 /\ Assigned("MTLD", v) = (v % 2^1) * 2^10
    /\ Assigned("VCOPowerDown", v) = (v % 2^1) * 2^11
    /\ Assigned("outEnable", v) = (v % 2^1) * 2^5 /\ Assigned("outPower", v) = (v % 2^2) * 2^3
    /\ Assigned("LDPinMode", v) = (v % 2^2) * 2^22
BY SMT DEF Assigned, Layout

(* The default values between the fields.                                  *)
EvalOthers(whole) ==
  [r \in Regs |-> CASE r = 0 -> 0
                    [] r = 1 -> 2^15 + 2^27
                    [] r = 2 -> 6 * 2^26 + 2^13 + 7 * 2^9 + whole * 2^7 + 2^6
                    [] r = 3 -> 150 * 2^3
                    [] r = 4 -> 2^10 + 2^5 + 3 * 2^3
                    [] r = 5 -> 2^22]

(* They leave the planned fields free.                                     *)
LEMMA EvalOthersSurround ==
  ASSUME NEW whole \in Bits(1)
  PROVE  Surrounding(EvalOthers(whole))
<1> DEFINE o == EvalOthers(whole)
<1>1. whole = 0 \/ whole = 1
  BY SMT DEF Bits
<1>2. /\ o[0] = 0 /\ o[1] = 2^15 + 2^27 /\ o[3] = 150 * 2^3 /\ o[4] = 2^10 + 2^5 + 3 * 2^3
      /\ o[5] = 2^22 /\ o[2] = 6 * 2^26 + 2^13 + 7 * 2^9 + whole * 2^7 + 2^6
  BY SMT DEF EvalOthers, Regs
<1>3. o \in [Regs -> Nat]
  BY <1>1, SMT DEF EvalOthers, Regs
<1> HIDE DEF o
<1>4. /\ Field(o[0], 0, 3) = 0 /\ Field(o[0], 3, 12) = 0 /\ Field(o[0], 15, 16) = 0
      /\ Field(o[1], 0, 3) = 0 /\ Field(o[1], 3, 12) = 0
  BY <1>2, SMT DEF Field
<1>5. Field(o[2], 0, 3) = 0 /\ Field(o[2], 8, 1) = 0 /\ Field(o[2], 14, 12) = 0
  BY <1>1, <1>2, SMT DEF Field
<1>6. /\ Field(o[3], 0, 3) = 0 /\ Field(o[3], 23, 1) = 0
      /\ Field(o[4], 0, 3) = 0 /\ Field(o[4], 12, 12) = 0
      /\ Field(o[5], 0, 3) = 0 /\ Field(o[5], 19, 2) = 0
  BY <1>2, SMT DEF Field
<1>7. \A f \in Planned : Field(o[f[1]], f[2], f[3]) = 0
  BY <1>4, <1>5, <1>6, SMT DEF Planned
<1> QED
  BY <1>3, <1>7, Zenon DEF Surrounding, o

(* One if there is no fraction: LDF and LDP.                               *)
Whole(p) == IF p.FRAC = 0 THEN 1 ELSE 0

(* The six words one by one.                                               *)
EvalHold(v, q, p, u, e) ==
  /\ DOMAIN v = Regs /\ v = [r \in Regs |-> v[r]]
  /\ v[0] = 0 + (Assigned("INT", p.INT) + Assigned("FRAC", p.FRAC))
  /\ v[1] = 1 + (Assigned("MOD", p.MOD) + Assigned("phase", 1) + Assigned("prescaler", 1))
  /\ v[2] = 2 + (Assigned("muxOut", 6) + Assigned("RCounter", q.r) + Assigned("doubleBuffer", 1)
                + Assigned("CPCurrent", 7) + Assigned("LDF", u) + Assigned("LDP", u)
                + Assigned("PDPolarity", 1))
  /\ v[3] = 3 + Assigned("clkDiv", 150)
  /\ v[4] = 4 + (Assigned("feedback", 1) + Assigned("RFDivSel", e)
                + Assigned("bandSelClkDiv", p.band) + Assigned("MTLD", 1)
                + Assigned("outEnable", 1) + Assigned("outPower", 3))
  /\ v[5] = 5 + (3 * 2^19 + Assigned("LDPinMode", 1))

(* These are the words that EvalWords makes.                               *)
LEMMA EvalWordsIs ==
  ASSUME NEW q, NEW p
  PROVE  EvalHold(EvalWords(q, p), q, p, Whole(p), Exponent(p.divider))
<1> DEFINE u == Whole(p)
           v == EvalWords(q, p)
           e == Exponent(p.divider)
<1>1. /\ v[0] = 0 + (Assigned("INT", p.INT) + Assigned("FRAC", p.FRAC))
      /\ v[1] = 1 + (Assigned("MOD", p.MOD) + Assigned("phase", 1) + Assigned("prescaler", 1))
      /\ v[2] = 2 + (Assigned("muxOut", 6) + Assigned("RCounter", q.r) + Assigned("doubleBuffer", 1)
                    + Assigned("CPCurrent", 7) + Assigned("LDF", u) + Assigned("LDP", u)
                    + Assigned("PDPolarity", 1))
      /\ v[3] = 3 + Assigned("clkDiv", 150)
      /\ v[4] = 4 + (Assigned("feedback", 1) + Assigned("RFDivSel", e)
                    + Assigned("bandSelClkDiv", p.band) + Assigned("MTLD", 1)
                    + Assigned("outEnable", 1) + Assigned("outPower", 3))
      /\ v[5] = 5 + (3 * 2^19 + Assigned("LDPinMode", 1))
  BY SMT DEF EvalWords, Regs, Whole, Exponent
<1>2. /\ DOMAIN v = Regs /\ v = [r \in Regs |-> v[r]]
  <2> DEFINE Word(r) == r +
    CASE r = 0 -> Assigned("INT", p.INT) + Assigned("FRAC", p.FRAC)
      [] r = 1 -> Assigned("MOD", p.MOD) + Assigned("phase", 1) + Assigned("prescaler", 1)
      [] r = 2 -> LET whole == IF p.FRAC = 0 THEN 1 ELSE 0 IN
                  Assigned("muxOut", 6) + Assigned("RCounter", q.r) + Assigned("doubleBuffer", 1)
                    + Assigned("CPCurrent", 7) + Assigned("LDF", whole) + Assigned("LDP", whole)
                    + Assigned("PDPolarity", 1)
      [] r = 3 -> Assigned("clkDiv", 150)
      [] r = 4 -> Assigned("feedback", 1)
                    + Assigned("RFDivSel", CHOOSE k \in 0..6 : 2^k = p.divider)
                    + Assigned("bandSelClkDiv", p.band) + Assigned("MTLD", 1)
                    + Assigned("outEnable", 1) + Assigned("outPower", 3)
      [] r = 5 -> 3 * 2^19 + Assigned("LDPinMode", 1)
  <2>1. v = [r \in Regs |-> Word(r)]
    BY Zenon DEF EvalWords
  <2> HIDE DEF Word, v
  <2> QED BY <2>1
<1> QED
  BY <1>1, <1>2, Zenon DEF EvalHold

(* Assigned field by field or shifted into place, the words are the same.  *)
LEMMA EvalWordsAre ==
  ASSUME NEW q \in Requests, q.prog = "adf4351-eval", NEW p, Fitting(p)
  PROVE  EvalWords(q, p) = Words(q, p, EvalOthers(Whole(p)), Whole(p))
<1> DEFINE u == Whole(p)
           o == EvalOthers(u)
           w == Words(q, p, o, u)
           v == EvalWords(q, p)
           e == Exponent(p.divider)
<1>1. u = 0 \/ u = 1
  BY SMT DEF Whole
<1>2. q.doubler = 0 /\ q.div2 = 0 /\ q.feedback = 1 /\ q.mode = 0 /\ q.r \in Nat /\ q.r < 1024
  <2>1. q.doubler = 0 /\ q.div2 = 0 /\ q.feedback = 1 /\ q.mode = 0
    BY RequestsAssumption, SMT
  <2> QED BY <2>1, RequestType, SMT
<1>3. e \in Nat /\ e < 8
  <2>1. e \in 0..6
    BY ExponentOf DEF Fitting
  <2> HIDE DEF e
  <2> QED BY <2>1, SMT
<1>4. /\ p.INT \in Nat /\ p.INT < 65536 /\ p.FRAC \in Nat /\ p.FRAC < 4096 /\ p.MOD \in Nat
      /\ p.MOD < 4096 /\ p.band \in Nat /\ p.band < 256
  BY SMT DEF Fitting, Bits
<1>5. /\ o[0] = 0 /\ o[1] = 2^15 + 2^27 /\ o[3] = 150 * 2^3 /\ o[4] = 2^10 + 2^5 + 3 * 2^3
      /\ o[5] = 2^22 /\ o[2] = 6 * 2^26 + 2^13 + 7 * 2^9 + u * 2^7 + 2^6
  <2> HIDE DEF u
  <2> QED BY SMT DEF EvalOthers, Regs
<1>6. WordsHold(w, q, p, o, u, e)
  BY WordsAre
<1>7. EvalHold(v, q, p, u, e)
  BY EvalWordsIs
<1> HIDE DEF u, o, w, v, e
<1>8. DOMAIN v = Regs /\ v = [r \in Regs |-> v[r]]
  BY <1>7, Zenon DEF EvalHold
<1>9. p.INT \in Nat /\ p.FRAC \in Nat /\ p.MOD \in Nat /\ p.band \in Nat
  BY <1>4, SMT
<1>10. v[0] = w[0]
  <2>1. p.INT % 2^16 = p.INT /\ p.FRAC % 2^12 = p.FRAC
    BY <1>4, SMT
  <2>2. Assigned("INT", p.INT) = p.INT * 2^15 /\ Assigned("FRAC", p.FRAC) = p.FRAC * 2^3
    BY <2>1, <1>9, AssignedAre, Zenon
  <2>3. v[0] = 0 + (Assigned("INT", p.INT) + Assigned("FRAC", p.FRAC))
        /\ w[0] = o[0] + 0 + (p.INT * 2^15 + p.FRAC * 2^3) /\ o[0] = 0
    BY <1>5, <1>6, <1>7, Zenon DEF WordsHold, EvalHold
  <2> QED BY <1>4, <2>2, <2>3, SMT
<1>11. v[1] = w[1]
  <2>1. p.MOD % 2^12 = p.MOD
    BY <1>4, SMT
  <2>2. Assigned("MOD", p.MOD) = p.MOD * 2^3
    BY <2>1, <1>9, AssignedAre, Zenon
  <2>3. Assigned("phase", 1) = 2^15 /\ Assigned("prescaler", 1) = 2^27
    BY AssignedAre, SMT
  <2>4. Assigned("MOD", p.MOD) = p.MOD * 2^3 /\ Assigned("phase", 1) = 2^15
        /\ Assigned("prescaler", 1) = 2^27
    BY <2>2, <2>3, Zenon
  <2>5. v[1] = 1 + (Assigned("MOD", p.MOD) + Assigned("phase", 1) + Assigned("prescaler", 1))
        /\ w[1] = o[1] + 1 + p.MOD * 2^3 /\ o[1] = 2^15 + 2^27
    BY <1>5, <1>6, <1>7, Zenon DEF WordsHold, EvalHold
  <2> QED BY <1>4, <2>4, <2>5, SMT
<1>12. v[2] = w[2]
  <2>1. Assigned("muxOut", 6) = 6 * 2^26 /\ Assigned("doubleBuffer", 1) = 2^13
        /\ Assigned("CPCurrent", 7) = 7 * 2^9 /\ Assigned("PDPolarity", 1) = 2^6
    BY AssignedAre, SMT
  <2>2. Assigned("RCounter", q.r) = q.r * 2^14 /\ Assigned("LDF", u) = u * 2^8
        /\ Assigned("LDP", u) = u * 2^7
    BY <1>1, <1>2, AssignedAre, SMT
  <2>3. /\ v[2] = 2 + (Assigned("muxOut", 6) + Assigned("RCounter", q.r) + Assigned("doubleBuffer", 1)
                      + Assigned("CPCurrent", 7) + Assigned("LDF", u) + Assigned("LDP", u)
                      + Assigned("PDPolarity", 1))
        /\ w[2] = o[2] + 2 + (q.doubler * 2^25 + q.div2 * 2^24 + q.r * 2^14 + u * 2^8)
        /\ o[2] = 6 * 2^26 + 2^13 + 7 * 2^9 + u * 2^7 + 2^6
    BY <1>5, <1>6, <1>7, Zenon DEF WordsHold, EvalHold
  <2> QED BY <1>1, <1>2, <2>1, <2>2, <2>3, SMT
<1>13. v[3] = w[3]
  BY <1>2, <1>5, <1>6, <1>7, AssignedAre, SMT DEF WordsHold, EvalHold
<1>14. v[4] = w[4]
  <2>1. Assigned("feedback", 1) = 2^23 /\ Assigned("MTLD", 1) = 2^10
        /\ Assigned("outEnable", 1) = 2^5 /\ Assigned("outPower", 3) = 3 * 2^3
    BY AssignedAre, SMT
  <2>2. e % 2^3 = e /\ p.band % 2^8 = p.band
    BY <1>3, <1>4, SMT
  <2>3. Assigned("RFDivSel", e) = e * 2^20 /\ Assigned("bandSelClkDiv", p.band) = p.band * 2^12
    BY <2>2, <1>3, <1>9, AssignedAre, Zenon
  <2>4. /\ v[4] = 4 + (Assigned("feedback", 1) + Assigned("RFDivSel", e)
                      + Assigned("bandSelClkDiv", p.band) + Assigned("MTLD", 1)
                      + Assigned("outEnable", 1) + Assigned("outPower", 3))
        /\ w[4] = o[4] + 4 + (q.feedback * 2^23 + e * 2^20 + p.band * 2^12)
        /\ o[4] = 2^10 + 2^5 + 3 * 2^3
    BY <1>5, <1>6, <1>7, Zenon DEF WordsHold, EvalHold
  <2> QED BY <1>2, <1>3, <1>4, <2>1, <2>3, <2>4, SMT
<1>15. v[5] = w[5]
  BY <1>5, <1>6, <1>7, AssignedAre, SMT DEF WordsHold, EvalHold
<1>16. \A r \in Regs : v[r] = w[r]
  BY <1>10, <1>11, <1>12, <1>13, <1>14, <1>15, SMT DEF Regs
<1>17. w = [r \in Regs |-> w[r]]
  BY <1>6, Zenon DEF WordsHold, EvalHold
<1>18. v = w
  BY <1>8, <1>16, <1>17, Zenon
<1> QED
  BY <1>18, Zenon DEF v, w, o, u

(***************************************************************************)
(* Steps of the modulus                                                    *)
(***************************************************************************)
(* A multiple of the divisor below the dividend bounds the quotient.       *)
LEMMA StepsOf ==
  ASSUME NEW D \in Nat, NEW step \in Nat \ {0}, NEW a \in Nat, 2 * D * step <= a
  PROVE  2 * D <= a \div step
<1> DEFINE x == a \div step
<1>1. x \in Nat /\ a < step * x + step
  <2>1. x \in Nat /\ a = step * x + (a % step) /\ a % step < step /\ a % step \in Nat
    BY Division
  <2> HIDE DEF x
  <2> QED BY <2>1
<1> HIDE DEF x
<1>2. ASSUME 2 * D > x PROVE FALSE
  <2> DEFINE y == 2 * D
  <2>1. y \in Nat /\ y >= x + 1 /\ y * step <= a
    BY <1>1, <1>2
  <2> HIDE DEF y
  <2>2. y * step >= (x + 1) * step
    BY <1>1, <2>1
  <2>3. (x + 1) * step = step * x + step /\ step * x \in Nat /\ y * step \in Nat
    BY <1>1, <2>1
  <2> QED BY <1>1, <2>1, <2>2, <2>3
<1>3. 2 * D <= x
  BY <1>1, <1>2
<1> QED
  BY <1>3 DEF x

(* A distance bounded from both sides.                                     *)
LEMMA DistanceOf ==
  ASSUME NEW a \in Nat, NEW b \in Nat, NEW m \in Nat, NEW c \in Nat,
         a * m - b * m <= c, b * m - a * m <= c
  PROVE  Distance(a, b) \in Nat /\ Distance(a, b) * m <= c
<1>1. (a - b) * m = a * m - b * m /\ (b - a) * m = b * m - a * m
  OBVIOUS
<1> QED
  BY <1>1 DEF Distance

(* A fraction rounded to the nearest step is half a step off.              *)
LEMMA Rounded ==
  ASSUME NEW den \in Nat \ {0}, NEW rest \in Nat, NEW mod \in Nat \ {0}, NEW frac \in Nat,
         NEW F \in Nat, NEW M \in Nat \ {0}, F * mod = frac * M,
         2 * frac * den - 2 * (rest * mod) \in (0 - den)..den
  PROVE  2 * Distance(F * den, rest * M) <= (1 * M * den) \div mod
<1> DEFINE a == F * den
           b == rest * M
           u == frac * den
           v == rest * mod
           c == M * den
<1>1. a \in Nat /\ b \in Nat /\ u \in Nat /\ v \in Nat /\ c \in Nat
  OBVIOUS
<1>2. a * mod = u * M
  <2>1. a * mod = (F * mod) * den
    OBVIOUS
  <2>2. (frac * M) * den = u * M
    OBVIOUS
  <2> QED BY <2>1, <2>2
<1>3. b * mod = v * M
  OBVIOUS
<1>4. 2 * u - 2 * v <= den /\ 2 * v - 2 * u <= den
  OBVIOUS
<1>5. 2 * (u * M) - 2 * (v * M) <= c /\ 2 * (v * M) - 2 * (u * M) <= c
  <2> HIDE DEF u, v
  <2>1. (2 * u - 2 * v) * M <= den * M /\ (2 * v - 2 * u) * M <= den * M
    BY <1>1, <1>4
  <2>2. (2 * u - 2 * v) * M = 2 * (u * M) - 2 * (v * M)
        /\ (2 * v - 2 * u) * M = 2 * (v * M) - 2 * (u * M) /\ den * M = c
    BY <1>1
  <2> QED BY <2>1, <2>2
<1> DEFINE m == 2 * mod
<1>6. a * m - b * m <= c /\ b * m - a * m <= c /\ m \in Nat
  <2>1. a * m = 2 * (a * mod) /\ b * m = 2 * (b * mod)
    BY <1>1
  <2> QED BY <1>2, <1>3, <1>5, <2>1
<1> HIDE DEF a, b, u, v, c, m
<1> DEFINE D == Distance(a, b)
<1>7. D \in Nat /\ D * m <= c
  BY <1>1, <1>6, DistanceOf
<1> HIDE DEF D
<1>8. 2 * D * mod <= c
  <2>1. 2 * D * mod = D * (2 * mod)
    BY <1>7
  <2> QED BY <1>7, <2>1 DEF m
<1>9. 2 * D <= c \div mod
  BY <1>1, <1>7, <1>8, StepsOf
<1>10. 1 * M * den = c
  BY DEF c
<1> QED
  BY <1>9, <1>10 DEF D, a, b

(* A fraction cut to a step is a whole step off, for the same ratio        *)
(* written differently too.                                                *)
LEMMA CutOff ==
  ASSUME NEW den \in Nat \ {0}, NEW rest \in Nat, NEW mod \in Nat \ {0}, NEW frac \in Nat,
         NEW F \in Nat, NEW M \in Nat \ {0}, F * mod = frac * M,
         rest * mod - frac * den \in 0..den,
         NEW den2 \in Nat \ {0}, NEW rest2 \in Nat, rest * den2 = rest2 * den
  PROVE  2 * Distance(F * den2, rest2 * M) <= (2 * M * den2) \div mod
<1> DEFINE u == frac * den
           v == rest * mod
           a == F * den2
           b == rest2 * M
           c == M * den2
<1>1. a \in Nat /\ b \in Nat /\ u \in Nat /\ v \in Nat /\ c \in Nat
  OBVIOUS
<1>2. (a * mod) * den = u * (M * den2)
  <2>1. (a * mod) * den = (F * mod) * (den * den2)
    OBVIOUS
  <2>2. (frac * M) * (den * den2) = u * (M * den2)
    OBVIOUS
  <2> QED BY <2>1, <2>2
<1>3. (b * mod) * den = v * (M * den2)
  <2>1. (b * mod) * den = (rest2 * den) * (M * mod)
    OBVIOUS
  <2>2. (rest * den2) * (M * mod) = v * (M * den2)
    OBVIOUS
  <2> QED BY <2>1, <2>2
<1>4. v - u >= 0 /\ v - u <= den
  OBVIOUS
<1> HIDE DEF u, v, a, b
<1>5. 0 <= v * c - u * c /\ v * c - u * c <= den * c
  <2>1. (v - u) * c >= 0 /\ (v - u) * c <= den * c
    <3> HIDE DEF c
    <3>1. v - u \in Nat
      BY <1>1, <1>4
    <3> QED BY <1>1, <1>4, <3>1
  <2>2. (v - u) * c = v * c - u * c
    BY <1>1
  <2> QED BY <2>1, <2>2
<1> DEFINE x == a * mod
           y == b * mod
<1>6. x \in Nat /\ y \in Nat /\ x * den = u * c /\ y * den = v * c
  BY <1>1, <1>2, <1>3
<1> HIDE DEF x, y, c
<1>7. x <= y
  <2> SUFFICES ASSUME x > y PROVE FALSE
    BY <1>6
  <2>1. x * den > y * den
    BY <1>6
  <2>2. u * c \in Nat /\ v * c \in Nat
    BY <1>1
  <2> QED BY <1>5, <1>6, <2>1, <2>2
<1>8. y - x <= c
  <2> SUFFICES ASSUME y - x > c PROVE FALSE
    BY <1>1, <1>6
  <2>1. (y - x) * den > c * den
    BY <1>1, <1>6
  <2>2. (y - x) * den = y * den - x * den /\ c * den = den * c
    BY <1>1, <1>6
  <2>3. u * c \in Nat /\ v * c \in Nat /\ den * c \in Nat
    BY <1>1
  <2> QED BY <1>5, <1>6, <2>1, <2>2, <2>3
<1> DEFINE D == Distance(a, b)
<1>9. D \in Nat /\ D * mod <= c
  <2>1. a * mod - b * mod <= c /\ b * mod - a * mod <= c
    BY <1>1, <1>6, <1>7, <1>8 DEF x, y
  <2> QED BY <1>1, <2>1, DistanceOf
<1> HIDE DEF D
<1>10. 2 * D * mod <= 2 * c
  <2>1. 2 * D * mod = 2 * (D * mod) /\ D * mod \in Nat
    BY <1>9
  <2> QED BY <1>1, <1>9, <2>1
<1>11. 2 * D <= (2 * c) \div mod
  BY <1>1, <1>9, <1>10, StepsOf
<1>12. 2 * M * den2 = 2 * c
  BY DEF c
<1> QED
  BY <1>11, <1>12 DEF D, a, b

(* The whole parts and the rests of two ratios are the same.               *)
SameParts(n1, d1, n2, d2) ==
  n1 \div d1 = n2 \div d2 /\ (n1 % d1) * d2 = (n2 % d2) * d1

(* Two ways to write a ratio have the same whole part and rest.            *)
LEMMA SameRatio ==
  ASSUME NEW n1 \in Nat, NEW d1 \in Nat \ {0}, NEW n2 \in Nat, NEW d2 \in Nat \ {0},
         n1 * d2 = n2 * d1
  PROVE  SameParts(n1, d1, n2, d2)
<1> DEFINE x == n1 \div d1
           y == n2 \div d2
           r == n1 % d1
           t == n2 % d2
<1>1. x \in Nat /\ r \in Nat /\ r < d1 /\ n1 = d1 * x + r
  BY Division
<1>2. y \in Nat /\ t \in Nat /\ t < d2 /\ n2 = d2 * y + t
  BY Division
<1> HIDE DEF x, y, r, t
<1> DEFINE p == d1 * d2
           a == r * d2
           b == t * d1
<1>3. p \in Nat /\ p > 0 /\ a \in Nat /\ b \in Nat
  BY <1>1, <1>2
<1>4. a < p /\ b < p
  <2>1. r * d2 < d1 * d2
    BY <1>1
  <2>2. t * d1 < d2 * d1
    BY <1>2
  <2>3. d2 * d1 = d1 * d2
    OBVIOUS
  <2> QED BY <2>1, <2>2, <2>3
<1>5. p * x + a = p * y + b
  <2>1. n1 * d2 = (d1 * x) * d2 + r * d2
    BY <1>1
  <2>2. n2 * d1 = (d2 * y) * d1 + t * d1
    BY <1>2
  <2>3. (d1 * x) * d2 = p * x /\ (d2 * y) * d1 = p * y
    BY <1>1, <1>2
  <2> QED BY <2>1, <2>2, <2>3
<1> HIDE DEF p, a, b
<1>6. x = y /\ a = b
  <2>1. (p * x + a) \div p = x /\ (p * x + a) % p = a
    BY <1>1, <1>3, <1>4, Quotient
  <2>2. (p * y + b) \div p = y /\ (p * y + b) % p = b
    BY <1>2, <1>3, <1>4, Quotient
  <2> QED BY <1>5, <2>1, <2>2
<1> QED
  BY <1>6 DEF SameParts, x, y, a, b, r, t

(* The chip needs the ratio the programs calculate.                        *)
LEMMA NeededOf ==
  ASSUME NEW q \in Requests, NEW p, NEW w, Reads(w, q, p)
  PROVE  Needed(w, q.ref, q.freq) = N(q, p.divider)
<1>1. ChipPfd(w, q.ref) = Pfd(q)
  BY Zenon DEF Reads, ChipPfd, Pfd
<1> QED
  BY <1>1, Zenon DEF Reads, Needed, N

(* What WithinHalfSteps asks, with the fields read.                        *)
LEMMA Within ==
  ASSUME NEW q \in Requests, NEW p, NEW w, Reads(w, q, p), NEW k \in Nat, NEW step,
         p.INT \in Nat, p.FRAC \in Nat, p.MOD \in Nat,
         NEW n, n = N(q, p.divider), n.num \in Nat, n.den \in Nat \ {0},
         p.INT = n.num \div n.den,
         2 * Distance(p.FRAC * n.den, (n.num % n.den) * p.MOD) <= (k * p.MOD * n.den) \div step
  PROVE  WithinHalfSteps(k, w, q.ref, q.freq, step)
<1> DEFINE whole == n.num \div n.den
<1>1. Needed(w, q.ref, q.freq) = n
  BY NeededOf
<1>2. getReg(w, "INT") = whole /\ getReg(w, "FRAC") = p.FRAC /\ getReg(w, "MOD") = p.MOD
  BY Zenon DEF Reads
<1>3. whole \in Nat
  OBVIOUS
<1>4. Distance(whole, whole) <= 1
  <2> HIDE DEF whole
  <2> QED BY <1>3 DEF Distance
<1>5. (whole - whole) * p.MOD * n.den + p.FRAC * n.den = p.FRAC * n.den
  <2> DEFINE a == p.FRAC * n.den
             M == p.MOD
             d == n.den
  <2>1. a \in Nat /\ M \in Nat /\ d \in Nat
    OBVIOUS
  <2> HIDE DEF whole, a, M, d
  <2>2. whole - whole = 0
    BY <1>3
  <2>3. 0 * M * d + a = a
    BY <2>1
  <2>4. (whole - whole) * M * d + a = a
    BY <2>2, <2>3, Zenon
  <2> QED BY <2>4 DEF a, M, d
<1> HIDE DEF whole
<1>6. 2 * Distance((whole - whole) * p.MOD * n.den + p.FRAC * n.den, (n.num % n.den) * p.MOD)
        <= (k * p.MOD * n.den) \div step
  BY <1>5, Zenon
<1> QED
  BY <1>1, <1>2, <1>4, <1>6, Zenon DEF WithinHalfSteps, whole

(* The same one step below a whole ratio: the whole part is one lower, and *)
(* the fraction lacks one step of the modulus.                             *)
LEMMA WithinBelow ==
  ASSUME NEW q \in Requests, NEW p, NEW w, Reads(w, q, p), NEW step \in Nat \ {0},
         p.INT \in Nat, p.FRAC \in Nat, p.MOD \in Nat \ {0},
         NEW n, n = N(q, p.divider), n.num \in Nat, n.den \in Nat \ {0},
         p.INT = n.num \div n.den - 1, n.num % n.den = 0,
         p.FRAC * step = (step - 1) * p.MOD
  PROVE  WithinHalfSteps(2, w, q.ref, q.freq, step)
<1> DEFINE whole == n.num \div n.den
           INT == p.INT
           F == p.FRAC
           M == p.MOD
           d == n.den
           off == (INT - whole) * M * d + F * d
<1>1. Needed(w, q.ref, q.freq) = n
  BY NeededOf
<1>2. getReg(w, "INT") = INT /\ getReg(w, "FRAC") = F /\ getReg(w, "MOD") = M
  BY Zenon DEF Reads
<1>3. whole \in Nat /\ INT \in Nat /\ INT = whole - 1 /\ F \in Nat /\ M \in Nat \ {0}
      /\ d \in Nat \ {0} /\ F * step = (step - 1) * M
  OBVIOUS
<1>4. (n.num % n.den) * M = 0
  BY <1>3
<1> HIDE DEF whole, INT, F, M, d
<1>5. Distance(INT, whole) <= 1
  BY <1>3 DEF Distance
<1>6. F <= M
  <2> SUFFICES ASSUME F >= M + 1 PROVE FALSE
    BY <1>3
  <2>1. F * step >= (M + 1) * step
    BY <1>3
  <2>2. (M + 1) * step = M * step + step /\ (step - 1) * M = M * step - M /\ M * step \in Nat
    BY <1>3
  <2> QED BY <1>3, <2>1, <2>2
<1> DEFINE gap == (M - F) * d
<1>7. off = 0 - gap /\ gap \in Nat
  <2>1. INT - whole = 0 - 1
    BY <1>3
  <2>2. off = (0 - 1) * M * d + F * d
    BY <2>1, Zenon
  <2>3. M - F \in Nat
    BY <1>3, <1>6
  <2>4. gap \in Nat
    BY <1>3, <2>3
  <2>5. (0 - 1) * M * d + F * d = 0 - (M - F) * d
    BY <1>3
  <2> QED BY <2>2, <2>4, <2>5
<1> HIDE DEF off
<1>8. gap * step = M * d
  <2>1. (M - F) * step = M
    <3>1. (M - F) * step = M * step - F * step /\ (step - 1) * M = M * step - M
          /\ M * step \in Nat
      BY <1>3
    <3> QED BY <1>3, <3>1
  <2>2. gap * step = ((M - F) * step) * d
    BY <1>3
  <2> QED BY <2>1, <2>2, Zenon
<1> HIDE DEF gap
<1>9. Distance(off, 0) = gap
  BY <1>7 DEF Distance
<1> DEFINE D == Distance(off, 0)
           c == M * d
<1>10. c \in Nat /\ D \in Nat /\ 2 * D * step <= 2 * c
  <2>1. 2 * gap * step = 2 * (gap * step) /\ M * d \in Nat
    BY <1>3, <1>7
  <2> QED BY <1>7, <1>8, <1>9, <2>1
<1> HIDE DEF D, c
<1>11. 2 * D <= (2 * c) \div step
  <2>1. 2 * c \in Nat
    BY <1>10
  <2> QED BY <1>10, <2>1, StepsOf
<1>12. 2 * M * d = 2 * c
  BY <1>3 DEF c
<1>13. 2 * Distance(off, (n.num % n.den) * M) <= (2 * M * d) \div step
  BY <1>4, <1>11, <1>12, Zenon DEF D
<1> QED
  BY <1>1, <1>2, <1>5, <1>13, Zenon DEF WithinHalfSteps, whole, off, M, d

(* The words of a plan of the library or of the GUI give the ratio up to   *)
(* half a step of the modulus.                                             *)
LEMMA PlansTune ==
  ASSUME NEW q \in Requests, NEW divider \in Dividers, NEW band \in Nat,
         NEW p \in Plans(q, divider, band), p.up = FALSE, NEW w, Reads(w, q, p)
  PROVE  WithinHalfSteps(1, w, q.ref, q.freq, p.step)
<1> DEFINE n == N(q, divider)
<1>1. divider \in Nat
  BY DEF Dividers
<1>2. PICK mod \in Nat \ {0}, frac \in Nat : PlanFrom(p, divider, band, n, mod, frac)
  BY <1>1, PlansAre
<1>3. n.num \in Nat /\ n.den \in Nat \ {0}
  BY <1>1, NOf
<1>4. p.divider = divider /\ p.step = mod
  BY <1>2, Zenon DEF PlanFrom
<1> HIDE DEF n
<1>5. frac < mod
  <2>1. p.up = (frac = mod)
    BY <1>2, Zenon DEF PlanFrom
  <2>2. frac # mod
    BY <2>1, Zenon
  <2>3. frac <= mod
    BY <1>2, Zenon DEF PlanFrom
  <2> QED BY <2>2, <2>3
<1>6. p.INT = n.num \div n.den /\ Nears(n, mod, frac)
  BY <1>2, <1>5, Zenon DEF PlanFrom
<1>7. p.FRAC = Reduced(mod, frac).FRAC /\ p.MOD = Reduced(mod, frac).MOD
  BY <1>2, Zenon DEF PlanFrom
<1>8. p.FRAC \in Nat /\ p.MOD \in Nat \ {0} /\ p.FRAC * mod = frac * p.MOD
  <2>1. frac \in 0..mod
    BY <1>5
  <2>2. /\ Reduced(mod, frac).MOD \in Nat \ {0, 1} /\ Reduced(mod, frac).FRAC \in Nat
        /\ Reduced(mod, frac).FRAC * mod = frac * Reduced(mod, frac).MOD
    BY <1>5, <2>1, ReducedOf
  <2> QED BY <1>7, <2>2
<1> DEFINE rest == n.num % n.den
           F == p.FRAC
           M == p.MOD
           den == n.den
<1>9. rest \in Nat /\ den \in Nat \ {0} /\ 2 * frac * den - 2 * (rest * mod) \in (0 - den)..den
  BY <1>3, <1>6, Division DEF Nears
<1>10. 2 * Distance(F * den, rest * M) <= (1 * M * den) \div mod
  <2> HIDE DEF rest, F, M, den
  <2>1. F \in Nat /\ M \in Nat \ {0} /\ F * mod = frac * M
    BY <1>8 DEF F, M
  <2> QED BY <1>9, <2>1, Rounded
<1>11. p.INT \in Nat /\ p.MOD \in Nat /\ 1 \in Nat
  BY <1>2, <1>8 DEF PlanFrom
<1>12. n = N(q, p.divider)
  BY <1>4, Zenon DEF n
<1> QED
  BY <1>3, <1>4, <1>6, <1>8, <1>10, <1>11, <1>12, Within, Zenon

(* Those of the command line program up to a whole step.                   *)
LEMMA EvalPlansTune ==
  ASSUME NEW q \in Requests, q.prog = "adf4351-eval", NEW p \in EvalPlans(q), NEW w, Reads(w, q, p)
  PROVE  WithinHalfSteps(2, w, q.ref, q.freq, p.step)
<1> DEFINE pfd == EvalPfd(q)
           mod == EvalMod(q)
           n == EvalN(q)
           D == GuiDivider(q.freq)
           m == N(q, D)
           H == Hertz(q)
           freq == q.freq
           r == q.r
           f == Pfd(q)
<1>1. /\ pfd \in Nat /\ pfd >= 1000 /\ pfd * r = H /\ mod \in Nat \ {0}
      /\ n.num \in Nat /\ n.den \in Nat \ {0} /\ n.num * pfd = freq * D * 1000 * n.den
  <2>1. EvalNumbers(q)
    BY EvalOf, Zenon
  <2> QED BY <2>1, SMT DEF EvalNumbers
<1>2. p.divider = D /\ p.step = mod
  BY EvalOf, Zenon
<1>3. PICK frac \in Nat : EvalFrom(p, n, mod, frac)
  BY EvalOf, Zenon
<1>4. D \in Dividers /\ D \in Nat /\ freq \in Nat
  BY GuiDividerType, SMT DEF Dividers
<1>5. m.num \in Nat /\ m.den \in Nat \ {0}
  BY <1>4, NOf
<1>6. r \in Nat \ {0} /\ H \in Nat \ {0} /\ q.feedback = 1 /\ q.doubler = 0 /\ q.div2 = 0
  <2>1. q.feedback = 1 /\ q.doubler = 0 /\ q.div2 = 0
    BY RequestsAssumption, SMT
  <2>2. r \in Nat \ {0} /\ q.ref \in Nat \ {0}
    BY RequestType, SMT
  <2> QED BY <2>1, <2>2, SMT DEF Hertz
<1>7. f.num \in Nat \ {0} /\ f.den \in Nat \ {0} /\ 1000 * (f.num * r) = H * f.den
  <2>1. f.num \in Nat \ {0} /\ f.den \in Nat \ {0}
        /\ f.num * ((1 + q.div2) * q.r) = (1000 * q.ref * (1 + q.doubler)) * f.den
    BY PfdOf, SMT
  <2>2. f.num * ((1 + 0) * r) = (1000 * q.ref * (1 + 0)) * f.den
    <3> DEFINE K == 1000 * q.ref
               g == Pfd(q)
    <3>1. g.num * ((1 + q.div2) * q.r) = (K * (1 + q.doubler)) * g.den
      BY <2>1
    <3> HIDE DEF K, g
    <3>2. g.num * ((1 + 0) * q.r) = (K * (1 + 0)) * g.den
      BY <1>6, <3>1, Zenon
    <3> QED BY <3>2, SMT DEF K, g
  <2> DEFINE a == f.num
             b == f.den
             ref == q.ref
  <2>3. a \in Nat /\ b \in Nat /\ ref \in Nat /\ r \in Nat
    BY <1>6, <2>1, RequestType, SMT
  <2>4. a * ((1 + 0) * r) = (1000 * ref * (1 + 0)) * b
    BY <2>2, SMT
  <2>5. H = 1000000 * ref
    BY SMT DEF Hertz
  <2> HIDE DEF a, b, ref, r, f, H
  <2>6. a * r = 1000 * ref * b
    BY <2>3, <2>4, SMT
  <2>7. 1000 * (a * r) = H * b
    BY <2>3, <2>5, <2>6, SMT
  <2> QED BY <2>1, <2>7, SMT DEF a, b
<1>8. m.num * f.num = (freq * D * f.den) * m.den
  <2>1. freq * D * f.den \in Nat
    BY <1>4, <1>7
  <2>2. m = Ratio(freq * D * f.den, f.num)
    BY <1>6, Zenon DEF N
  <2> HIDE DEF m, f, D, freq
  <2> QED BY <1>7, <2>1, <2>2, RatioOf
<1> DEFINE num == n.num
           den == n.den
           num2 == m.num
           den2 == m.den
           a == f.num
           b == f.den
           c == freq * D
           e == freq * D * 1000
           z == 1000 * a
<1>9. /\ num \in Nat /\ den \in Nat \ {0} /\ num2 \in Nat /\ den2 \in Nat \ {0}
      /\ a \in Nat \ {0} /\ b \in Nat \ {0} /\ c \in Nat /\ pfd \in Nat \ {0}
      /\ pfd * r = H /\ num * pfd = e * den /\ num2 * a = (c * b) * den2
      /\ r \in Nat \ {0} /\ e \in Nat /\ z \in Nat
  BY <1>1, <1>4, <1>5, <1>6, <1>7, <1>8, SMT
<1>10. e * a = c * z
  <2> HIDE DEF D, freq, a
  <2>1. D \in Nat /\ freq \in Nat /\ a \in Nat
    BY <1>4, <1>9
  <2> QED BY <2>1, SMT
<1>11. z * r = H * b
  <2> HIDE DEF H, a, b, r
  <2>1. 1000 * (a * r) = H * b
    BY <1>7, SMT DEF H, a, b, r
  <2>2. z * r = 1000 * (a * r)
    BY <1>9, SMT
  <2> QED BY <2>1, <2>2, SMT
<1> HIDE DEF H, f, D, freq, r, n, m, pfd, num, den, num2, den2, a, b, c, e, z
<1>12. num * den2 = num2 * den
  <2>1. z = pfd * b
    <3>1. z * r = (pfd * b) * r
      <4>1. (pfd * b) * r = (pfd * r) * b
        BY <1>9
      <4> QED BY <1>9, <1>11, <4>1, Zenon
    <3> DEFINE y == pfd * b
    <3>2. y \in Nat /\ z * r = y * r
      BY <1>9, <3>1
    <3> HIDE DEF y
    <3>3. z = y
      BY <1>9, <3>2
    <3> QED BY <3>3 DEF y
  <2> DEFINE x == num * den2
             y == num2 * den
             k == pfd * a
  <2>2. x \in Nat /\ y \in Nat /\ k \in Nat /\ k > 0
    BY <1>9
  <2>3. x * k = (num * pfd) * (a * den2)
    BY <1>9
  <2>4. y * k = (num2 * a) * (pfd * den)
    BY <1>9
  <2>5. (e * den) * (a * den2) = (e * a) * (den * den2)
    BY <1>9
  <2>6. ((c * b) * den2) * (pfd * den) = (c * (pfd * b)) * (den * den2)
    BY <1>9
  <2> HIDE DEF x, y, k
  <2>7. x * k = y * k
    BY <1>9, <1>10, <2>1, <2>3, <2>4, <2>5, <2>6, Zenon
  <2>8. x = y
    BY <2>2, <2>7
  <2> QED BY <2>8 DEF x, y
<1>13. num \div den = num2 \div den2 /\ (num % den) * den2 = (num2 % den2) * den
  <2>1. num \in Nat /\ den \in Nat \ {0} /\ num2 \in Nat /\ den2 \in Nat \ {0}
    BY <1>9, Zenon
  <2>2. SameParts(num, den, num2, den2)
    BY <1>12, <2>1, SameRatio, Zenon
  <2> QED BY <2>2, Zenon DEF SameParts
<1> DEFINE rest == num % den
           rest2 == num2 % den2
           F == p.FRAC
           M == p.MOD
<1>14. rest \in Nat /\ rest2 \in Nat /\ rest * den2 = rest2 * den
  BY <1>9, <1>13, Division
<1>15. /\ p.INT \in Nat /\ frac < mod
       /\ F = (IF frac = 0 THEN 0 ELSE Reduced(mod, frac).FRAC)
       /\ M = (IF frac = 0 THEN 2 ELSE Reduced(mod, frac).MOD)
       /\ CutFrom(p, n, mod, frac) \/ BelowFrom(p, n, mod, frac)
  BY <1>3, Zenon DEF EvalFrom
<1>16. F \in Nat /\ M \in Nat \ {0} /\ F * mod = frac * M
  <2>1. frac \in 0..mod
    BY <1>1, <1>15
  <2>2. /\ Reduced(mod, frac).MOD \in Nat \ {0, 1} /\ Reduced(mod, frac).FRAC \in Nat
        /\ Reduced(mod, frac).FRAC * mod = frac * Reduced(mod, frac).MOD
    BY <1>1, <1>15, <2>1, ReducedOf
  <2> HIDE DEF F, M, mod
  <2>3. CASE frac = 0
    BY <1>1, <1>15, <2>3
  <2>4. CASE frac # 0
    BY <1>15, <2>2, <2>4
  <2> QED BY <2>3, <2>4
<1>17. m = N(q, p.divider)
  BY <1>2, Zenon DEF m
<1>18. CASE CutFrom(p, n, mod, frac)
  <2>1. p.INT = num \div den /\ rest * mod - frac * den \in 0..den
    BY <1>18, Zenon DEF CutFrom, num, den
  <2>2. 2 * Distance(F * den2, rest2 * M) <= (2 * M * den2) \div mod
    <3> HIDE DEF F, M, mod, rest, rest2
    <3>1. den \in Nat \ {0} /\ den2 \in Nat \ {0} /\ mod \in Nat \ {0}
      BY <1>1, <1>9, Zenon
    <3> QED BY <1>14, <1>16, <2>1, <3>1, CutOff, Zenon
  <2>3. p.INT = m.num \div m.den
    BY <1>13, <2>1 DEF num2, den2
  <2>4. M \in Nat /\ 2 \in Nat
    BY <1>16
  <2>5. 2 * Distance(p.FRAC * m.den, (m.num % m.den) * p.MOD) <= (2 * p.MOD * m.den) \div p.step
    BY <1>2, <2>2, Zenon DEF num2, den2
  <2> QED
    BY <1>5, <1>15, <1>16, <1>17, <2>3, <2>4, <2>5, Within, Zenon
<1>19. CASE BelowFrom(p, n, mod, frac)
  <2>1. p.INT = num \div den - 1 /\ rest = 0 /\ frac = mod - 1
    BY <1>19, Zenon DEF BelowFrom, num, den
  <2>2. rest2 = 0
    <3> HIDE DEF rest, rest2
    <3>1. 0 * den2 = rest2 * den
      BY <1>14, <2>1, Zenon
    <3> QED BY <1>9, <1>14, <3>1
  <2>3. p.INT = m.num \div m.den - 1 /\ m.num % m.den = 0
    BY <1>13, <2>1, <2>2, Zenon DEF num2, den2
  <2>4. p.FRAC * mod = (mod - 1) * p.MOD
    BY <1>16, <2>1, Zenon
  <2>5. p.step = mod /\ mod \in Nat \ {0}
    BY <1>1, <1>2, Zenon
  <2> QED
    BY <1>5, <1>15, <1>16, <1>17, <2>3, <2>4, <2>5, WithinBelow, Zenon
<1> QED
  BY <1>15, <1>18, <1>19

(***************************************************************************)
(* What the programs build                                                 *)
(***************************************************************************)
Fits(p) == p.INT < 65536 /\ p.MOD < 4096 /\ p.band < 256

(* Half steps of the modulus that the fraction may be off.                 *)
Steps(q) == IF q.prog = "adf4351-eval" THEN 2 ELSE 1

(* So is the library's.                                                    *)
LEMMA ReachesDivider ==
  ASSUME NEW freq, NEW divider, Reaches(freq, divider)
  PROVE  divider \in Dividers
BY SMT DEF Reaches, Dividers

(* The words of a request and its plan are right.                          *)
Right(q, p, w) ==
  /\ PlanType(p) /\ w \in [Regs -> Nat] /\ Reaches(q.freq, p.divider)
  /\ q.prog = "core.py" => Fits(p)
  /\ Fits(p) => /\ Numbered(w)
                /\ p.up = FALSE => WithinHalfSteps(Steps(q), w, q.ref, q.freq, p.step)
                /\ q.prog # "adf4351-eval" => \E o \in Others : Kept(w, o)

(* The other settings of the model leave the planned fields free.          *)
LEMMA OthersSurround ==
  ASSUME NEW o \in Others
  PROVE  Surrounding(o) /\ o \in [Regs -> Nat]
BY OthersAssumption DEF Surrounding

(* A plan that fits has values that fit, field by field.                   *)
LEMMA FittingOf ==
  ASSUME NEW p, PlanType(p), Fits(p)
  PROVE  Fitting(p)
BY SMT DEF PlanType, Fits, Fitting, Bits

(* What the checks of make_regs let through fits.                          *)
LEMMA InFieldsFits ==
  ASSUME NEW p, NEW o, InFields(p, o), p.band < 256
  PROVE  Fits(p)
<1> DEFINE least == IF Field(o[1], 27, 1) = 0 THEN 23 ELSE 75
           i == p.INT
           m == p.MOD
<1>1. i \in least..65535 /\ m \in 2..4095
  BY SMT DEF InFields
<1> HIDE DEF i, m
<1>2. least = 23 \/ least = 75
  BY SMT
<1> HIDE DEF least
<1>3. i < 65536
  BY <1>1, <1>2, SMT
<1>4. m < 4096
  BY <1>1, SMT
<1> QED
  BY <1>3, <1>4, SMT DEF Fits, i, m

(* The words of the library are right.                                     *)
LEMMA LibraryRight ==
  ASSUME NEW q \in Requests, q.prog = "core.py",
         NEW p \in Plans(q, LibraryDivider(q.freq), LibraryBand(q)),
         NEW o \in Others, InFields(p, o), NEW ldf \in Bits(1)
  PROVE  Right(q, p, Words(q, p, o, ldf))
<1> DEFINE divider == LibraryDivider(q.freq)
           band == LibraryBand(q)
           w == Words(q, p, o, ldf)
<1>1. Reaches(q.freq, divider)
  BY RequestType, LibraryReaches
<1>2. divider \in Dividers
  BY <1>1, ReachesDivider, Zenon
<1>3. band \in Nat /\ band < 256
  <2>1. band \in 0..255
    BY BandType
  <2> HIDE DEF band
  <2> QED BY <2>1, SMT
<1>4. PlanType(p) /\ p.divider = divider /\ p.band = band
  BY <1>2, <1>3, PlansType
<1>5. Fits(p)
  <2>1. p.band < 256
    BY <1>3, <1>4, Zenon
  <2> QED BY <2>1, InFieldsFits
<1>6. Surrounding(o) /\ o \in [Regs -> Nat]
  BY OthersSurround
<1>7. Fitting(p)
  BY <1>4, <1>5, FittingOf
<1>8. Reads(w, q, p) /\ Numbered(w) /\ Kept(w, o)
  BY <1>6, <1>7, WordsRead
<1>9. w \in [Regs -> Nat]
  <2>1. p.INT \in Nat /\ p.FRAC \in Nat /\ p.MOD \in Nat /\ p.band \in Nat /\ p.divider \in Dividers
    BY <1>4 DEF PlanType
  <2> QED BY <1>6, <2>1, WordsType
<1> HIDE DEF divider, band, w
<1>10. p.up = FALSE => WithinHalfSteps(1, w, q.ref, q.freq, p.step)
  BY <1>2, <1>3, <1>8, PlansTune DEF divider, band
<1>11. Steps(q) = 1
  BY DEF Steps
<1> QED
  BY <1>1, <1>4, <1>5, <1>8, <1>9, <1>10, <1>11, Zenon DEF Right, w

(* A value that fits is not cut.                                           *)
LEMMA CutOf ==
  ASSUME NEW p, PlanType(p),
         p = [INT |-> p.INT, FRAC |-> p.FRAC, MOD |-> p.MOD, divider |-> p.divider,
              band |-> p.band, step |-> p.step, up |-> p.up]
  PROVE  LET c == CutToFields(p) IN
         /\ c.INT \in Nat /\ c.FRAC \in Nat /\ c.MOD \in Nat
         /\ c.divider = p.divider /\ c.band = p.band
         /\ Fits(p) => c.INT = p.INT /\ c.FRAC = p.FRAC /\ c.MOD = p.MOD
<1> DEFINE c == CutToFields(p)
<1>1. c.INT = p.INT % 65536 /\ c.FRAC = p.FRAC % 4096 /\ c.MOD = p.MOD % 4096
      /\ c.divider = p.divider /\ c.band = p.band
  BY SMT DEF CutToFields
<1> HIDE DEF c
<1>2. p.INT \in Nat /\ p.FRAC \in Nat /\ p.MOD \in Nat /\ p.FRAC < p.MOD
  BY SMT DEF PlanType
<1>3. c.INT \in Nat /\ c.FRAC \in Nat /\ c.MOD \in Nat
  BY <1>1, <1>2, SMT
<1>4. Fits(p) => c.INT = p.INT /\ c.FRAC = p.FRAC /\ c.MOD = p.MOD
  BY <1>1, <1>2, SMT DEF Fits
<1>5. c.divider = p.divider /\ c.band = p.band
  BY <1>1, SMT
<1> QED
  BY <1>3, <1>4, <1>5, Zenon DEF c

(* The words of the GUI are right.                                         *)
LEMMA GuiRight ==
  ASSUME NEW q \in Requests, q.prog = "adf4351.cpp", NEW band \in GuiBands(q),
         NEW p \in Plans(q, GuiDivider(q.freq), band), NEW o \in Others, NEW ldf \in Bits(1)
  PROVE  Right(q, p, Words(q, CutToFields(p), o, ldf))
<1> DEFINE divider == GuiDivider(q.freq)
           c == CutToFields(p)
           w == Words(q, c, o, ldf)
<1>1. Reaches(q.freq, divider)
  BY RequestType, GuiReaches
<1>2. divider \in Dividers /\ divider \in Nat
  BY <1>1 DEF Reaches, Dividers
<1>3. band \in Nat
  BY BandType
<1>4. PlanType(p) /\ p.divider = divider /\ p.band = band
  BY <1>2, <1>3, PlansType
<1>5. p = [INT |-> p.INT, FRAC |-> p.FRAC, MOD |-> p.MOD, divider |-> p.divider,
           band |-> p.band, step |-> p.step, up |-> p.up]
  <2>1. PICK mod \in Nat \ {0}, frac \in Nat :
             PlanFrom(p, divider, band, N(q, divider), mod, frac)
    BY <1>2, PlansAre
  <2> QED BY <2>1, Zenon DEF PlanFrom
<1>6. /\ c.INT \in Nat /\ c.FRAC \in Nat /\ c.MOD \in Nat
      /\ c.divider = p.divider /\ c.band = p.band
      /\ Fits(p) => c.INT = p.INT /\ c.FRAC = p.FRAC /\ c.MOD = p.MOD
  BY <1>4, <1>5, CutOf, Zenon
<1>7. Surrounding(o) /\ o \in [Regs -> Nat]
  BY OthersSurround
<1> HIDE DEF c, divider
<1>8. w \in [Regs -> Nat]
  <2>1. c.band \in Nat /\ c.divider \in Dividers
    BY <1>2, <1>3, <1>4, <1>6
  <2> QED BY <1>6, <1>7, <2>1, WordsType
<1>9. ASSUME Fits(p)
      PROVE  Reads(w, q, p) /\ Numbered(w) /\ Kept(w, o)
  <2>1. Fitting(p)
    BY <1>4, <1>9, FittingOf
  <2>2. Fitting(c)
    BY <1>6, <1>9, <2>1, Zenon DEF Fitting
  <2>3. Reads(w, q, c) /\ Numbered(w) /\ Kept(w, o)
    BY <1>7, <2>2, WordsRead
  <2> HIDE DEF w
  <2>4. Reads(w, q, p)
    BY <1>6, <1>9, <2>3, Zenon DEF Reads
  <2> QED BY <2>3, <2>4
<1> HIDE DEF w
<1>10. ASSUME Fits(p), p.up = FALSE
       PROVE  WithinHalfSteps(1, w, q.ref, q.freq, p.step)
  BY <1>2, <1>3, <1>9, <1>10, PlansTune DEF divider
<1>11. Steps(q) = 1 /\ q.prog # "core.py"
  BY DEF Steps
<1>12. Reaches(q.freq, p.divider)
  BY <1>1, <1>4, Zenon
<1>13. Right(q, p, w)
  BY <1>4, <1>8, <1>9, <1>10, <1>11, <1>12, Zenon DEF Right
<1> QED
  BY <1>13, Zenon DEF w, c

(* A field assigned is a number.                                           *)
LEMMA AssignedType ==
  ASSUME NEW v \in Nat
  PROVE  /\ Assigned("INT", v) \in Nat /\ Assigned("FRAC", v) \in Nat /\ Assigned("MOD", v) \in Nat
         /\ Assigned("phase", v) \in Nat /\ Assigned("prescaler", v) \in Nat
         /\ Assigned("muxOut", v) \in Nat /\ Assigned("RCounter", v) \in Nat
         /\ Assigned("doubleBuffer", v) \in Nat /\ Assigned("CPCurrent", v) \in Nat
         /\ Assigned("LDF", v) \in Nat /\ Assigned("LDP", v) \in Nat
         /\ Assigned("PDPolarity", v) \in Nat /\ Assigned("clkDiv", v) \in Nat
         /\ Assigned("feedback", v) \in Nat /\ Assigned("RFDivSel", v) \in Nat
         /\ Assigned("bandSelClkDiv", v) \in Nat /\ Assigned("MTLD", v) \in Nat
         /\ Assigned("outEnable", v) \in Nat /\ Assigned("outPower", v) \in Nat
         /\ Assigned("LDPinMode", v) \in Nat
BY AssignedAre, SMT

(* Whatever the values, the words are numbers.                             *)
LEMMA EvalWordsType ==
  ASSUME NEW q \in Requests, NEW p, PlanType(p)
  PROVE  EvalWords(q, p) \in [Regs -> Nat]
<1> DEFINE v == EvalWords(q, p)
           u == Whole(p)
           e == Exponent(p.divider)
<1>1. u \in Nat /\ q.r \in Nat /\ e \in Nat
  <2>1. e \in 0..6
    BY ExponentOf DEF PlanType
  <2>2. \A k \in 0..6 : k \in Nat
    BY SMT
  <2>3. q.r \in Nat
    BY RequestType, SMT
  <2>4. u \in Nat
    BY SMT DEF Whole
  <2> QED BY <2>1, <2>2, <2>3, <2>4, Zenon
<1>2. p.INT \in Nat /\ p.FRAC \in Nat /\ p.MOD \in Nat /\ p.band \in Nat
  BY DEF PlanType
<1>3. EvalHold(v, q, p, u, e)
  BY EvalWordsIs
<1> HIDE DEF u, e, v
<1>4. v[0] \in Nat /\ v[1] \in Nat
  <2>1. /\ Assigned("INT", p.INT) \in Nat /\ Assigned("FRAC", p.FRAC) \in Nat
        /\ Assigned("MOD", p.MOD) \in Nat
    BY <1>2, AssignedType, Zenon
  <2>2. Assigned("phase", 1) \in Nat /\ Assigned("prescaler", 1) \in Nat
    BY AssignedType, SMT
  <2> QED BY <1>3, <2>1, <2>2, SMT DEF EvalHold
<1>5. v[2] \in Nat
  <2>1. /\ Assigned("RCounter", q.r) \in Nat /\ Assigned("LDF", u) \in Nat
        /\ Assigned("LDP", u) \in Nat
    BY <1>1, AssignedType, Zenon
  <2>2. /\ Assigned("muxOut", 6) \in Nat /\ Assigned("doubleBuffer", 1) \in Nat
        /\ Assigned("CPCurrent", 7) \in Nat /\ Assigned("PDPolarity", 1) \in Nat
    BY AssignedType, SMT
  <2> QED BY <1>3, <2>1, <2>2, SMT DEF EvalHold
<1>6. v[4] \in Nat
  <2>1. Assigned("RFDivSel", e) \in Nat /\ Assigned("bandSelClkDiv", p.band) \in Nat
    BY <1>1, <1>2, AssignedType, Zenon
  <2>2. /\ Assigned("feedback", 1) \in Nat /\ Assigned("MTLD", 1) \in Nat
        /\ Assigned("outEnable", 1) \in Nat /\ Assigned("outPower", 3) \in Nat
    BY AssignedType, SMT
  <2> QED BY <1>3, <2>1, <2>2, SMT DEF EvalHold
<1>7. v[3] \in Nat /\ v[5] \in Nat
  <2>1. Assigned("clkDiv", 150) \in Nat /\ Assigned("LDPinMode", 1) \in Nat
    BY AssignedType, SMT
  <2> QED BY <1>3, <2>1, SMT DEF EvalHold
<1>8. \A r \in Regs : v[r] \in Nat
  BY <1>4, <1>5, <1>6, <1>7, SMT DEF Regs
<1>9. v = [r \in Regs |-> v[r]]
  BY <1>3, Zenon DEF EvalHold
<1>10. v \in [Regs -> Nat]
  BY <1>8, <1>9, Zenon
<1> QED
  BY <1>10 DEF v

(* The words of the command line program are right.                        *)
LEMMA EvalRight ==
  ASSUME NEW q \in Requests, q.prog = "adf4351-eval", NEW p \in EvalPlans(q)
  PROVE  Right(q, p, EvalWords(q, p))
<1> DEFINE v == EvalWords(q, p)
           o == EvalOthers(Whole(p))
<1>1. PlanType(p) /\ p.divider = GuiDivider(q.freq)
  BY EvalPlansType
<1>2. Reaches(q.freq, p.divider)
  <2>1. Reaches(q.freq, GuiDivider(q.freq))
    BY RequestType, GuiReaches
  <2> QED BY <1>1, <2>1, Zenon
<1>3. v \in [Regs -> Nat]
  BY <1>1, EvalWordsType
<1>4. ASSUME Fits(p)
      PROVE  Reads(v, q, p) /\ Numbered(v)
  <2>1. Fitting(p)
    BY <1>1, <1>4, FittingOf
  <2>2. Whole(p) \in Bits(1)
    BY SMT DEF Whole, Bits
  <2>3. Surrounding(o)
    BY <2>2, EvalOthersSurround
  <2>4. v = Words(q, p, o, Whole(p))
    BY <2>1, EvalWordsAre
  <2> HIDE DEF o, v
  <2>5. Reads(Words(q, p, o, Whole(p)), q, p) /\ Numbered(Words(q, p, o, Whole(p)))
    BY <2>1, <2>2, <2>3, WordsRead
  <2> QED BY <2>4, <2>5, Zenon
<1> HIDE DEF v
<1>5. ASSUME Fits(p)
      PROVE  WithinHalfSteps(2, v, q.ref, q.freq, p.step)
  BY <1>4, <1>5, EvalPlansTune
<1>6. Steps(q) = 2 /\ q.prog # "core.py"
  BY DEF Steps
<1>7. Right(q, p, v)
  BY <1>1, <1>2, <1>3, <1>4, <1>5, <1>6, Zenon DEF Right
<1> QED
  BY <1>7 DEF v

(* Switched off is off.                                                    *)
LEMMA OffRight ==
  /\ OffWords \in [Regs -> Nat] /\ Numbered(OffWords)
  /\ getReg(OffWords, "VCOPowerDown") = 1 /\ getReg(OffWords, "outEnable") = 0
<1> DEFINE v == OffWords
<1>1. /\ v[0] = 0 /\ v[1] = 1 /\ v[2] = 2 /\ v[3] = 3 /\ v[4] = 4 + Assigned("VCOPowerDown", 1)
      /\ v[5] = 5 + 3 * 2^19
  BY SMT DEF OffWords, Regs
<1>2. Assigned("VCOPowerDown", 1) = 2048
  BY AssignedAre, SMT
<1>3. v = [r \in Regs |-> v[r]]
  <2> DEFINE Word(r) == r + CASE r = 4 -> Assigned("VCOPowerDown", 1)
                              [] r = 5 -> 3 * 2^19
                              [] OTHER -> 0
  <2>1. v = [r \in Regs |-> Word(r)]
    BY Zenon DEF OffWords
  <2> HIDE DEF Word, v
  <2> QED BY <2>1
<1> HIDE DEF v
<1>4. v[4] = 2052 /\ v[5] = 1572869
  BY <1>1, <1>2, SMT
<1>5. \A r \in Regs : v[r] \in Nat /\ v[r] % 8 = r
  BY <1>1, <1>4, SMT DEF Regs
<1>6. Field(v[4], 11, 1) = 1 /\ Field(v[4], 5, 1) = 0
  BY <1>4, SMT DEF Field
<1>7. Layout["VCOPowerDown"] = <<4, 11, 1>> /\ Layout["outEnable"] = <<4, 5, 1>>
  BY SMT DEF Layout
<1>8. getReg(v, "VCOPowerDown") = 1 /\ getReg(v, "outEnable") = 0
  BY <1>6, <1>7, SMT DEF getReg
<1>9. v \in [Regs -> Nat]
  BY <1>3, <1>5, Zenon
<1>10. Numbered(v)
  BY <1>5, Zenon DEF Numbered
<1> QED
  BY <1>8, <1>9, <1>10, Zenon DEF v

(***************************************************************************)
(* The specification                                                       *)
(***************************************************************************)
(* Between the two calls of the library the plan is the plan of its        *)
(* request; words that were built are right, and switched off is off.      *)
Waiting ==
  pc = "planned" =>
    /\ request.prog = "core.py"
    /\ plan \in Plans(request, LibraryDivider(request.freq), LibraryBand(request))
Built == pc = "built" => Right(request, plan, regs)
Off ==
  pc = "off" => /\ Numbered(regs)
                /\ getReg(regs, "VCOPowerDown") = 1 /\ getReg(regs, "outEnable") = 0

(* The inductive invariant.                                                *)
Inv ==
  /\ pc \in {"asked", "planned", "rejected", "built", "off"} /\ request \in Requests
  /\ PlanType(plan) /\ regs \in [Regs -> Nat]
  /\ Waiting /\ Built /\ Off

(* Without a plan nothing is calculated.                                   *)
LEMMA NoPlanType == PlanType(NoPlan)
BY SMT DEF NoPlan, PlanType, Dividers

(* The invariant holds when a request is asked.                            *)
LEMMA InitInv == Init => Inv
<1> SUFFICES ASSUME Init PROVE Inv
  OBVIOUS
<1>1. PlanType(plan)
  BY NoPlanType, Zenon DEF Init
<1>2. regs \in [Regs -> Nat]
  BY SMT DEF Init
<1>3. pc = "asked" /\ request \in Requests
  BY Zenon DEF Init
<1>4. Waiting /\ Built /\ Off
  BY <1>3, SMT DEF Waiting, Built, Off
<1> QED
  BY <1>1, <1>2, <1>3, <1>4, SMT DEF Inv

(* Every step keeps it.                                                    *)
LEMMA NextInv == Inv /\ [Next]_vars => Inv'
<1> SUFFICES ASSUME Inv, [Next]_vars PROVE Inv'
  OBVIOUS
<1>1. request \in Requests /\ PlanType(plan) /\ regs \in [Regs -> Nat]
  BY Zenon DEF Inv
<1>2. CASE calculate_regs
  <2> DEFINE divider == LibraryDivider(request.freq)
             band == LibraryBand(request)
  <2>1. PICK p \in Plans(request, divider, band) :
          IF Possible(request, p) THEN pc' = "planned" /\ plan' = p
                                  ELSE pc' = "rejected" /\ UNCHANGED plan
    BY <1>2, Zenon DEF calculate_regs
  <2>2. request' = request /\ regs' = regs /\ request.prog = "core.py"
    BY <1>2, Zenon DEF calculate_regs
  <2>3. PlanType(p)
    <3>1. divider \in Dividers
      BY <1>1, RequestType, LibraryReaches, ReachesDivider
    <3>2. band \in Nat
      BY <1>1, BandType
    <3> QED BY <1>1, <2>1, <3>1, <3>2, PlansType, Zenon
  <2>4. pc' \in {"planned", "rejected"} /\ PlanType(plan')
    BY <1>1, <2>1, <2>3, Zenon
  <2>5. pc' = "planned" => plan' \in Plans(request, divider, band)
    BY <2>1, SMT
  <2>6. Waiting'
    BY <2>2, <2>5, Zenon DEF Waiting
  <2>7. Built' /\ Off'
    BY <2>4, SMT DEF Built, Off
  <2> QED
    BY <1>1, <2>2, <2>4, <2>6, <2>7, Zenon DEF Inv
<1>3. CASE make_regs
  <2> DEFINE ldf == IF plan.FRAC = 0 THEN 0 ELSE 1
  <2>1. PICK o \in Others :
          IF InFields(plan, o) THEN pc' = "built" /\ regs' = Words(request, plan, o, ldf)
                               ELSE pc' = "rejected" /\ UNCHANGED regs
    BY <1>3, Zenon DEF make_regs
  <2>2. request' = request /\ plan' = plan
    BY <1>3, Zenon DEF make_regs
  <2>3. /\ request.prog = "core.py"
        /\ plan \in Plans(request, LibraryDivider(request.freq), LibraryBand(request))
    BY <1>3, Zenon DEF make_regs, Inv, Waiting
  <2>4. ldf \in Bits(1)
    BY SMT DEF Bits
  <2> HIDE DEF ldf
  <2>5. pc' \in {"built", "rejected"}
    BY <2>1, Zenon
  <2>6. pc' = "built" => InFields(plan, o) /\ regs' = Words(request, plan, o, ldf)
    BY <2>1, SMT
  <2>7. pc' = "built" => Right(request, plan, regs')
    BY <1>1, <2>3, <2>4, <2>6, LibraryRight, Zenon
  <2>8. regs' \in [Regs -> Nat]
    BY <1>1, <2>1, <2>7, Zenon DEF Right
  <2>9. Built'
    BY <2>2, <2>7, Zenon DEF Built
  <2>10. Waiting' /\ Off'
    BY <2>5, SMT DEF Waiting, Off
  <2> QED
    BY <1>1, <2>2, <2>5, <2>8, <2>9, <2>10, Zenon DEF Inv
<1>4. CASE buildRegisters
  <2>1. PICK band \in GuiBands(request), o \in Others :
          \E p \in Plans(request, GuiDivider(request.freq), band) :
            /\ plan' = p
            /\ regs' = Words(request, CutToFields(p), o, IF p.FRAC = 0 THEN 1 ELSE 0)
    BY <1>4, Zenon DEF buildRegisters
  <2>2. PICK p \in Plans(request, GuiDivider(request.freq), band) :
          /\ plan' = p
          /\ regs' = Words(request, CutToFields(p), o, IF p.FRAC = 0 THEN 1 ELSE 0)
    BY <2>1
  <2>3. request' = request /\ pc' = "built" /\ request.prog = "adf4351.cpp"
    BY <1>4, Zenon DEF buildRegisters
  <2> DEFINE ldf == IF p.FRAC = 0 THEN 1 ELSE 0
  <2>4. ldf \in Bits(1)
    BY SMT DEF Bits
  <2>5. plan' = p /\ regs' = Words(request, CutToFields(p), o, ldf)
    BY <2>2
  <2> HIDE DEF ldf
  <2>6. Right(request, p, Words(request, CutToFields(p), o, ldf))
    BY <1>1, <2>3, <2>4, GuiRight, Zenon
  <2>7. Right(request', plan', regs')
    BY <2>3, <2>5, <2>6, Zenon
  <2>8. PlanType(plan') /\ regs' \in [Regs -> Nat]
    BY <2>7, Zenon DEF Right
  <2>9. Built'
    BY <2>7, Zenon DEF Built
  <2>10. Waiting' /\ Off'
    BY <2>3, SMT DEF Waiting, Off
  <2> QED
    BY <1>1, <2>3, <2>8, <2>9, <2>10, Zenon DEF Inv
<1>5. CASE calculateFreq
  <2>1. request' = request /\ request.prog = "adf4351-eval"
    BY <1>5, Zenon DEF calculateFreq
  <2>2. CASE InRange(request.freq)
    <3>1. PICK p \in EvalPlans(request) : plan' = p /\ regs' = EvalWords(request, p)
      BY <1>5, <2>2, Zenon DEF calculateFreq
    <3>2. pc' = "built"
      BY <1>5, <2>2, Zenon DEF calculateFreq
    <3>3. Right(request', plan', regs')
      BY <1>1, <2>1, <3>1, EvalRight, Zenon
    <3>4. PlanType(plan') /\ regs' \in [Regs -> Nat]
      BY <3>3, Zenon DEF Right
    <3>5. Built'
      BY <3>3, Zenon DEF Built
    <3>6. Waiting' /\ Off'
      BY <3>2, SMT DEF Waiting, Off
    <3> QED
      BY <1>1, <2>1, <3>2, <3>4, <3>5, <3>6, Zenon DEF Inv
  <2>3. CASE ~InRange(request.freq)
    <3>1. pc' = "off" /\ regs' = OffWords /\ plan' = plan
      BY <1>5, <2>3, Zenon DEF calculateFreq
    <3>2. regs' \in [Regs -> Nat] /\ Off'
      BY <3>1, OffRight, Zenon DEF Off
    <3>3. Waiting' /\ Built'
      BY <3>1, SMT DEF Waiting, Built
    <3> QED
      BY <1>1, <2>1, <3>1, <3>2, <3>3, Zenon DEF Inv
  <2> QED BY <2>2, <2>3
<1>6. CASE UNCHANGED vars
  BY <1>6, Zenon DEF vars, Inv, Waiting, Built, Off
<1> QED
  BY <1>2, <1>3, <1>4, <1>5, <1>6, Zenon DEF Next

(* Every state that is reached satisfies it.                               *)
LEMMA AlwaysInv == Spec => []Inv
<1> QED
  BY InitInv, NextInv, PTL DEF Spec

(* What is representable fits.                                             *)
LEMMA RepresentableFits == Representable <=> Fits(plan)
BY SMT DEF Representable, Fits

(* What the invariant says of words that were built.                       *)
LEMMA InvBuilt ==
  ASSUME Inv, pc = "built"
  PROVE  Right(request, plan, regs)
BY Zenon DEF Inv, Built

(* Every variable always holds a value of its kind, and the library never  *)
(* returns words for values that their fields cannot hold: the checks of   *)
(* make_regs and the cap of the band divider are enough (core.py:126-134,  *)
(* 226-228).                                                               *)
THEOREM TypesHold == Spec => []TypeOK
<1>1. Inv => TypeOK
  <2> SUFFICES ASSUME Inv PROVE TypeOK
    OBVIOUS
  <2>1. plan.divider \in {2^k : k \in 0..6}
    BY DividerPowers, Zenon DEF Inv, PlanType, Dividers
  <2>2. pc = "built" /\ request.prog = "core.py" => Representable
    BY InvBuilt, RepresentableFits, Zenon DEF Right
  <2>3. /\ plan.INT \in Nat /\ plan.FRAC \in Nat /\ plan.MOD \in Nat \ {0, 1}
        /\ plan.FRAC < plan.MOD /\ plan.band \in Nat /\ plan.step \in Nat /\ plan.up \in BOOLEAN
    <3>1. plan.step \in Nat \ {0}
      BY Zenon DEF Inv, PlanType
    <3>2. plan.step \in Nat
      BY <3>1, SMT
    <3> QED BY <3>2, Zenon DEF Inv, PlanType
  <2> QED
    BY <2>1, <2>2, <2>3, Zenon DEF Inv, TypeOK
<1> QED
  BY <1>1, AlwaysInv, PTL

(* Whatever the reference, the R counter and the device: the divider that  *)
(* the library's power of two and the GUI's comparisons choose brings the  *)
(* VCO into its range, for every frequency from 34.375 MHz to 4400 MHz,    *)
(* and is the last one for the frequencies outside that are accepted too   *)
(* (core.py:101-105, 113-116, adf4351.cpp:37-58).                          *)
THEOREM VcoAlwaysInRange == Spec => []VcoInRange
<1>1. ASSUME Inv PROVE VcoInRange
  <2>1. pc = "built" => Reaches(request.freq, plan.divider)
    BY <1>1, InvBuilt, Zenon DEF Right
  <2> QED
    BY <2>1, SMT DEF VcoInRange, Reaches
<1> QED
  BY <1>1, AlwaysInv, PTL

(* No calculated value that fits its field runs into a neighbour, for all  *)
(* values of all fields at once: every word carries its own number and the *)
(* other settings unchanged, and words that switch the VCO off do so       *)
(* (core.py:243-299, qtgui/adf4351.cpp:111-129).                           *)
THEOREM SettingsAlwaysKept == Spec => []SettingsKept
<1>1. Inv => SettingsKept
  <2> SUFFICES ASSUME Inv PROVE SettingsKept
    OBVIOUS
  <2>1. pc = "built" /\ Representable =>
          /\ Numbered(regs)
          /\ request.prog # "adf4351-eval" => \E o \in Others : Kept(regs, o)
    BY InvBuilt, RepresentableFits, Zenon DEF Right
  <2>2. pc = "off" => /\ Numbered(regs)
                      /\ getReg(regs, "VCOPowerDown") = 1 /\ getReg(regs, "outEnable") = 0
    BY Zenon DEF Inv, Off
  <2> QED
    BY <2>1, <2>2, Zenon DEF SettingsKept, Numbered, Kept
<1> QED
  BY <1>1, AlwaysInv, PTL

(* The words tune the chip, read field by field, to the frequency asked    *)
(* for: up to half a step of the modulus in the library and in the GUI, a  *)
(* whole step in the command line program, unless a value does not fit its *)
(* field or the fraction was rounded up to the modulus.  The bound holds   *)
(* for every request and for either rounding of a tie (core.py:110-134,    *)
(* 243-294, qtgui/adf4351.cpp:36-81, 111-128,                              *)
(* adf4351-eval/adf4351.cpp:43-91).                                        *)
THEOREM AlwaysTuned == Spec => []Tuned
<1>1. Inv => Tuned
  <2> SUFFICES ASSUME Inv, pc = "built", Representable, ~plan.up
               PROVE  WithinHalfSteps(Steps(request), regs, request.ref, request.freq, plan.step)
    BY Zenon DEF Tuned, Steps
  <2>1. plan.up = FALSE
    BY Zenon DEF Inv, PlanType
  <2>2. Fits(plan)
    BY RepresentableFits
  <2> QED
    BY <2>1, <2>2, InvBuilt, Zenon DEF Right
<1> QED
  BY <1>1, AlwaysInv, PTL
=============================================================================
