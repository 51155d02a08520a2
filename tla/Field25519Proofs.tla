-------------------------- MODULE Field25519Proofs --------------------------
(***************************************************************************)
(* The arithmetic of Field25519 for every size of the limbs, the code's    *)
(* 2^26 and 2^25 among them.                                               *)
(*                                                                         *)
(* Limb i weighs Weight(i), and Value is the number the limbs stand for.   *)
(* A product of two limbs belongs to the place their weights multiply to   *)
(* (WeightProduct), modulo the prime; summed by place these products are   *)
(* the product of the values (ProductsCongruent).  A carry changes no      *)
(* value, modulo the prime, and the twelve of them bring limbs of the size *)
(* a product has back to half a limb (ProductCarriesEffect, MulCorrect),   *)
(* so that sums of results are operands again (SumsAreOperands).  The last *)
(* part says that the residue the specification compares is the value's.   *)
(***************************************************************************)
EXTENDS Field25519, TLAPS

Elements == [Limbs -> Int]

LEMMA Sizes ==
  /\ OddRadix \in Nat /\ EvenRadix \in Nat /\ OddRadix >= 128 /\ EvenRadix = 2 * OddRadix
  /\ OddRadix \div 2 \in Nat /\ 2 * (OddRadix \div 2) = OddRadix
  /\ EvenRadix \div 2 = OddRadix
  BY RadixAssumption

(***************************************************************************)
(* Sums of ten terms                                                       *)
(***************************************************************************)
LEMMA SumType == ASSUME NEW t \in Elements PROVE SumLimbs(t) \in Int
  BY DEF SumLimbs, Elements, Limbs

LEMMA SumEqual ==
  ASSUME NEW s \in Elements, NEW t \in Elements, \A i \in Limbs : s[i] = t[i]
  PROVE  SumLimbs(s) = SumLimbs(t)
  BY DEF SumLimbs, Limbs

LEMMA SumAdd ==
  ASSUME NEW s \in Elements, NEW t \in Elements
  PROVE  /\ fe_add(s, t) \in Elements
         /\ SumLimbs(fe_add(s, t)) = SumLimbs(s) + SumLimbs(t)
         /\ \A i \in Limbs : fe_add(s, t)[i] = s[i] + t[i] /\ s[i] \in Int /\ t[i] \in Int
  BY DEF SumLimbs, Elements, Limbs, fe_add

LEMMA SumScale ==
  ASSUME NEW a \in Int, NEW t \in Elements
  PROVE  SumLimbs([i \in Limbs |-> a * t[i]]) = a * SumLimbs(t)
  BY DEF SumLimbs, Elements, Limbs

LEMMA SumSwap ==
  ASSUME NEW t \in [Limbs -> Elements]
  PROVE  SumLimbs([i \in Limbs |-> SumLimbs(t[i])]) = SumLimbs([j \in Limbs |-> SumLimbs([i \in Limbs |-> t[i][j]])])
  <1> DEFINE s1 == fe_add(t[0], t[1])
             s2 == fe_add(s1, t[2])
             s3 == fe_add(s2, t[3])
             s4 == fe_add(s3, t[4])
             s5 == fe_add(s4, t[5])
             s6 == fe_add(s5, t[6])
             s7 == fe_add(s6, t[7])
             s8 == fe_add(s7, t[8])
             s9 == fe_add(s8, t[9])
             columns == [j \in Limbs |-> SumLimbs([i \in Limbs |-> t[i][j]])]
             rows == [i \in Limbs |-> SumLimbs(t[i])]
  <1>1. \A n \in Limbs : t[n] \in Elements
    OBVIOUS
  <1> HIDE DEF s1
  <1>2. /\ s1 \in Elements /\ SumLimbs(s1) = SumLimbs(t[0]) + SumLimbs(t[1])
        /\ \A i \in Limbs : s1[i] = t[0][i] + t[1][i]
    BY <1>1, SumAdd DEF s1, Limbs
  <1> HIDE DEF s2
  <1>3. /\ s2 \in Elements /\ SumLimbs(s2) = SumLimbs(s1) + SumLimbs(t[2])
        /\ \A i \in Limbs : s2[i] = s1[i] + t[2][i]
    BY <1>1, <1>2, SumAdd DEF s2, Limbs
  <1> HIDE DEF s3
  <1>4. /\ s3 \in Elements /\ SumLimbs(s3) = SumLimbs(s2) + SumLimbs(t[3])
        /\ \A i \in Limbs : s3[i] = s2[i] + t[3][i]
    BY <1>1, <1>3, SumAdd DEF s3, Limbs
  <1> HIDE DEF s4
  <1>5. /\ s4 \in Elements /\ SumLimbs(s4) = SumLimbs(s3) + SumLimbs(t[4])
        /\ \A i \in Limbs : s4[i] = s3[i] + t[4][i]
    BY <1>1, <1>4, SumAdd DEF s4, Limbs
  <1> HIDE DEF s5
  <1>6. /\ s5 \in Elements /\ SumLimbs(s5) = SumLimbs(s4) + SumLimbs(t[5])
        /\ \A i \in Limbs : s5[i] = s4[i] + t[5][i]
    BY <1>1, <1>5, SumAdd DEF s5, Limbs
  <1> HIDE DEF s6
  <1>7. /\ s6 \in Elements /\ SumLimbs(s6) = SumLimbs(s5) + SumLimbs(t[6])
        /\ \A i \in Limbs : s6[i] = s5[i] + t[6][i]
    BY <1>1, <1>6, SumAdd DEF s6, Limbs
  <1> HIDE DEF s7
  <1>8. /\ s7 \in Elements /\ SumLimbs(s7) = SumLimbs(s6) + SumLimbs(t[7])
        /\ \A i \in Limbs : s7[i] = s6[i] + t[7][i]
    BY <1>1, <1>7, SumAdd DEF s7, Limbs
  <1> HIDE DEF s8
  <1>9. /\ s8 \in Elements /\ SumLimbs(s8) = SumLimbs(s7) + SumLimbs(t[8])
        /\ \A i \in Limbs : s8[i] = s7[i] + t[8][i]
    BY <1>1, <1>8, SumAdd DEF s8, Limbs
  <1> HIDE DEF s9
  <1>10. /\ s9 \in Elements /\ SumLimbs(s9) = SumLimbs(s8) + SumLimbs(t[9])
        /\ \A i \in Limbs : s9[i] = s8[i] + t[9][i]
    BY <1>1, <1>9, SumAdd DEF s9, Limbs
  <1>11. ASSUME NEW j \in Limbs
         PROVE  s9[j] = SumLimbs([i \in Limbs |-> t[i][j]])
    <2>1. SumLimbs([i \in Limbs |-> t[i][j]])
            = t[0][j] + t[1][j] + t[2][j] + t[3][j] + t[4][j] + t[5][j] + t[6][j] + t[7][j] + t[8][j] + t[9][j]
      BY DEF SumLimbs, Limbs
    <2>2. QED
      BY <1>2, <1>3, <1>4, <1>5, <1>6, <1>7, <1>8, <1>9, <1>10, <2>1
  <1>12. SumLimbs(s9) = SumLimbs(columns)
    <2>1. s9 = columns
      BY <1>10, <1>11 DEF Elements
    <2>2. QED
      BY <2>1
  <1>13. SumLimbs(rows) = SumLimbs(s9)
    <2>1. \A i \in Limbs : rows[i] = SumLimbs(t[i])
      OBVIOUS
    <2> HIDE DEF rows
    <2>2. SumLimbs(rows) = SumLimbs(t[0]) + SumLimbs(t[1]) + SumLimbs(t[2]) + SumLimbs(t[3]) + SumLimbs(t[4])
                             + SumLimbs(t[5]) + SumLimbs(t[6]) + SumLimbs(t[7]) + SumLimbs(t[8]) + SumLimbs(t[9])
      BY <2>1 DEF SumLimbs, Limbs
    <2>3. QED
      BY <1>2, <1>3, <1>4, <1>5, <1>6, <1>7, <1>8, <1>9, <1>10, <2>2
  <1>14. QED
    BY <1>12, <1>13

LEMMA SumPartners ==
  ASSUME NEW t \in Elements, NEW i \in Limbs
  PROVE  SumLimbs([k \in Limbs |-> t[Partner(k, i)]]) = SumLimbs(t)
  BY DEF SumLimbs, Elements, Limbs, Partner

(***************************************************************************)
(* Weights                                                                 *)
(***************************************************************************)
\* The size of a pair of limbs, and its powers.
Pair == EvenRadix * OddRadix

PairPower(n) ==
  CASE n = 0 -> 1
    [] n = 1 -> Pair
    [] n = 2 -> Pair * Pair
    [] n = 3 -> Pair * Pair * Pair
    [] n = 4 -> Pair * Pair * Pair * Pair
    [] n = 5 -> Pair * Pair * Pair * Pair * Pair

Weight(i) == (IF i % 2 = 0 THEN 1 ELSE EvenRadix) * PairPower(i \div 2)

\* The number a field element stands for, and the modulus.
Value(h) == SumLimbs([i \in Limbs |-> h[i] * Weight(i)])
Prime == PairPower(5) - 19

Congruent(a, b) == \E k \in Int : a = b + k * Prime

LEMMA PairType == Pair \in Nat /\ \A n \in 0 .. 5 : PairPower(n) \in Nat
  <1>1. Pair \in Nat
    BY Sizes DEF Pair
  <1>2. \A a, b \in Nat : a * b \in Nat
    OBVIOUS
  <1>3. /\ Pair * Pair \in Nat /\ Pair * Pair * Pair \in Nat /\ Pair * Pair * Pair * Pair \in Nat
        /\ Pair * Pair * Pair * Pair * Pair \in Nat
    BY <1>1, <1>2
  <1>4. QED
    BY <1>1, <1>3 DEF PairPower

LEMMA PairProduct ==
  ASSUME NEW a \in 0 .. 4, NEW b \in 0 .. 4
  PROVE  PairPower(a) * PairPower(b) = IF a + b <= 5 THEN PairPower(a + b) ELSE PairPower(5) * PairPower(a + b - 5)
  BY PairType DEF PairPower

LEMMA WeightType == \A i \in Limbs : Weight(i) \in Nat
  <1>1. \A i \in Limbs : i \div 2 \in 0 .. 5
    BY DEF Limbs
  <1>2. QED
    BY <1>1, PairType, Sizes DEF Weight

LEMMA Weights ==
  /\ Weight(0) = 1              /\ Weight(1) = EvenRadix
  /\ Weight(2) = PairPower(1)   /\ Weight(3) = EvenRadix * PairPower(1)
  /\ Weight(4) = PairPower(2)   /\ Weight(5) = EvenRadix * PairPower(2)
  /\ Weight(6) = PairPower(3)   /\ Weight(7) = EvenRadix * PairPower(3)
  /\ Weight(8) = PairPower(4)   /\ Weight(9) = EvenRadix * PairPower(4)
  BY PairType, Sizes DEF Weight, PairPower

LEMMA PowerSteps ==
  /\ PairPower(1) = EvenRadix * OddRadix
  /\ \A n \in 0 .. 4 : PairPower(n + 1) = PairPower(n) * Pair
  BY PairType DEF PairPower, Pair

LEMMA WeightStep ==
  /\ \A i \in 0 .. 8 : Weight(i + 1) = Weight(i) * LimbRadix(i)
  /\ Weight(9) * LimbRadix(9) = Prime + 19
  <1>1. \A n \in 0 .. 4 : PairPower(n) \in Nat /\ PairPower(n + 1) = PairPower(n) * (EvenRadix * OddRadix)
    BY PairType, PowerSteps DEF Pair
  <1>2. \A p \in Nat : (EvenRadix * p) * OddRadix = p * (EvenRadix * OddRadix) /\ 1 * p = p /\ p * EvenRadix = EvenRadix * p
    BY Sizes
  <1>3. \A i \in {0, 2, 4, 6, 8} : LimbRadix(i) = EvenRadix
    BY DEF LimbRadix
  <1>4. \A i \in {1, 3, 5, 7, 9} : LimbRadix(i) = OddRadix
    BY DEF LimbRadix
  <1>5. ASSUME NEW i \in {0, 2, 4, 6, 8}
        PROVE  Weight(i + 1) = Weight(i) * LimbRadix(i)
    BY <1>1, <1>2, <1>3, Weights, Sizes
  <1>6. ASSUME NEW n \in 0 .. 4
        PROVE  (EvenRadix * PairPower(n)) * OddRadix = PairPower(n + 1)
    BY <1>1, <1>2
  <1>7. ASSUME NEW i \in {1, 3, 5, 7}
        PROVE  Weight(i + 1) = Weight(i) * LimbRadix(i)
    BY <1>4, <1>6, Weights, PowerSteps, Sizes
  <1>8. Weight(9) * LimbRadix(9) = Prime + 19
    <2>1. Weight(9) * LimbRadix(9) = PairPower(5)
      BY <1>4, <1>6, Weights
    <2>2. QED
      BY <2>1, PairType DEF Prime
  <1>9. QED
    BY <1>5, <1>7, <1>8

\* The place of limbs i and j in a product, and what it weighs there.
Place(i, j) == IF i + j <= 9 THEN i + j ELSE i + j - 10

LEMMA WeightAt ==
  \A n \in 0 .. 4 : Weight(2 * n) = PairPower(n) /\ Weight(2 * n + 1) = EvenRadix * PairPower(n)
  <1>1. PairPower(0) = 1 /\ EvenRadix * 1 = EvenRadix
    BY Sizes DEF PairPower
  <1>2. QED
    BY <1>1, Weights

LEMMA PowerFacts ==
  /\ \A n \in 0 .. 5 : PairPower(n) \in Int
  /\ \A n \in 0 .. 4 : PairPower(n + 1) = PairPower(n) * (EvenRadix * OddRadix)
  /\ PairPower(5) = Prime + 19 /\ PairPower(0) = 1 /\ Prime \in Int
  /\ EvenRadix \in Int /\ OddRadix \in Int /\ EvenRadix * OddRadix \in Int
  <1>1. EvenRadix \in Int /\ OddRadix \in Int /\ EvenRadix * OddRadix \in Int
    BY Sizes
  <1>2. PairPower(0) = 1
    BY DEF PairPower
  <1>3. \A n \in 0 .. 5 : PairPower(n) \in Int
    BY PairType
  <1>4. PairPower(5) = Prime + 19 /\ Prime \in Int
    BY <1>3 DEF Prime
  <1>5. \A n \in 0 .. 4 : PairPower(n + 1) = PairPower(n) * (EvenRadix * OddRadix)
    BY PowerSteps DEF Pair
  <1>6. QED
    BY <1>1, <1>2, <1>3, <1>4, <1>5

\* Products, regrouped.
LEMMA Regroup ==
  /\ \A x, y \in Int : x * y = y * x /\ x * y \in Int /\ 1 * x = x /\ x * 1 = x
  /\ \A x, y, z \in Int : (x * y) * z = x * (y * z) /\ x * (y * z) = y * (x * z)
  OBVIOUS

\* The weight of two limbs multiplied, and the weight of their place.
Wrapped(i, j) == IF i + j <= 9 THEN 1 ELSE Prime + 19

LEMMA EvenEven ==
  ASSUME NEW a \in 0 .. 4, NEW b \in 0 .. 4
  PROVE  Weight(2 * a) * Weight(2 * b) = Weight(Place(2 * a, 2 * b)) * Wrapped(2 * a, 2 * b)
  <1>1. Weight(2 * a) = PairPower(a) /\ Weight(2 * b) = PairPower(b)
    BY WeightAt
  <1>2. CASE a + b <= 4
    <2>1. Place(2 * a, 2 * b) = 2 * (a + b) /\ Wrapped(2 * a, 2 * b) = 1 /\ a + b \in 0 .. 4
      BY <1>2 DEF Place, Wrapped
    <2>2. Weight(Place(2 * a, 2 * b)) = PairPower(a + b) /\ PairPower(a + b) \in Int
      BY <2>1, WeightAt, PairType
    <2>3. PairPower(a) * PairPower(b) = PairPower(a + b)
      BY <2>1, PairProduct
    <2>4. QED
      BY <1>1, <2>1, <2>2, <2>3
  <1>3. CASE a + b >= 5
    <2>1. Place(2 * a, 2 * b) = 2 * (a + b - 5) /\ Wrapped(2 * a, 2 * b) = Prime + 19 /\ a + b - 5 \in 0 .. 4
      BY <1>3 DEF Place, Wrapped
    <2>2. Weight(Place(2 * a, 2 * b)) = PairPower(a + b - 5) /\ PairPower(a + b - 5) \in Int
      BY <2>1, WeightAt, PairType
    <2>3. PairPower(a) * PairPower(b) = PairPower(5) * PairPower(a + b - 5)
      <3>1. CASE a + b = 5
        <4>1. PairPower(a) * PairPower(b) = PairPower(5) /\ a + b - 5 = 0
          BY <3>1, PairProduct
        <4>2. PairPower(5) * 1 = PairPower(5)
          BY PairType
        <4>3. QED
          BY <4>1, <4>2, PowerFacts
      <3>2. CASE a + b > 5
        BY <3>2, PairProduct
      <3>3. QED
        BY <1>3, <3>1, <3>2
    <2>4. QED
      BY <1>1, <2>1, <2>2, <2>3, PowerFacts, Regroup
  <1>4. QED
    BY <1>2, <1>3

LEMMA OddEven ==
  ASSUME NEW a \in 0 .. 4, NEW b \in 0 .. 4
  PROVE  Weight(2 * a + 1) * Weight(2 * b) = Weight(Place(2 * a + 1, 2 * b)) * Wrapped(2 * a + 1, 2 * b)
  <1> DEFINE w == Wrapped(2 * a, 2 * b)
             k == IF a + b <= 4 THEN a + b ELSE a + b - 5
  <1>1. Weight(2 * a + 1) = EvenRadix * PairPower(a) /\ Weight(2 * a) = PairPower(a) /\ Weight(2 * b) = PairPower(b)
    BY WeightAt
  <1>2. /\ k \in 0 .. 4 /\ Place(2 * a, 2 * b) = 2 * k /\ Place(2 * a + 1, 2 * b) = 2 * k + 1
        /\ Wrapped(2 * a + 1, 2 * b) = w
    BY DEF Place, Wrapped
  <1>3. /\ PairPower(a) \in Int /\ PairPower(b) \in Int /\ PairPower(k) \in Int /\ w \in Int /\ EvenRadix \in Int
    BY <1>2, PowerFacts DEF Wrapped
  <1>4. PairPower(a) * PairPower(b) = PairPower(k) * w
    BY <1>1, <1>2, EvenEven, WeightAt
  <1>5. Weight(Place(2 * a + 1, 2 * b)) = EvenRadix * PairPower(k)
    BY <1>2, WeightAt
  <1> HIDE DEF w, k
  <1>6. EvenRadix * (PairPower(a) * PairPower(b)) = EvenRadix * (PairPower(k) * w)
    BY <1>4
  <1>7. (EvenRadix * PairPower(a)) * PairPower(b) = (EvenRadix * PairPower(k)) * w
    BY <1>3, <1>6, Regroup
  <1>8. QED
    BY <1>1, <1>2, <1>5, <1>7

LEMMA OddOdd ==
  ASSUME NEW a \in 0 .. 4, NEW b \in 0 .. 4
  PROVE  Weight(2 * a + 1) * Weight(2 * b + 1)
           = 2 * (Weight(Place(2 * a + 1, 2 * b + 1)) * Wrapped(2 * a + 1, 2 * b + 1))
  <1> DEFINE k == IF a + b <= 4 THEN a + b ELSE a + b - 5
             w == Wrapped(2 * a, 2 * b)
             p == PairPower(a) * PairPower(b)
             d == EvenRadix * OddRadix
  <1>1. Weight(2 * a + 1) = EvenRadix * PairPower(a) /\ Weight(2 * b + 1) = EvenRadix * PairPower(b)
    BY WeightAt
  <1>2. k \in 0 .. 4 /\ Place(2 * a, 2 * b) = 2 * k
    BY DEF Place
  <1>3. PairPower(a) \in Int /\ PairPower(b) \in Int /\ PairPower(k) \in Int /\ PairPower(k + 1) \in Int /\ w \in Int
        /\ p \in Int /\ d \in Int /\ EvenRadix \in Int
    BY <1>2, PowerFacts, Regroup DEF Wrapped
  <1>4. p = PairPower(k) * w
    BY <1>2, EvenEven, WeightAt
  <1>5. PairPower(k + 1) = PairPower(k) * d
    BY <1>2, PowerFacts
  <1>6. EvenRadix * EvenRadix = 2 * d
    BY Sizes
  <1>7. PairPower(k + 1) * w = Weight(Place(2 * a + 1, 2 * b + 1)) * Wrapped(2 * a + 1, 2 * b + 1)
    <2>1. CASE k = 4
      <3>1. CASE a + b = 4
        <4>1. Place(2 * a + 1, 2 * b + 1) = 2 * 0 /\ Wrapped(2 * a + 1, 2 * b + 1) = Prime + 19 /\ w = 1
          BY <3>1 DEF Place, Wrapped
        <4>2. Weight(Place(2 * a + 1, 2 * b + 1)) = 1
          BY <4>1, WeightAt, PowerFacts
        <4>3. PairPower(k + 1) = Prime + 19
          BY <2>1, PowerFacts
        <4>4. QED
          BY <4>1, <4>2, <4>3, PowerFacts
      <3>2. QED
        BY <2>1, <3>1
    <2>2. CASE k < 4
      <3>1. Place(2 * a + 1, 2 * b + 1) = 2 * (k + 1) /\ Wrapped(2 * a + 1, 2 * b + 1) = w /\ k + 1 \in 0 .. 4
        BY <2>2 DEF Place, Wrapped
      <3>2. QED
        BY <3>1, WeightAt
    <2>3. QED
      BY <1>2, <2>1, <2>2
  <1> HIDE DEF k, w, d
  <1>8. (EvenRadix * PairPower(a)) * (EvenRadix * PairPower(b)) = (EvenRadix * EvenRadix) * p
    BY <1>3, Regroup
  <1> HIDE DEF p
  <1>9. (2 * d) * p = 2 * (PairPower(k + 1) * w)
    <2>1. d * (PairPower(k) * w) = (PairPower(k) * d) * w
      BY <1>3, Regroup
    <2>2. QED
      BY <1>3, <1>4, <1>5, <2>1, Regroup
  <1>10. QED
    BY <1>1, <1>6, <1>7, <1>8, <1>9

\* Two odd limbs weigh twice what their place does, all others the same; past
\* the top the place is 2^255 too low.
LEMMA WeightProduct ==
  ASSUME NEW i \in Limbs, NEW j \in Limbs
  PROVE  Weight(i) * Weight(j) = OddFactor(i, j) * (Weight(Place(i, j)) * Wrapped(i, j))
  <1>1. PICK a \in 0 .. 4 : i = 2 * a \/ i = 2 * a + 1
    BY DEF Limbs
  <1>2. PICK b \in 0 .. 4 : j = 2 * b \/ j = 2 * b + 1
    BY DEF Limbs
  <1>3. Place(i, j) \in Limbs /\ Weight(i) \in Int /\ Weight(j) \in Int /\ Wrapped(i, j) \in Int
    BY WeightType, PowerFacts DEF Place, Limbs, Wrapped
  <1>4. Weight(Place(i, j)) * Wrapped(i, j) \in Int
    BY <1>3, WeightType
  <1>5. CASE i = 2 * a /\ j = 2 * b
    <2>1. OddFactor(i, j) = 1
      BY <1>5 DEF OddFactor
    <2>2. QED
      BY <1>4, <1>5, <2>1, EvenEven
  <1>6. CASE i = 2 * a + 1 /\ j = 2 * b
    <2>1. OddFactor(i, j) = 1
      BY <1>6 DEF OddFactor
    <2>2. QED
      BY <1>4, <1>6, <2>1, OddEven
  <1>7. CASE i = 2 * a /\ j = 2 * b + 1
    <2>1. OddFactor(i, j) = 1
      BY <1>7 DEF OddFactor
    <2>2. Place(i, j) = Place(j, i) /\ Wrapped(i, j) = Wrapped(j, i)
      BY <1>7 DEF Place, Wrapped
    <2>3. Weight(i) * Weight(j) = Weight(j) * Weight(i)
      BY <1>3, Regroup
    <2>4. Weight(j) * Weight(i) = Weight(Place(j, i)) * Wrapped(j, i)
      BY <1>7, OddEven
    <2>5. QED
      BY <1>4, <2>1, <2>2, <2>3, <2>4
  <1>8. CASE i = 2 * a + 1 /\ j = 2 * b + 1
    <2>1. OddFactor(i, j) = 2
      BY <1>8 DEF OddFactor
    <2>2. QED
      BY <1>8, <2>1, OddOdd
  <1>9. QED
    BY <1>1, <1>2, <1>5, <1>6, <1>7, <1>8

(***************************************************************************)
(* Products                                                                *)
(***************************************************************************)
LEMMA SumCongruent ==
  ASSUME NEW s \in Elements, NEW t \in Elements, NEW k \in Elements, NEW p \in Int,
         \A i \in Limbs : s[i] = t[i] + p * k[i]
  PROVE  SumLimbs(s) = SumLimbs(t) + p * SumLimbs(k)
  <1> DEFINE pk == [i \in Limbs |-> p * k[i]]
  <1>1. pk \in Elements
    BY DEF Elements
  <1>2. \A i \in Limbs : s[i] = fe_add(t, pk)[i]
    BY DEF fe_add
  <1>3. SumLimbs(pk) = p * SumLimbs(k)
    BY SumScale
  <1> HIDE DEF pk
  <1>4. SumLimbs(s) = SumLimbs(fe_add(t, pk)) /\ SumLimbs(fe_add(t, pk)) = SumLimbs(t) + SumLimbs(pk)
    BY <1>1, <1>2, SumAdd, SumEqual
  <1>5. QED
    BY <1>3, <1>4

LEMMA Factors ==
  ASSUME NEW i \in Limbs, NEW j \in Limbs
  PROVE  /\ OddFactor(i, j) \in Int /\ WrapFactor(i, j) \in Int
         /\ Place(i, j) \in Limbs /\ Weight(Place(i, j)) \in Int /\ Weight(i) \in Int
         /\ Wrapped(i, j) = WrapFactor(i, j) + (IF i + j > 9 THEN Prime ELSE 0)
  <1>1. Place(i, j) \in Limbs
    BY DEF Place, Limbs
  <1>2. Wrapped(i, j) = WrapFactor(i, j) + (IF i + j > 9 THEN Prime ELSE 0)
    BY PowerFacts DEF Wrapped, WrapFactor, Limbs
  <1>3. QED
    BY <1>1, <1>2, WeightType DEF OddFactor, WrapFactor

\* What limbs i and j contribute to the product, and what is lost modulo Prime.
Term(f, g, i, j) == f[i] * g[j] * OddFactor(i, j) * WrapFactor(i, j)

ProductRow(f, g, i) == [j \in Limbs |-> Term(f, g, i, j) * Weight(Place(i, j))]
LossRow(f, g, i) ==
  [j \in Limbs |-> IF i + j > 9 THEN f[i] * g[j] * OddFactor(i, j) * Weight(Place(i, j)) ELSE 0]

LEMMA TermType ==
  ASSUME NEW f \in Elements, NEW g \in Elements, NEW i \in Limbs
  PROVE  /\ ProductRow(f, g, i) \in Elements /\ LossRow(f, g, i) \in Elements
         /\ \A j \in Limbs : Term(f, g, i, j) \in Int
  <1>1. ASSUME NEW j \in Limbs
        PROVE  /\ Term(f, g, i, j) \in Int
               /\ Term(f, g, i, j) * Weight(Place(i, j)) \in Int
               /\ f[i] * g[j] * OddFactor(i, j) * Weight(Place(i, j)) \in Int
    <2>1. f[i] \in Int /\ g[j] \in Int
      BY DEF Elements
    <2>2. f[i] * g[j] \in Int
      BY <2>1, Regroup
    <2>3. f[i] * g[j] * OddFactor(i, j) \in Int
      BY <2>2, Factors, Regroup
    <2>4. Term(f, g, i, j) \in Int
      BY <2>3, Factors, Regroup DEF Term
    <2>5. QED
      BY <2>3, <2>4, Factors, Regroup
  <1>2. QED
    BY <1>1 DEF Elements, ProductRow, LossRow

LEMMA TermStep ==
  ASSUME NEW f \in Elements, NEW g \in Elements, NEW i \in Limbs, NEW j \in Limbs
  PROVE  (f[i] * Weight(i)) * (g[j] * Weight(j)) = ProductRow(f, g, i)[j] + Prime * LossRow(f, g, i)[j]
  <1>1. f[i] \in Int /\ g[j] \in Int
    BY DEF Elements
  <1> DEFINE x == f[i] * g[j]
             o == OddFactor(i, j)
             w == Weight(Place(i, j))
             r == WrapFactor(i, j)
             y == IF i + j > 9 THEN x * o * w ELSE 0
             z == IF i + j > 9 THEN Prime ELSE 0
  <1>2. x \in Int /\ o \in Int /\ w \in Int /\ r \in Int /\ z \in Int /\ Weight(i) \in Int /\ Weight(j) \in Int
    <2>1. x \in Int
      BY <1>1, Regroup
    <2>2. o \in Int /\ w \in Int /\ r \in Int /\ Weight(i) \in Int /\ Weight(j) \in Int
      BY Factors
    <2>3. z \in Int
      BY PowerFacts
    <2>4. QED
      BY <2>1, <2>2, <2>3
  <1>3. Weight(i) * Weight(j) = o * (w * (r + z))
    <2>1. Wrapped(i, j) = r + z
      BY Factors
    <2>2. Weight(i) * Weight(j) = o * (w * Wrapped(i, j))
      BY WeightProduct
    <2>3. QED
      BY <2>1, <2>2
  <1>4. (f[i] * Weight(i)) * (g[j] * Weight(j)) = x * (Weight(i) * Weight(j))
    <2>1. \A a, b, c, d \in Int : (a * b) * (c * d) = (a * c) * (b * d)
      OBVIOUS
    <2>2. QED
      BY <1>1, <1>2, <2>1
  <1>5. ProductRow(f, g, i)[j] = (x * o * r) * w /\ LossRow(f, g, i)[j] = y
    BY DEF ProductRow, LossRow, Term
  <1>6. Prime * y = (x * o * w) * z
    BY <1>2, PowerFacts, Regroup
  <1> HIDE DEF x, o, w, r, y, z
  <1>7. x * (o * (w * (r + z))) = (x * o * r) * w + (x * o * w) * z
    <2>1. \A a, b, c, d, e \in Int : a * (b * (c * (d + e))) = (a * b * d) * c + (a * b * c) * e
      OBVIOUS
    <2>2. QED
      BY <1>2, <2>1
  <1>8. QED
    BY <1>3, <1>4, <1>5, <1>6, <1>7

\* The limbs multiplied for limb k of a product weigh as much as limb k.
LEMMA PartnerPlace ==
  ASSUME NEW k \in Limbs, NEW i \in Limbs
  PROVE  Partner(k, i) \in Limbs /\ Place(i, Partner(k, i)) = k
  BY DEF Partner, Place, Limbs

LEMMA MulProductsValue ==
  ASSUME NEW f \in Elements, NEW g \in Elements
  PROVE  /\ MulProducts(f, g) \in Elements
         /\ Value(MulProducts(f, g)) = SumLimbs([i \in Limbs |-> SumLimbs(ProductRow(f, g, i))])
  <1> DEFINE column(k) == [i \in Limbs |-> Term(f, g, i, Partner(k, i))]
             t == [k \in Limbs |-> [i \in Limbs |-> ProductRow(f, g, i)[Partner(k, i)]]]
             h == MulProducts(f, g)
  <1>1. ASSUME NEW k \in Limbs
        PROVE  /\ h[k] = SumLimbs(column(k)) /\ column(k) \in Elements /\ h[k] \in Int
               /\ t[k] \in Elements /\ h[k] * Weight(k) = SumLimbs(t[k])
    <2>1. column(k) \in Elements
      BY PartnerPlace, TermType DEF Elements
    <2>2. h[k] = SumLimbs(column(k))
      BY DEF MulProducts, Term
    <2>3. \A i \in Limbs : ProductRow(f, g, i)[Partner(k, i)] = Weight(k) * Term(f, g, i, Partner(k, i))
      <3>1. ASSUME NEW i \in Limbs
            PROVE  ProductRow(f, g, i)[Partner(k, i)] = Weight(k) * Term(f, g, i, Partner(k, i))
        <4>1. ProductRow(f, g, i)[Partner(k, i)] = Term(f, g, i, Partner(k, i)) * Weight(k)
          BY PartnerPlace DEF ProductRow
        <4>2. Term(f, g, i, Partner(k, i)) \in Int /\ Weight(k) \in Int
          BY PartnerPlace, TermType, WeightType
        <4>3. QED
          BY <4>1, <4>2, Regroup
      <3>2. QED
        BY <3>1
    <2>4. t[k] = [i \in Limbs |-> Weight(k) * column(k)[i]]
      BY <2>3
    <2>5. t[k] \in Elements
      BY PartnerPlace, TermType DEF Elements
    <2> HIDE DEF column, t, h
    <2>6. SumLimbs(t[k]) = Weight(k) * SumLimbs(column(k)) /\ SumLimbs(column(k)) \in Int /\ Weight(k) \in Int
      BY <2>1, <2>4, SumScale, SumType, WeightType
    <2>7. QED
      BY <2>1, <2>2, <2>5, <2>6, Regroup
  <1>2. h \in Elements
    BY <1>1 DEF MulProducts, Elements
  <1>3. t \in [Limbs -> Elements]
    BY <1>1
  <1> DEFINE columns == [k \in Limbs |-> SumLimbs(t[k])]
             rows == [i \in Limbs |-> SumLimbs([k \in Limbs |-> t[k][i]])]
  <1>4. Value(h) = SumLimbs(columns)
    <2>1. [k \in Limbs |-> h[k] * Weight(k)] = columns
      BY <1>1
    <2>2. QED
      BY <2>1 DEF Value
  <1>5. SumLimbs(columns) = SumLimbs(rows)
    BY <1>3, SumSwap
  <1>6. rows = [i \in Limbs |-> SumLimbs(ProductRow(f, g, i))]
    <2>1. ASSUME NEW i \in Limbs
          PROVE  SumLimbs([k \in Limbs |-> t[k][i]]) = SumLimbs(ProductRow(f, g, i))
      <3>1. [k \in Limbs |-> t[k][i]] = [k \in Limbs |-> ProductRow(f, g, i)[Partner(k, i)]]
        OBVIOUS
      <3>2. QED
        BY <3>1, SumPartners, TermType
    <2>2. QED
      BY <2>1
  <1>7. QED
    BY <1>2, <1>4, <1>5, <1>6

\* The ten sums of products of fe_mul stand for the product, modulo the prime.
THEOREM ProductsCongruent ==
  ASSUME NEW f \in Elements, NEW g \in Elements
  PROVE  Congruent(Value(f) * Value(g), Value(MulProducts(f, g)))
  <1> DEFINE fw == [i \in Limbs |-> f[i] * Weight(i)]
             gw == [j \in Limbs |-> g[j] * Weight(j)]
             all == [i \in Limbs |-> SumLimbs(gw) * fw[i]]
             kept == [i \in Limbs |-> SumLimbs(ProductRow(f, g, i))]
             lost == [i \in Limbs |-> SumLimbs(LossRow(f, g, i))]
  <1>1. fw \in Elements /\ gw \in Elements /\ Value(f) = SumLimbs(fw) /\ Value(g) = SumLimbs(gw)
    BY Factors, Regroup DEF Elements, Value
  <1>2. kept \in Elements /\ lost \in Elements /\ Prime \in Int
    BY TermType, SumType, PowerFacts DEF Elements
  <1>3. SumLimbs(gw) \in Int /\ SumLimbs(fw) \in Int /\ SumLimbs(lost) \in Int
    BY <1>1, <1>2, SumType
  <1>4. all \in Elements
    BY <1>1, <1>3, Regroup DEF Elements
  <1>5. ASSUME NEW i \in Limbs
        PROVE  all[i] = kept[i] + Prime * lost[i]
    <2> DEFINE terms == [j \in Limbs |-> fw[i] * gw[j]]
    <2>1. terms \in Elements
      BY <1>1, Regroup DEF Elements
    <2>2. \A j \in Limbs : terms[j] = ProductRow(f, g, i)[j] + Prime * LossRow(f, g, i)[j]
      BY TermStep
    <2>3. SumLimbs(terms) = fw[i] * SumLimbs(gw)
      <3> HIDE DEF fw, gw
      <3>1. QED
        BY <1>1, SumScale DEF Elements
    <2>4. SumLimbs(terms) = SumLimbs(ProductRow(f, g, i)) + Prime * SumLimbs(LossRow(f, g, i))
      <3> DEFINE kr == ProductRow(f, g, i)
                 lr == LossRow(f, g, i)
      <3>1. kr \in Elements /\ lr \in Elements
        BY TermType
      <3>2. \A j \in Limbs : terms[j] = kr[j] + Prime * lr[j]
        BY <2>2
      <3> HIDE DEF terms, kr, lr
      <3>3. SumLimbs(terms) = SumLimbs(kr) + Prime * SumLimbs(lr)
        BY <1>2, <2>1, <3>1, <3>2, SumCongruent
      <3>4. QED
        BY <3>3 DEF kr, lr
    <2>5. fw[i] \in Int
      BY <1>1 DEF Elements
    <2>6. fw[i] * SumLimbs(gw) = SumLimbs(gw) * fw[i]
      BY <1>3, <2>5, Regroup
    <2>7. QED
      BY <2>3, <2>4, <2>6
  <1>6. SumLimbs(all) = SumLimbs(kept) + Prime * SumLimbs(lost)
    <2> HIDE DEF all, kept, lost
    <2>1. QED
      BY <1>2, <1>4, <1>5, SumCongruent
  <1>7. SumLimbs(all) = SumLimbs(gw) * SumLimbs(fw)
    <2> HIDE DEF fw, gw
    <2>1. QED
      BY <1>1, <1>3, SumScale
  <1>8. Value(MulProducts(f, g)) = SumLimbs(kept)
    BY MulProductsValue
  <1> HIDE DEF fw, gw, all, kept, lost
  <1>9. Value(f) * Value(g) = Value(MulProducts(f, g)) + SumLimbs(lost) * Prime
    BY <1>1, <1>2, <1>3, <1>6, <1>7, <1>8, Regroup
  <1>10. QED
    BY <1>3, <1>9 DEF Congruent

(***************************************************************************)
(* Congruence                                                              *)
(***************************************************************************)
LEMMA CongruentReflexive == ASSUME NEW a \in Int PROVE Congruent(a, a)
  <1>1. a = a + 0 * Prime
    BY PowerFacts
  <1>2. QED
    BY <1>1 DEF Congruent

LEMMA CongruentTransitive ==
  ASSUME NEW a \in Int, NEW b \in Int, NEW c \in Int, Congruent(a, b), Congruent(b, c)
  PROVE  Congruent(a, c)
  <1>1. PICK k \in Int : a = b + k * Prime
    BY DEF Congruent
  <1>2. PICK l \in Int : b = c + l * Prime
    BY DEF Congruent
  <1>3. (k + l) * Prime = k * Prime + l * Prime
    BY PowerFacts
  <1>4. k + l \in Int /\ k * Prime \in Int /\ l * Prime \in Int
    BY PowerFacts, Regroup
  <1>5. a = c + (k + l) * Prime
    BY <1>1, <1>2, <1>3, <1>4
  <1>6. QED
    BY <1>4, <1>5 DEF Congruent

LEMMA ValueType == ASSUME NEW h \in Elements PROVE Value(h) \in Int
  <1>1. [i \in Limbs |-> h[i] * Weight(i)] \in Elements
    BY Factors, Regroup DEF Elements
  <1>2. QED
    BY <1>1, SumType DEF Value

LEMMA ValueAdd ==
  ASSUME NEW h \in Elements, NEW d \in Elements
  PROVE  fe_add(h, d) \in Elements /\ Value(fe_add(h, d)) = Value(h) + Value(d)
  <1> DEFINE hw == [i \in Limbs |-> h[i] * Weight(i)]
             dw == [i \in Limbs |-> d[i] * Weight(i)]
  <1>1. hw \in Elements /\ dw \in Elements
    BY Factors, Regroup DEF Elements
  <1>2. [i \in Limbs |-> fe_add(h, d)[i] * Weight(i)] = fe_add(hw, dw)
    <2>1. ASSUME NEW i \in Limbs
          PROVE  fe_add(h, d)[i] * Weight(i) = hw[i] + dw[i]
      <3>1. h[i] \in Int /\ d[i] \in Int /\ Weight(i) \in Int
        BY WeightType DEF Elements
      <3>2. QED
        BY <3>1 DEF fe_add
    <2> HIDE DEF hw, dw
    <2>2. QED
      BY <2>1 DEF fe_add
  <1>3. Value(h) = SumLimbs(hw) /\ Value(d) = SumLimbs(dw) /\ Value(fe_add(h, d)) = SumLimbs(fe_add(hw, dw))
    BY <1>2 DEF Value
  <1> HIDE DEF hw, dw
  <1>4. QED
    BY <1>1, <1>3, SumAdd

LEMMA ValueScale ==
  ASSUME NEW a \in Int, NEW h \in Elements
  PROVE  [i \in Limbs |-> a * h[i]] \in Elements /\ Value([i \in Limbs |-> a * h[i]]) = a * Value(h)
  <1> DEFINE ah == [i \in Limbs |-> a * h[i]]
             hw == [i \in Limbs |-> h[i] * Weight(i)]
  <1>1. ah \in Elements /\ hw \in Elements
    BY Factors, Regroup DEF Elements
  <1>2. [i \in Limbs |-> ah[i] * Weight(i)] = [i \in Limbs |-> a * hw[i]]
    <2>1. ASSUME NEW i \in Limbs
          PROVE  ah[i] * Weight(i) = a * hw[i]
      <3>1. h[i] \in Int /\ Weight(i) \in Int
        BY WeightType DEF Elements
      <3>2. QED
        BY <3>1, Regroup
    <2>2. QED
      BY <2>1
  <1>3. Value(ah) = SumLimbs([i \in Limbs |-> a * hw[i]]) /\ Value(h) = SumLimbs(hw)
    BY <1>2 DEF Value
  <1> HIDE DEF ah, hw
  <1>4. Value(ah) = a * Value(h)
    BY <1>1, <1>3, SumScale
  <1>5. QED
    BY <1>1, <1>4 DEF ah

(***************************************************************************)
(* Carries                                                                 *)
(***************************************************************************)
Above(i) == IF i = 9 THEN 0 ELSE i + 1
Wrap(i) == IF i = 9 THEN 19 ELSE 1

\* What carrying c units out of limb i adds to each limb.
Delta(i, c) == [j \in Limbs |-> CASE j = i -> -(c * LimbRadix(i)) [] j = Above(i) -> Wrap(i) * c [] OTHER -> 0]

LEMMA RadixType == \A i \in Limbs : LimbRadix(i) \in Nat /\ LimbRadix(i) >= 128 /\ LimbRadix(i) = 2 * Half(i) /\ Half(i) \in Nat
  BY Sizes DEF LimbRadix, Half, Limbs

LEMMA DeltaEffect ==
  ASSUME NEW h \in Elements, NEW i \in Limbs, NEW c \in Int
  PROVE  Delta(i, c) \in Elements /\ MoveCarry(h, i, c) = fe_add(h, Delta(i, c))
  <1>1. c * LimbRadix(i) \in Int /\ Wrap(i) * c \in Int
    BY RadixType DEF Wrap
  <1>2. Delta(i, c) \in Elements
    BY <1>1 DEF Delta, Elements
  <1>3. ASSUME NEW j \in Limbs
        PROVE  MoveCarry(h, i, c)[j] = h[j] + Delta(i, c)[j]
    <2>1. h[j] \in Int
      BY DEF Elements
    <2>2. CASE j = i
      BY <1>1, <2>1, <2>2 DEF MoveCarry, Delta, Above, Limbs
    <2>3. CASE j # i /\ j = Above(i)
      BY <1>1, <2>1, <2>3 DEF MoveCarry, Delta, Above, Wrap, Limbs
    <2>4. CASE j # i /\ j # Above(i)
      BY <1>1, <2>1, <2>4 DEF MoveCarry, Delta, Above, Limbs
    <2>5. QED
      BY <2>2, <2>3, <2>4
  <1>4. QED
    BY <1>2, <1>3 DEF MoveCarry, fe_add

\* A carry from one limb into the next moves no value; one out of the top limb
\* takes away a multiple of the modulus.
LEMMA DeltaValue ==
  ASSUME NEW i \in Limbs, NEW c \in Int
  PROVE  Value(Delta(i, c)) = IF i = 9 THEN -(c * Prime) ELSE 0
  <1> DEFINE out == (-(c * LimbRadix(i))) * Weight(i)
             in == (Wrap(i) * c) * Weight(Above(i))
             t == [j \in Limbs |-> CASE j = i -> out [] j = Above(i) -> in [] OTHER -> 0]
  <1>1. /\ Above(i) \in Limbs /\ Above(i) # i /\ LimbRadix(i) \in Int /\ Weight(i) \in Int
        /\ Weight(Above(i)) \in Int /\ Wrap(i) \in Int
    BY RadixType, WeightType DEF Above, Wrap, Limbs
  <1>2. out \in Int /\ in \in Int
    <2>1. \A a, b, d \in Int : (-(a * b)) * d \in Int /\ (a * b) * d \in Int
      OBVIOUS
    <2>2. QED
      BY <1>1, <2>1
  <1>3. [j \in Limbs |-> Delta(i, c)[j] * Weight(j)] = t
    <2>1. ASSUME NEW j \in Limbs
          PROVE  Delta(i, c)[j] * Weight(j) = t[j]
      <3>1. CASE j = i
        BY <3>1 DEF Delta
      <3>2. CASE j # i /\ j = Above(i)
        BY <3>2, <1>1 DEF Delta
      <3>3. CASE j # i /\ j # Above(i)
        <4>1. Delta(i, c)[j] = 0 /\ t[j] = 0
          BY <3>3 DEF Delta
        <4>2. 0 * Weight(j) = 0
          BY WeightType
        <4>3. QED
          BY <4>1, <4>2
      <3>4. QED
        BY <3>1, <3>2, <3>3
    <2>2. QED
      BY <2>1
  <1>4. Value(Delta(i, c)) = SumLimbs(t)
    BY <1>3 DEF Value
  <1> HIDE DEF out, in
  <1>5. SumLimbs(t) = out + in
    BY <1>1, <1>2 DEF SumLimbs, Limbs
  <1>6. out + in = IF i = 9 THEN -(c * Prime) ELSE 0
    <2>1. out = -(c * (Weight(i) * LimbRadix(i)))
      <3>1. \A a, b, d \in Int : (-(a * b)) * d = -(a * (d * b))
        OBVIOUS
      <3>2. QED
        BY <1>1, <3>1 DEF out
    <2>2. CASE i = 9
      <3>1. out = -(c * (Prime + 19)) /\ in = 19 * c
        <4>1. Weight(Above(i)) = 1 /\ Wrap(i) = 19 /\ Weight(i) * LimbRadix(i) = Prime + 19
          BY <2>2, Weights, WeightStep DEF Above, Wrap
        <4>2. (19 * c) * 1 = 19 * c
          OBVIOUS
        <4>3. QED
          BY <2>1, <4>1, <4>2 DEF in
      <3>2. c * (Prime + 19) = c * Prime + 19 * c /\ c * Prime \in Int
        BY PowerFacts
      <3>3. QED
        BY <2>2, <3>1, <3>2
    <2>3. CASE i # 9
      <3>1. Weight(Above(i)) = Weight(i) * LimbRadix(i) /\ Wrap(i) = 1
        BY <2>3, WeightStep DEF Above, Wrap, Limbs
      <3>2. in = c * Weight(Above(i))
        BY <3>1 DEF in
      <3>3. c * Weight(Above(i)) \in Int
        BY <1>1, Regroup
      <3>4. QED
        BY <2>1, <2>3, <3>1, <3>2, <3>3
    <2>4. QED
      BY <2>2, <2>3
  <1>7. QED
    BY <1>4, <1>5, <1>6

LEMMA MoveCarryValue ==
  ASSUME NEW h \in Elements, NEW i \in Limbs, NEW c \in Int
  PROVE  /\ MoveCarry(h, i, c) \in Elements
         /\ Value(MoveCarry(h, i, c)) = Value(h) - (IF i = 9 THEN c * Prime ELSE 0)
         /\ Congruent(Value(h), Value(MoveCarry(h, i, c)))
  <1>1. MoveCarry(h, i, c) \in Elements /\ Value(MoveCarry(h, i, c)) = Value(h) + Value(Delta(i, c))
    BY DeltaEffect, ValueAdd
  <1> DEFINE v == Value(h)
             n == Value(MoveCarry(h, i, c))
             p == c * Prime
  <1>2. v \in Int /\ p \in Int /\ n = v - (IF i = 9 THEN p ELSE 0)
    BY <1>1, ValueType, PowerFacts, DeltaValue
  <1>3. Congruent(v, n)
    <2> HIDE DEF v, n
    <2>1. CASE i = 9
      <3>1. v = n + p
        <4> HIDE DEF p
        <4>1. QED
          BY <1>2, <2>1
      <3>2. QED
        BY <3>1 DEF Congruent
    <2>2. CASE i # 9
      <3>1. n = v
        <4> HIDE DEF p
        <4>1. QED
          BY <1>2, <2>2
      <3>2. QED
        BY <1>2, <3>1, CongruentReflexive
    <2>3. QED
      BY <2>1, <2>2
  <1>4. QED
    BY <1>1, <1>2, <1>3

(***************************************************************************)
(* Limbs within bounds                                                     *)
(***************************************************************************)
Within(h, b) == \A i \in Limbs : h[i] \in -b[i] .. b[i]

\* The bounds after a carry of at most k units out of limb i.
Widen(b, i, k) ==
  [j \in Limbs |-> CASE j = i -> Half(i) [] j = Above(i) -> b[j] + Wrap(i) * k [] OTHER -> b[j]]

LEMMA RoundCarryAmount ==
  ASSUME NEW x \in Int, NEW r \in Nat, NEW s \in Nat, r >= 128, r = 2 * s, NEW k \in Nat, -(r * k) <= x, x <= r * k
  PROVE  LET c == (x + s) \div r
         IN  c \in Int /\ -k <= c /\ c <= k /\ -s <= x - c * r /\ x - c * r <= s
  <1> DEFINE c == (x + s) \div r
  <1>1. c \in Int /\ r * c <= x + s /\ x + s < r * c + r
    <2> DEFINE y == x + s
    <2>1. y \in Int /\ r > 0
      OBVIOUS
    <2> HIDE DEF y
    <2>2. y \div r \in Int /\ r * (y \div r) <= y /\ y < r * (y \div r) + r
      BY <2>1
    <2>3. QED
      BY <2>2 DEF y
  <1> HIDE DEF c
  <1>2. c * r = r * c /\ r * c \in Int /\ r * k \in Int
    BY <1>1, Regroup
  <1>3. -s <= x - c * r /\ x - c * r <= s
    <2> DEFINE p == c * r
    <2>1. p \in Int /\ p <= x + s /\ x + s < p + r
      BY <1>1, <1>2
    <2> HIDE DEF p
    <2>2. -s <= x - p /\ x - p <= s
      BY <2>1
    <2>3. QED
      BY <2>2 DEF p
  <1>4. c <= k
    <2>1. ASSUME c > k PROVE FALSE
      <3>1. c - k - 1 \in Nat
        BY <1>1, <2>1
      <3>2. r * (c - k - 1) \in Nat /\ r * (c - k - 1) = r * c - r * k - r
        BY <1>1, <3>1
      <3>3. QED
        BY <1>1, <1>2, <3>2
    <2>2. QED
      BY <1>1, <2>1
  <1>5. -k <= c
    <2>1. ASSUME c < -k PROVE FALSE
      <3>1. -k - 1 - c \in Nat
        BY <1>1, <2>1
      <3>2. r * (-k - 1 - c) \in Nat /\ r * (-k - 1 - c) = -(r * k) - r - r * c
        BY <1>1, <3>1
      <3>3. QED
        BY <1>1, <1>2, <3>2
    <2>2. QED
      BY <1>1, <2>1
  <1>6. QED
    BY <1>1, <1>3, <1>4, <1>5 DEF c

LEMMA RoundCarryEffect ==
  ASSUME NEW h \in Elements, NEW b \in [Limbs -> Nat], Within(h, b), NEW i \in Limbs, NEW k \in Nat,
         b[i] <= LimbRadix(i) * k
  PROVE  /\ RoundCarry(h, i) \in Elements /\ Congruent(Value(h), Value(RoundCarry(h, i)))
         /\ Widen(b, i, k) \in [Limbs -> Nat] /\ Within(RoundCarry(h, i), Widen(b, i, k))
  <1> DEFINE r == LimbRadix(i)
             s == Half(i)
             c == (h[i] + s) \div r
             n == RoundCarry(h, i)
             a == Above(i)
  <1>1. r \in Nat /\ r >= 128 /\ r = 2 * s /\ s \in Nat /\ h[i] \in Int /\ r * k \in Int /\ a \in Limbs /\ a # i
    BY RadixType, Regroup DEF Elements, Above, Limbs
  <1>2. -(r * k) <= h[i] /\ h[i] <= r * k
    <2>1. h[i] \in -b[i] .. b[i] /\ b[i] \in Nat
      BY DEF Within
    <2>2. QED
      BY <1>1, <2>1
  <1>3. c \in Int /\ -k <= c /\ c <= k /\ -s <= h[i] - c * r /\ h[i] - c * r <= s
    <2> DEFINE x == h[i]
    <2>1. x \in Int /\ r >= 128 /\ r \in Nat /\ s \in Nat /\ r = 2 * s /\ -(r * k) <= x /\ x <= r * k
      BY <1>1, <1>2
    <2> HIDE DEF r, s, x
    <2>2. /\ (x + s) \div r \in Int /\ -k <= (x + s) \div r /\ (x + s) \div r <= k
          /\ -s <= x - ((x + s) \div r) * r /\ x - ((x + s) \div r) * r <= s
      BY <2>1, RoundCarryAmount
    <2>3. QED
      BY <2>2 DEF x
  <1>4. n = MoveCarry(h, i, c)
    BY DEF RoundCarry
  <1>5. n \in Elements /\ Congruent(Value(h), Value(n))
    BY <1>3, <1>4, MoveCarryValue
  <1>6. n[i] \in -s .. s
    <2>1. n[i] = h[i] - c * r
      <3> HIDE DEF c, n, s
      <3>1. QED
        BY <1>4 DEF MoveCarry, Limbs
    <2> HIDE DEF c, r, s, n
    <2>2. n[i] \in Int
      BY <1>5 DEF Elements
    <2>3. QED
      BY <1>1, <1>3, <2>1, <2>2
  <1>7. \A j \in Limbs : j # i /\ j # a => n[j] = h[j]
    BY <1>4 DEF MoveCarry, Above, Limbs
  <1>8. n[a] = h[a] + Wrap(i) * c
    <2> HIDE DEF c, n
    <2>1. CASE i = 9
      BY <1>1, <1>4, <2>1 DEF MoveCarry, Above, Wrap
    <2>2. CASE i # 9
      <3>1. n[a] = h[a] + c
        BY <1>1, <1>4, <2>2 DEF MoveCarry, Above
      <3>2. Wrap(i) = 1 /\ 1 * c = c
        BY <1>3, <2>2 DEF Wrap
      <3>3. QED
        BY <3>1, <3>2
    <2>3. QED
      BY <2>1, <2>2
  <1> HIDE DEF c, r, s, n, a
  <1>9. Wrap(i) * c \in -(Wrap(i) * k) .. Wrap(i) * k /\ Wrap(i) * k \in Nat
    BY <1>3 DEF Wrap
  <1>10. Widen(b, i, k) \in [Limbs -> Nat]
    BY <1>1, <1>9 DEF Widen, s
  <1>11. ASSUME NEW j \in Limbs
         PROVE  n[j] \in -Widen(b, i, k)[j] .. Widen(b, i, k)[j]
    <2>1. h[j] \in Int /\ b[j] \in Nat /\ h[j] \in -b[j] .. b[j]
      BY DEF Elements, Within
    <2>2. CASE j = i
      <3>1. Widen(b, i, k)[j] = s
        BY <1>1, <2>2 DEF Widen, s, a
      <3>2. QED
        BY <1>6, <2>2, <3>1
    <2>3. CASE j = a
      <3>1. Widen(b, i, k)[j] = b[j] + Wrap(i) * k
        BY <1>1, <2>3 DEF Widen, a
      <3>2. n[j] = h[j] + Wrap(i) * c
        BY <1>8, <2>3
      <3> DEFINE u == Wrap(i) * c
                 w == Wrap(i) * k
      <3> HIDE DEF u, w
      <3>3. u \in -w .. w /\ w \in Nat
        BY <1>9 DEF u, w
      <3>4. h[j] + u \in -(b[j] + w) .. b[j] + w
        BY <2>1, <3>3
      <3>5. QED
        BY <3>1, <3>2, <3>4 DEF u, w
    <2>4. CASE j # i /\ j # a
      <3>1. Widen(b, i, k)[j] = b[j] /\ n[j] = h[j]
        BY <1>7, <2>4 DEF Widen, a
      <3>2. QED
        BY <2>1, <3>1
    <2>5. QED
      BY <2>2, <2>3, <2>4
  <1>12. QED
    BY <1>5, <1>10, <1>11 DEF Within, n

\* What the ten sums of a product of limbs up to 1.65 times their size come to,
\* twice over.
ProductBounds ==
  LET square == OddRadix * OddRadix
  IN  [i \in Limbs |-> IF i = 9 THEN 110 * square ELSE IF i % 2 = 0 THEN 3200 * square ELSE 2080 * square]

\* The twelve carries after a product bring every limb back to half its size; the
\* last two may leave a little more in limbs 1 and 5.
LEMMA ProductCarriesEffect ==
  ASSUME NEW h \in Elements, Within(h, ProductBounds)
  PROVE  /\ ProductCarries(h) \in Elements /\ Congruent(Value(h), Value(ProductCarries(h)))
         /\ \A i \in Limbs : LET most == Half(i) + (IF i \in {1, 5} THEN 1200 ELSE 0)
                              IN  ProductCarries(h)[i] \in -most .. most
  <1> DEFINE o == OddRadix
             q == o * o
             b0 == ProductBounds
             s0 == h
             s1 == RoundCarry(s0, 0)
             s2 == RoundCarry(s1, 4)
             s3 == RoundCarry(s2, 1)
             s4 == RoundCarry(s3, 5)
             s5 == RoundCarry(s4, 2)
             s6 == RoundCarry(s5, 6)
             s7 == RoundCarry(s6, 3)
             s8 == RoundCarry(s7, 7)
             s9 == RoundCarry(s8, 4)
             s10 == RoundCarry(s9, 8)
             s11 == RoundCarry(s10, 9)
             s12 == RoundCarry(s11, 0)
             b1 == Widen(b0, 0, 1600 * o)
             b2 == Widen(b1, 4, 1600 * o)
             b3 == Widen(b2, 1, 2080 * o + 1600)
             b4 == Widen(b3, 5, 2080 * o + 1600)
             b5 == Widen(b4, 2, 1600 * o + 1053)
             b6 == Widen(b5, 6, 1600 * o + 1053)
             b7 == Widen(b6, 3, 2080 * o + 1609)
             b8 == Widen(b7, 7, 2080 * o + 1609)
             b9 == Widen(b8, 4, 1047)
             b10 == Widen(b9, 8, 1600 * o + 1047)
             b11 == Widen(b10, 9, 110 * o + 1609)
             b12 == Widen(b11, 0, 1165)
  <1>1. o \in Nat /\ o >= 128 /\ q \in Nat
    BY Sizes, Regroup
  <1>2. ProductCarries(h) = s12
    BY DEF ProductCarries
  <1>3. /\ \A i \in {0, 2, 4, 6, 8} : LimbRadix(i) = 2 * o /\ Half(i) = o
        /\ \A i \in {1, 3, 5, 7, 9} : LimbRadix(i) = o /\ o = 2 * Half(i) /\ Half(i) \in Nat
    BY Sizes DEF LimbRadix, Half
  <1>4. /\ b0 \in [Limbs -> Nat] /\ b0[9] = 110 * q
        /\ \A i \in {0, 2, 4, 6, 8} : b0[i] = 3200 * q
        /\ \A i \in {1, 3, 5, 7} : b0[i] = 2080 * q
    <2> HIDE DEF q
    <2>1. b0 = [i \in Limbs |-> IF i = 9 THEN 110 * q ELSE IF i % 2 = 0 THEN 3200 * q ELSE 2080 * q]
      BY DEF ProductBounds, q
    <2> HIDE DEF b0
    <2>2. QED
      BY <1>1, <2>1 DEF Limbs
  <1>5. \A m, n \in Nat : (2 * o) * (m * o + n) = 2 * (m * q) + 2 * (n * o) /\ o * (m * o + n) = m * q + n * o
    <2>1. \A m, n, x \in Nat : (2 * x) * (m * x + n) = 2 * (m * (x * x)) + 2 * (n * x) /\ x * (m * x + n) = m * (x * x) + n * x
      OBVIOUS
    <2>2. QED
      BY <1>1, <2>1
  <1> HIDE DEF o, q, b0, s1, s2, s3, s4, s5, s6, s7, s8, s9, s10, s11, s12, b1, b2, b3, b4, b5, b6, b7, b8, b9, b10, b11, b12
  <1>6. s0 \in Elements /\ b0 \in [Limbs -> Nat] /\ Within(s0, b0) /\ Congruent(Value(h), Value(s0))
    BY <1>4, ValueType, CongruentReflexive DEF b0
  <1> HIDE DEF s0
  <1>7. /\ s1 \in Elements /\ b1 \in [Limbs -> Nat] /\ Within(s1, b1) /\ Congruent(Value(h), Value(s1))
        /\ b1[0] = Half(0) /\ b1[1] = b0[1] + 1 * (1600 * o)
        /\ \A j \in Limbs \ {0, 1} : b1[j] = b0[j]
    <2> DEFINE k == 1600 * o
    <2>1. k \in Nat /\ LimbRadix(0) * k = 2 * (1600 * q) + 2 * (0 * o)
      <3>1. k = 1600 * o + 0
        BY <1>1
      <3>2. LimbRadix(0) = 2 * o
        BY <1>3
      <3>3. (2 * o) * (1600 * o + 0) = 2 * (1600 * q) + 2 * (0 * o)
        BY <1>5
      <3>4. k \in Nat
        BY <1>1
      <3> HIDE DEF k
      <3>5. QED
        BY <3>1, <3>2, <3>3, <3>4
    <2>2. b0[0] <= LimbRadix(0) * k
      <3> DEFINE p == LimbRadix(0) * k
      <3>1. p = 2 * (1600 * q) + 2 * (0 * o)
        BY <2>1
      <3> HIDE DEF k, p
      <3>2. b0[0] <= p
        BY <1>1, <1>3, <1>4, <3>1 DEF Limbs
      <3>3. QED
        BY <3>2 DEF p
    <2>3. b1 = Widen(b0, 0, k) /\ s1 = RoundCarry(s0, 0) /\ 0 \in Limbs
      BY DEF b1, s1, Limbs
    <2> HIDE DEF k
    <2>4. s1 \in Elements /\ b1 \in [Limbs -> Nat] /\ Within(s1, b1) /\ Congruent(Value(s0), Value(s1))
      BY <1>6, <2>1, <2>2, <2>3, RoundCarryEffect
    <2>5. Congruent(Value(h), Value(s1))
      BY <1>6, <2>4, ValueType, CongruentTransitive
    <2>6. b1[0] = Half(0) /\ b1[1] = b0[1] + 1 * k /\ \A j \in Limbs \ {0, 1} : b1[j] = b0[j]
      BY <2>3 DEF Widen, Above, Wrap, Limbs
    <2>7. QED
      BY <2>4, <2>5, <2>6 DEF k
  <1>8. /\ s2 \in Elements /\ b2 \in [Limbs -> Nat] /\ Within(s2, b2) /\ Congruent(Value(h), Value(s2))
        /\ b2[4] = Half(4) /\ b2[5] = b1[5] + 1 * (1600 * o)
        /\ \A j \in Limbs \ {4, 5} : b2[j] = b1[j]
    <2> DEFINE k == 1600 * o
    <2>1. k \in Nat /\ LimbRadix(4) * k = 2 * (1600 * q) + 2 * (0 * o)
      <3>1. k = 1600 * o + 0
        BY <1>1
      <3>2. LimbRadix(4) = 2 * o
        BY <1>3
      <3>3. (2 * o) * (1600 * o + 0) = 2 * (1600 * q) + 2 * (0 * o)
        BY <1>5
      <3>4. k \in Nat
        BY <1>1
      <3> HIDE DEF k
      <3>5. QED
        BY <3>1, <3>2, <3>3, <3>4
    <2>2. b1[4] <= LimbRadix(4) * k
      <3> DEFINE p == LimbRadix(4) * k
      <3>1. p = 2 * (1600 * q) + 2 * (0 * o)
        BY <2>1
      <3> HIDE DEF k, p
      <3>2. b1[4] <= p
        BY <1>1, <1>3, <1>4, <3>1, <1>7 DEF Limbs
      <3>3. QED
        BY <3>2 DEF p
    <2>3. b2 = Widen(b1, 4, k) /\ s2 = RoundCarry(s1, 4) /\ 4 \in Limbs
      BY DEF b2, s2, Limbs
    <2> HIDE DEF k
    <2>4. s2 \in Elements /\ b2 \in [Limbs -> Nat] /\ Within(s2, b2) /\ Congruent(Value(s1), Value(s2))
      BY <1>7, <2>1, <2>2, <2>3, RoundCarryEffect
    <2>5. Congruent(Value(h), Value(s2))
      BY <1>7, <2>4, ValueType, CongruentTransitive
    <2>6. b2[4] = Half(4) /\ b2[5] = b1[5] + 1 * k /\ \A j \in Limbs \ {4, 5} : b2[j] = b1[j]
      BY <2>3 DEF Widen, Above, Wrap, Limbs
    <2>7. QED
      BY <2>4, <2>5, <2>6 DEF k
  <1>9. /\ s3 \in Elements /\ b3 \in [Limbs -> Nat] /\ Within(s3, b3) /\ Congruent(Value(h), Value(s3))
        /\ b3[1] = Half(1) /\ b3[2] = b2[2] + 1 * (2080 * o + 1600)
        /\ \A j \in Limbs \ {1, 2} : b3[j] = b2[j]
    <2> DEFINE k == 2080 * o + 1600
    <2>1. k \in Nat /\ LimbRadix(1) * k = 2080 * q + 1600 * o
      <3>1. k = 2080 * o + 1600
        BY <1>1
      <3>2. LimbRadix(1) = o
        BY <1>3
      <3>3. o * (2080 * o + 1600) = 2080 * q + 1600 * o
        BY <1>5
      <3>4. k \in Nat
        BY <1>1
      <3> HIDE DEF k
      <3>5. QED
        BY <3>1, <3>2, <3>3, <3>4
    <2>2. b2[1] <= LimbRadix(1) * k
      <3> DEFINE p == LimbRadix(1) * k
      <3>1. p = 2080 * q + 1600 * o
        BY <2>1
      <3> HIDE DEF k, p
      <3>2. b2[1] <= p
        BY <1>1, <1>3, <1>4, <3>1, <1>7, <1>8 DEF Limbs
      <3>3. QED
        BY <3>2 DEF p
    <2>3. b3 = Widen(b2, 1, k) /\ s3 = RoundCarry(s2, 1) /\ 1 \in Limbs
      BY DEF b3, s3, Limbs
    <2> HIDE DEF k
    <2>4. s3 \in Elements /\ b3 \in [Limbs -> Nat] /\ Within(s3, b3) /\ Congruent(Value(s2), Value(s3))
      BY <1>8, <2>1, <2>2, <2>3, RoundCarryEffect
    <2>5. Congruent(Value(h), Value(s3))
      BY <1>8, <2>4, ValueType, CongruentTransitive
    <2>6. b3[1] = Half(1) /\ b3[2] = b2[2] + 1 * k /\ \A j \in Limbs \ {1, 2} : b3[j] = b2[j]
      BY <2>3 DEF Widen, Above, Wrap, Limbs
    <2>7. QED
      BY <2>4, <2>5, <2>6 DEF k
  <1>10. /\ s4 \in Elements /\ b4 \in [Limbs -> Nat] /\ Within(s4, b4) /\ Congruent(Value(h), Value(s4))
        /\ b4[5] = Half(5) /\ b4[6] = b3[6] + 1 * (2080 * o + 1600)
        /\ \A j \in Limbs \ {5, 6} : b4[j] = b3[j]
    <2> DEFINE k == 2080 * o + 1600
    <2>1. k \in Nat /\ LimbRadix(5) * k = 2080 * q + 1600 * o
      <3>1. k = 2080 * o + 1600
        BY <1>1
      <3>2. LimbRadix(5) = o
        BY <1>3
      <3>3. o * (2080 * o + 1600) = 2080 * q + 1600 * o
        BY <1>5
      <3>4. k \in Nat
        BY <1>1
      <3> HIDE DEF k
      <3>5. QED
        BY <3>1, <3>2, <3>3, <3>4
    <2>2. b3[5] <= LimbRadix(5) * k
      <3> DEFINE p == LimbRadix(5) * k
      <3>1. p = 2080 * q + 1600 * o
        BY <2>1
      <3> HIDE DEF k, p
      <3>2. b3[5] <= p
        BY <1>1, <1>3, <1>4, <3>1, <1>7, <1>8, <1>9 DEF Limbs
      <3>3. QED
        BY <3>2 DEF p
    <2>3. b4 = Widen(b3, 5, k) /\ s4 = RoundCarry(s3, 5) /\ 5 \in Limbs
      BY DEF b4, s4, Limbs
    <2> HIDE DEF k
    <2>4. s4 \in Elements /\ b4 \in [Limbs -> Nat] /\ Within(s4, b4) /\ Congruent(Value(s3), Value(s4))
      BY <1>9, <2>1, <2>2, <2>3, RoundCarryEffect
    <2>5. Congruent(Value(h), Value(s4))
      BY <1>9, <2>4, ValueType, CongruentTransitive
    <2>6. b4[5] = Half(5) /\ b4[6] = b3[6] + 1 * k /\ \A j \in Limbs \ {5, 6} : b4[j] = b3[j]
      BY <2>3 DEF Widen, Above, Wrap, Limbs
    <2>7. QED
      BY <2>4, <2>5, <2>6 DEF k
  <1>11. /\ s5 \in Elements /\ b5 \in [Limbs -> Nat] /\ Within(s5, b5) /\ Congruent(Value(h), Value(s5))
        /\ b5[2] = Half(2) /\ b5[3] = b4[3] + 1 * (1600 * o + 1053)
        /\ \A j \in Limbs \ {2, 3} : b5[j] = b4[j]
    <2> DEFINE k == 1600 * o + 1053
    <2>1. k \in Nat /\ LimbRadix(2) * k = 2 * (1600 * q) + 2 * (1053 * o)
      <3>1. k = 1600 * o + 1053
        BY <1>1
      <3>2. LimbRadix(2) = 2 * o
        BY <1>3
      <3>3. (2 * o) * (1600 * o + 1053) = 2 * (1600 * q) + 2 * (1053 * o)
        BY <1>5
      <3>4. k \in Nat
        BY <1>1
      <3> HIDE DEF k
      <3>5. QED
        BY <3>1, <3>2, <3>3, <3>4
    <2>2. b4[2] <= LimbRadix(2) * k
      <3> DEFINE p == LimbRadix(2) * k
      <3>1. p = 2 * (1600 * q) + 2 * (1053 * o)
        BY <2>1
      <3> HIDE DEF k, p
      <3>2. b4[2] <= p
        BY <1>1, <1>3, <1>4, <3>1, <1>7, <1>8, <1>9, <1>10 DEF Limbs
      <3>3. QED
        BY <3>2 DEF p
    <2>3. b5 = Widen(b4, 2, k) /\ s5 = RoundCarry(s4, 2) /\ 2 \in Limbs
      BY DEF b5, s5, Limbs
    <2> HIDE DEF k
    <2>4. s5 \in Elements /\ b5 \in [Limbs -> Nat] /\ Within(s5, b5) /\ Congruent(Value(s4), Value(s5))
      BY <1>10, <2>1, <2>2, <2>3, RoundCarryEffect
    <2>5. Congruent(Value(h), Value(s5))
      BY <1>10, <2>4, ValueType, CongruentTransitive
    <2>6. b5[2] = Half(2) /\ b5[3] = b4[3] + 1 * k /\ \A j \in Limbs \ {2, 3} : b5[j] = b4[j]
      BY <2>3 DEF Widen, Above, Wrap, Limbs
    <2>7. QED
      BY <2>4, <2>5, <2>6 DEF k
  <1>12. /\ s6 \in Elements /\ b6 \in [Limbs -> Nat] /\ Within(s6, b6) /\ Congruent(Value(h), Value(s6))
        /\ b6[6] = Half(6) /\ b6[7] = b5[7] + 1 * (1600 * o + 1053)
        /\ \A j \in Limbs \ {6, 7} : b6[j] = b5[j]
    <2> DEFINE k == 1600 * o + 1053
    <2>1. k \in Nat /\ LimbRadix(6) * k = 2 * (1600 * q) + 2 * (1053 * o)
      <3>1. k = 1600 * o + 1053
        BY <1>1
      <3>2. LimbRadix(6) = 2 * o
        BY <1>3
      <3>3. (2 * o) * (1600 * o + 1053) = 2 * (1600 * q) + 2 * (1053 * o)
        BY <1>5
      <3>4. k \in Nat
        BY <1>1
      <3> HIDE DEF k
      <3>5. QED
        BY <3>1, <3>2, <3>3, <3>4
    <2>2. b5[6] <= LimbRadix(6) * k
      <3> DEFINE p == LimbRadix(6) * k
      <3>1. p = 2 * (1600 * q) + 2 * (1053 * o)
        BY <2>1
      <3> HIDE DEF k, p
      <3>2. b5[6] <= p
        BY <1>1, <1>3, <1>4, <3>1, <1>7, <1>8, <1>9, <1>10, <1>11 DEF Limbs
      <3>3. QED
        BY <3>2 DEF p
    <2>3. b6 = Widen(b5, 6, k) /\ s6 = RoundCarry(s5, 6) /\ 6 \in Limbs
      BY DEF b6, s6, Limbs
    <2> HIDE DEF k
    <2>4. s6 \in Elements /\ b6 \in [Limbs -> Nat] /\ Within(s6, b6) /\ Congruent(Value(s5), Value(s6))
      BY <1>11, <2>1, <2>2, <2>3, RoundCarryEffect
    <2>5. Congruent(Value(h), Value(s6))
      BY <1>11, <2>4, ValueType, CongruentTransitive
    <2>6. b6[6] = Half(6) /\ b6[7] = b5[7] + 1 * k /\ \A j \in Limbs \ {6, 7} : b6[j] = b5[j]
      BY <2>3 DEF Widen, Above, Wrap, Limbs
    <2>7. QED
      BY <2>4, <2>5, <2>6 DEF k
  <1>13. /\ s7 \in Elements /\ b7 \in [Limbs -> Nat] /\ Within(s7, b7) /\ Congruent(Value(h), Value(s7))
        /\ b7[3] = Half(3) /\ b7[4] = b6[4] + 1 * (2080 * o + 1609)
        /\ \A j \in Limbs \ {3, 4} : b7[j] = b6[j]
    <2> DEFINE k == 2080 * o + 1609
    <2>1. k \in Nat /\ LimbRadix(3) * k = 2080 * q + 1609 * o
      <3>1. k = 2080 * o + 1609
        BY <1>1
      <3>2. LimbRadix(3) = o
        BY <1>3
      <3>3. o * (2080 * o + 1609) = 2080 * q + 1609 * o
        BY <1>5
      <3>4. k \in Nat
        BY <1>1
      <3> HIDE DEF k
      <3>5. QED
        BY <3>1, <3>2, <3>3, <3>4
    <2>2. b6[3] <= LimbRadix(3) * k
      <3> DEFINE p == LimbRadix(3) * k
      <3>1. p = 2080 * q + 1609 * o
        BY <2>1
      <3> HIDE DEF k, p
      <3>2. b6[3] <= p
        BY <1>1, <1>3, <1>4, <3>1, <1>7, <1>8, <1>9, <1>10, <1>11, <1>12 DEF Limbs
      <3>3. QED
        BY <3>2 DEF p
    <2>3. b7 = Widen(b6, 3, k) /\ s7 = RoundCarry(s6, 3) /\ 3 \in Limbs
      BY DEF b7, s7, Limbs
    <2> HIDE DEF k
    <2>4. s7 \in Elements /\ b7 \in [Limbs -> Nat] /\ Within(s7, b7) /\ Congruent(Value(s6), Value(s7))
      BY <1>12, <2>1, <2>2, <2>3, RoundCarryEffect
    <2>5. Congruent(Value(h), Value(s7))
      BY <1>12, <2>4, ValueType, CongruentTransitive
    <2>6. b7[3] = Half(3) /\ b7[4] = b6[4] + 1 * k /\ \A j \in Limbs \ {3, 4} : b7[j] = b6[j]
      BY <2>3 DEF Widen, Above, Wrap, Limbs
    <2>7. QED
      BY <2>4, <2>5, <2>6 DEF k
  <1>14. /\ s8 \in Elements /\ b8 \in [Limbs -> Nat] /\ Within(s8, b8) /\ Congruent(Value(h), Value(s8))
        /\ b8[7] = Half(7) /\ b8[8] = b7[8] + 1 * (2080 * o + 1609)
        /\ \A j \in Limbs \ {7, 8} : b8[j] = b7[j]
    <2> DEFINE k == 2080 * o + 1609
    <2>1. k \in Nat /\ LimbRadix(7) * k = 2080 * q + 1609 * o
      <3>1. k = 2080 * o + 1609
        BY <1>1
      <3>2. LimbRadix(7) = o
        BY <1>3
      <3>3. o * (2080 * o + 1609) = 2080 * q + 1609 * o
        BY <1>5
      <3>4. k \in Nat
        BY <1>1
      <3> HIDE DEF k
      <3>5. QED
        BY <3>1, <3>2, <3>3, <3>4
    <2>2. b7[7] <= LimbRadix(7) * k
      <3> DEFINE p == LimbRadix(7) * k
      <3>1. p = 2080 * q + 1609 * o
        BY <2>1
      <3> HIDE DEF k, p
      <3>2. b7[7] <= p
        BY <1>1, <1>3, <1>4, <3>1, <1>7, <1>8, <1>9, <1>10, <1>11, <1>12, <1>13 DEF Limbs
      <3>3. QED
        BY <3>2 DEF p
    <2>3. b8 = Widen(b7, 7, k) /\ s8 = RoundCarry(s7, 7) /\ 7 \in Limbs
      BY DEF b8, s8, Limbs
    <2> HIDE DEF k
    <2>4. s8 \in Elements /\ b8 \in [Limbs -> Nat] /\ Within(s8, b8) /\ Congruent(Value(s7), Value(s8))
      BY <1>13, <2>1, <2>2, <2>3, RoundCarryEffect
    <2>5. Congruent(Value(h), Value(s8))
      BY <1>13, <2>4, ValueType, CongruentTransitive
    <2>6. b8[7] = Half(7) /\ b8[8] = b7[8] + 1 * k /\ \A j \in Limbs \ {7, 8} : b8[j] = b7[j]
      BY <2>3 DEF Widen, Above, Wrap, Limbs
    <2>7. QED
      BY <2>4, <2>5, <2>6 DEF k
  <1>15. /\ s9 \in Elements /\ b9 \in [Limbs -> Nat] /\ Within(s9, b9) /\ Congruent(Value(h), Value(s9))
        /\ b9[4] = Half(4) /\ b9[5] = b8[5] + 1 * (1047)
        /\ \A j \in Limbs \ {4, 5} : b9[j] = b8[j]
    <2> DEFINE k == 1047
    <2>1. k \in Nat /\ LimbRadix(4) * k = 2 * (0 * q) + 2 * (1047 * o)
      <3>1. k = 0 * o + 1047
        BY <1>1
      <3>2. LimbRadix(4) = 2 * o
        BY <1>3
      <3>3. (2 * o) * (0 * o + 1047) = 2 * (0 * q) + 2 * (1047 * o)
        BY <1>5
      <3>4. k \in Nat
        BY <1>1
      <3> HIDE DEF k
      <3>5. QED
        BY <3>1, <3>2, <3>3, <3>4
    <2>2. b8[4] <= LimbRadix(4) * k
      <3> DEFINE p == LimbRadix(4) * k
      <3>1. p = 2 * (0 * q) + 2 * (1047 * o)
        BY <2>1
      <3> HIDE DEF k, p
      <3>2. b8[4] <= p
        BY <1>1, <1>3, <1>4, <3>1, <1>7, <1>8, <1>9, <1>10, <1>11, <1>12, <1>13, <1>14 DEF Limbs
      <3>3. QED
        BY <3>2 DEF p
    <2>3. b9 = Widen(b8, 4, k) /\ s9 = RoundCarry(s8, 4) /\ 4 \in Limbs
      BY DEF b9, s9, Limbs
    <2> HIDE DEF k
    <2>4. s9 \in Elements /\ b9 \in [Limbs -> Nat] /\ Within(s9, b9) /\ Congruent(Value(s8), Value(s9))
      BY <1>14, <2>1, <2>2, <2>3, RoundCarryEffect
    <2>5. Congruent(Value(h), Value(s9))
      BY <1>14, <2>4, ValueType, CongruentTransitive
    <2>6. b9[4] = Half(4) /\ b9[5] = b8[5] + 1 * k /\ \A j \in Limbs \ {4, 5} : b9[j] = b8[j]
      BY <2>3 DEF Widen, Above, Wrap, Limbs
    <2>7. QED
      BY <2>4, <2>5, <2>6 DEF k
  <1>16. /\ s10 \in Elements /\ b10 \in [Limbs -> Nat] /\ Within(s10, b10) /\ Congruent(Value(h), Value(s10))
        /\ b10[8] = Half(8) /\ b10[9] = b9[9] + 1 * (1600 * o + 1047)
        /\ \A j \in Limbs \ {8, 9} : b10[j] = b9[j]
    <2> DEFINE k == 1600 * o + 1047
    <2>1. k \in Nat /\ LimbRadix(8) * k = 2 * (1600 * q) + 2 * (1047 * o)
      <3>1. k = 1600 * o + 1047
        BY <1>1
      <3>2. LimbRadix(8) = 2 * o
        BY <1>3
      <3>3. (2 * o) * (1600 * o + 1047) = 2 * (1600 * q) + 2 * (1047 * o)
        BY <1>5
      <3>4. k \in Nat
        BY <1>1
      <3> HIDE DEF k
      <3>5. QED
        BY <3>1, <3>2, <3>3, <3>4
    <2>2. b9[8] <= LimbRadix(8) * k
      <3> DEFINE p == LimbRadix(8) * k
      <3>1. p = 2 * (1600 * q) + 2 * (1047 * o)
        BY <2>1
      <3> HIDE DEF k, p
      <3>2. b9[8] <= p
        BY <1>1, <1>3, <1>4, <3>1, <1>7, <1>8, <1>9, <1>10, <1>11, <1>12, <1>13, <1>14, <1>15 DEF Limbs
      <3>3. QED
        BY <3>2 DEF p
    <2>3. b10 = Widen(b9, 8, k) /\ s10 = RoundCarry(s9, 8) /\ 8 \in Limbs
      BY DEF b10, s10, Limbs
    <2> HIDE DEF k
    <2>4. s10 \in Elements /\ b10 \in [Limbs -> Nat] /\ Within(s10, b10) /\ Congruent(Value(s9), Value(s10))
      BY <1>15, <2>1, <2>2, <2>3, RoundCarryEffect
    <2>5. Congruent(Value(h), Value(s10))
      BY <1>15, <2>4, ValueType, CongruentTransitive
    <2>6. b10[8] = Half(8) /\ b10[9] = b9[9] + 1 * k /\ \A j \in Limbs \ {8, 9} : b10[j] = b9[j]
      BY <2>3 DEF Widen, Above, Wrap, Limbs
    <2>7. QED
      BY <2>4, <2>5, <2>6 DEF k
  <1>17. /\ s11 \in Elements /\ b11 \in [Limbs -> Nat] /\ Within(s11, b11) /\ Congruent(Value(h), Value(s11))
        /\ b11[9] = Half(9) /\ b11[0] = b10[0] + 19 * (110 * o + 1609)
        /\ \A j \in Limbs \ {9, 0} : b11[j] = b10[j]
    <2> DEFINE k == 110 * o + 1609
    <2>1. k \in Nat /\ LimbRadix(9) * k = 110 * q + 1609 * o
      <3>1. k = 110 * o + 1609
        BY <1>1
      <3>2. LimbRadix(9) = o
        BY <1>3
      <3>3. o * (110 * o + 1609) = 110 * q + 1609 * o
        BY <1>5
      <3>4. k \in Nat
        BY <1>1
      <3> HIDE DEF k
      <3>5. QED
        BY <3>1, <3>2, <3>3, <3>4
    <2>2. b10[9] <= LimbRadix(9) * k
      <3> DEFINE p == LimbRadix(9) * k
      <3>1. p = 110 * q + 1609 * o
        BY <2>1
      <3> HIDE DEF k, p
      <3>2. b10[9] <= p
        BY <1>1, <1>3, <1>4, <3>1, <1>7, <1>8, <1>9, <1>10, <1>11, <1>12, <1>13, <1>14, <1>15, <1>16 DEF Limbs
      <3>3. QED
        BY <3>2 DEF p
    <2>3. b11 = Widen(b10, 9, k) /\ s11 = RoundCarry(s10, 9) /\ 9 \in Limbs
      BY DEF b11, s11, Limbs
    <2> HIDE DEF k
    <2>4. s11 \in Elements /\ b11 \in [Limbs -> Nat] /\ Within(s11, b11) /\ Congruent(Value(s10), Value(s11))
      BY <1>16, <2>1, <2>2, <2>3, RoundCarryEffect
    <2>5. Congruent(Value(h), Value(s11))
      BY <1>16, <2>4, ValueType, CongruentTransitive
    <2>6. b11[9] = Half(9) /\ b11[0] = b10[0] + 19 * k /\ \A j \in Limbs \ {9, 0} : b11[j] = b10[j]
      BY <2>3 DEF Widen, Above, Wrap, Limbs
    <2>7. QED
      BY <2>4, <2>5, <2>6 DEF k
  <1>18. /\ s12 \in Elements /\ b12 \in [Limbs -> Nat] /\ Within(s12, b12) /\ Congruent(Value(h), Value(s12))
        /\ b12[0] = Half(0) /\ b12[1] = b11[1] + 1 * (1165)
        /\ \A j \in Limbs \ {0, 1} : b12[j] = b11[j]
    <2> DEFINE k == 1165
    <2>1. k \in Nat /\ LimbRadix(0) * k = 2 * (0 * q) + 2 * (1165 * o)
      <3>1. k = 0 * o + 1165
        BY <1>1
      <3>2. LimbRadix(0) = 2 * o
        BY <1>3
      <3>3. (2 * o) * (0 * o + 1165) = 2 * (0 * q) + 2 * (1165 * o)
        BY <1>5
      <3>4. k \in Nat
        BY <1>1
      <3> HIDE DEF k
      <3>5. QED
        BY <3>1, <3>2, <3>3, <3>4
    <2>2. b11[0] <= LimbRadix(0) * k
      <3> DEFINE p == LimbRadix(0) * k
      <3>1. p = 2 * (0 * q) + 2 * (1165 * o)
        BY <2>1
      <3> HIDE DEF k, p
      <3>2. b11[0] <= p
        BY <1>1, <1>3, <1>4, <3>1, <1>7, <1>8, <1>9, <1>10, <1>11, <1>12, <1>13, <1>14, <1>15, <1>16, <1>17 DEF Limbs
      <3>3. QED
        BY <3>2 DEF p
    <2>3. b12 = Widen(b11, 0, k) /\ s12 = RoundCarry(s11, 0) /\ 0 \in Limbs
      BY DEF b12, s12, Limbs
    <2> HIDE DEF k
    <2>4. s12 \in Elements /\ b12 \in [Limbs -> Nat] /\ Within(s12, b12) /\ Congruent(Value(s11), Value(s12))
      BY <1>17, <2>1, <2>2, <2>3, RoundCarryEffect
    <2>5. Congruent(Value(h), Value(s12))
      BY <1>17, <2>4, ValueType, CongruentTransitive
    <2>6. b12[0] = Half(0) /\ b12[1] = b11[1] + 1 * k /\ \A j \in Limbs \ {0, 1} : b12[j] = b11[j]
      BY <2>3 DEF Widen, Above, Wrap, Limbs
    <2>7. QED
      BY <2>4, <2>5, <2>6 DEF k
  <1>19. ASSUME NEW i \in Limbs
         PROVE  b12[i] <= Half(i) + (IF i \in {1, 5} THEN 1200 ELSE 0) /\ Half(i) \in Nat
    BY <1>1, <1>3, <1>7, <1>8, <1>9, <1>10, <1>11, <1>12, <1>13, <1>14, <1>15, <1>16, <1>17, <1>18 DEF Limbs
  <1>20. ASSUME NEW i \in Limbs
         PROVE  LET most == Half(i) + (IF i \in {1, 5} THEN 1200 ELSE 0)
                IN  s12[i] \in -most .. most
    <2>1. s12[i] \in -b12[i] .. b12[i] /\ b12[i] \in Nat
      BY <1>18 DEF Within
    <2>2. QED
      BY <1>19, <2>1
  <1>21. QED
    BY <1>2, <1>18, <1>20

LEMMA RoundCarryCongruent ==
  ASSUME NEW h \in Elements, NEW i \in Limbs
  PROVE  RoundCarry(h, i) \in Elements /\ Congruent(Value(h), Value(RoundCarry(h, i)))
  <1>1. \A x, s \in Int : \A r \in Nat : r >= 128 => (x + s) \div r \in Int
    OBVIOUS
  <1>2. h[i] \in Int /\ Half(i) \in Int /\ LimbRadix(i) \in Nat /\ LimbRadix(i) >= 128
    BY RadixType DEF Elements
  <1>3. (h[i] + Half(i)) \div LimbRadix(i) \in Int
    BY <1>1, <1>2
  <1>4. QED
    BY <1>3, MoveCarryValue DEF RoundCarry

\* One more carry, from limb i.
LEMMA CarryOn ==
  ASSUME NEW h \in Elements, NEW n \in Elements, Congruent(Value(h), Value(n)), NEW i \in Limbs
  PROVE  RoundCarry(n, i) \in Elements /\ Congruent(Value(h), Value(RoundCarry(n, i)))
  BY RoundCarryCongruent, CongruentTransitive, ValueType

\* The ten carries after a load keep the value, whatever the limbs.
LEMMA LoadCarriesEffect ==
  ASSUME NEW h \in Elements
  PROVE  LoadCarries(h) \in Elements /\ Congruent(Value(h), Value(LoadCarries(h)))
  <1> DEFINE s1 == RoundCarry(h, 9)
             s2 == RoundCarry(s1, 1)
             s3 == RoundCarry(s2, 3)
             s4 == RoundCarry(s3, 5)
             s5 == RoundCarry(s4, 7)
             s6 == RoundCarry(s5, 0)
             s7 == RoundCarry(s6, 2)
             s8 == RoundCarry(s7, 4)
             s9 == RoundCarry(s8, 6)
             s10 == RoundCarry(s9, 8)
  <1>1. LoadCarries(h) = s10
    BY DEF LoadCarries
  <1>2. 0 \in Limbs /\ 1 \in Limbs /\ 2 \in Limbs /\ 3 \in Limbs /\ 4 \in Limbs /\ 5 \in Limbs /\ 6 \in Limbs
        /\ 7 \in Limbs /\ 8 \in Limbs /\ 9 \in Limbs
    BY DEF Limbs
  <1>3. s1 \in Elements /\ Congruent(Value(h), Value(s1))
    BY <1>2, RoundCarryCongruent
  <1> HIDE DEF s1
  <1>4. s2 \in Elements /\ Congruent(Value(h), Value(s2))
    BY <1>2, <1>3, CarryOn
  <1> HIDE DEF s2
  <1>5. s3 \in Elements /\ Congruent(Value(h), Value(s3))
    BY <1>2, <1>4, CarryOn
  <1> HIDE DEF s3
  <1>6. s4 \in Elements /\ Congruent(Value(h), Value(s4))
    BY <1>2, <1>5, CarryOn
  <1> HIDE DEF s4
  <1>7. s5 \in Elements /\ Congruent(Value(h), Value(s5))
    BY <1>2, <1>6, CarryOn
  <1> HIDE DEF s5
  <1>8. s6 \in Elements /\ Congruent(Value(h), Value(s6))
    BY <1>2, <1>7, CarryOn
  <1> HIDE DEF s6
  <1>9. s7 \in Elements /\ Congruent(Value(h), Value(s7))
    BY <1>2, <1>8, CarryOn
  <1> HIDE DEF s7
  <1>10. s8 \in Elements /\ Congruent(Value(h), Value(s8))
    BY <1>2, <1>9, CarryOn
  <1> HIDE DEF s8
  <1>11. s9 \in Elements /\ Congruent(Value(h), Value(s9))
    BY <1>2, <1>10, CarryOn
  <1> HIDE DEF s9
  <1>12. s10 \in Elements /\ Congruent(Value(h), Value(s10))
    BY <1>2, <1>11, CarryOn
  <1>13. QED
    BY <1>1, <1>12

(***************************************************************************)
(* Bounds of products                                                      *)
(***************************************************************************)
LEMMA ProductWithin ==
  ASSUME NEW a \in Nat, NEW b \in Nat, NEW x \in -a .. a, NEW y \in -b .. b
  PROVE  x * y \in -(a * b) .. a * b
  <1>1. /\ (a - x) * (b + y) >= 0 /\ (a + x) * (b - y) >= 0
        /\ (a - x) * (b - y) >= 0 /\ (a + x) * (b + y) >= 0
    <2>1. \A u, v \in Nat : u * v >= 0
      OBVIOUS
    <2>2. a - x \in Nat /\ a + x \in Nat /\ b - y \in Nat /\ b + y \in Nat
      OBVIOUS
    <2>3. QED
      BY <2>1, <2>2
  <1>2. /\ (a - x) * (b + y) + (a + x) * (b - y) = 2 * (a * b) - 2 * (x * y)
        /\ (a - x) * (b - y) + (a + x) * (b + y) = 2 * (a * b) + 2 * (x * y)
    OBVIOUS
  <1>3. x * y \in Int /\ a * b \in Nat
    OBVIOUS
  <1> DEFINE p == x * y
             c == a * b
  <1>4. p \in Int /\ c \in Nat /\ 2 * c - 2 * p >= 0 /\ 2 * c + 2 * p >= 0
    BY <1>1, <1>2, <1>3
  <1> HIDE DEF p, c
  <1>5. p \in -c .. c
    BY <1>4
  <1>6. QED
    BY <1>5 DEF p, c

LEMMA SumWithin ==
  ASSUME NEW t \in Elements, NEW b \in [Limbs -> Nat], Within(t, b)
  PROVE  SumLimbs(t) \in -SumLimbs(b) .. SumLimbs(b)
  <1>1. \A i \in Limbs : t[i] \in Int /\ b[i] \in Nat /\ -b[i] <= t[i] /\ t[i] <= b[i]
    BY DEF Elements, Within
  <1>2. QED
    BY <1>1 DEF SumLimbs, Limbs

\* Limbs up to 1.65 times the size, as the operands of a product may be.
Operand(f) == \A i \in Limbs : 100 * f[i] \in -(165 * LimbRadix(i)) .. 165 * LimbRadix(i)

\* Ten thousand times the bound of limbs i and j multiplied, in squares of OddRadix.
TermSize(i, j) == (IF i % 2 = 0 /\ j % 2 = 0 THEN 108900 ELSE 54450) * WrapFactor(i, j)

LEMMA TermBound ==
  ASSUME NEW f \in Elements, NEW g \in Elements, Operand(f), Operand(g), NEW i \in Limbs, NEW j \in Limbs
  PROVE  LET c == TermSize(i, j) * (OddRadix * OddRadix)
         IN  c \in Nat /\ 10000 * Term(f, g, i, j) \in -c .. c
  <1> DEFINE o == OddRadix
             q == o * o
             x == f[i]
             y == g[j]
             p == x * y
             d == OddFactor(i, j)
             w == WrapFactor(i, j)
             s == IF i % 2 = 0 /\ j % 2 = 0 THEN 108900 ELSE 54450
  <1>1. o \in Nat /\ x \in Int /\ y \in Int /\ p \in Int /\ q \in Nat
    BY Sizes, Regroup DEF Elements
  <1>2. /\ LimbRadix(i) = IF i % 2 = 0 THEN 2 * o ELSE o
        /\ LimbRadix(j) = IF j % 2 = 0 THEN 2 * o ELSE o
    BY Sizes DEF LimbRadix
  <1>3. /\ 100 * x \in -(165 * LimbRadix(i)) .. 165 * LimbRadix(i)
        /\ 100 * y \in -(165 * LimbRadix(j)) .. 165 * LimbRadix(j)
    BY DEF Operand
  <1>4. \A m, n \in Nat : (m * o) * (n * o) = (m * n) * q
    <2>1. \A m, n, z \in Nat : (m * z) * (n * z) = (m * n) * (z * z)
      OBVIOUS
    <2>2. QED
      BY <1>1, <2>1
  <1>5. (100 * x) * (100 * y) = 10000 * p
    BY <1>1
  <1>6. 10000 * (p * d) \in -(s * q) .. s * q /\ s * q \in Nat
    <2> HIDE DEF o, x, y, p, q
    <2>1. ASSUME NEW m \in Nat, NEW n \in Nat, 100 * x \in -(m * o) .. m * o, 100 * y \in -(n * o) .. n * o
          PROVE  10000 * p \in -((m * n) * q) .. (m * n) * q
      <3> DEFINE mo == m * o
                 no == n * o
                 xx == 100 * x
                 yy == 100 * y
      <3>1. mo \in Nat /\ no \in Nat /\ xx \in -mo .. mo /\ yy \in -no .. no /\ xx * yy = 10000 * p
            /\ mo * no = (m * n) * q
        BY <1>1, <1>4, <1>5, <2>1
      <3> HIDE DEF mo, no, xx, yy
      <3>2. xx * yy \in -(mo * no) .. mo * no
        BY <3>1, ProductWithin
      <3>3. QED
        BY <3>1, <3>2
    <2>2. CASE i % 2 = 0 /\ j % 2 = 0
      <3>1. 10000 * p \in -((330 * 330) * q) .. (330 * 330) * q
        <4>1. 165 * (2 * o) = 330 * o
          BY <1>1
        <4>2. QED
          BY <1>2, <1>3, <2>1, <2>2, <4>1
      <3>2. d = 1 /\ s = 108900
        BY <2>2 DEF OddFactor
      <3>3. QED
        BY <1>1, <3>1, <3>2
    <2>3. CASE i % 2 = 0 /\ j % 2 = 1
      <3>1. 10000 * p \in -((330 * 165) * q) .. (330 * 165) * q
        <4>1. 165 * (2 * o) = 330 * o
          BY <1>1
        <4>2. QED
          BY <1>2, <1>3, <2>1, <2>3, <4>1
      <3>2. d = 1 /\ s = 54450
        BY <2>3 DEF OddFactor
      <3>3. QED
        BY <1>1, <3>1, <3>2
    <2>4. CASE i % 2 = 1 /\ j % 2 = 0
      <3>1. 10000 * p \in -((165 * 330) * q) .. (165 * 330) * q
        <4>1. 165 * (2 * o) = 330 * o
          BY <1>1
        <4>2. QED
          BY <1>2, <1>3, <2>1, <2>4, <4>1
      <3>2. d = 1 /\ s = 54450
        BY <2>4 DEF OddFactor
      <3>3. QED
        BY <1>1, <3>1, <3>2
    <2>5. CASE i % 2 = 1 /\ j % 2 = 1
      <3>1. 10000 * p \in -((165 * 165) * q) .. (165 * 165) * q
        BY <1>2, <1>3, <2>1, <2>5
      <3>2. d = 2 /\ s = 54450
        BY <2>5 DEF OddFactor
      <3>3. QED
        BY <1>1, <3>1, <3>2
    <2>6. QED
      BY <2>2, <2>3, <2>4, <2>5 DEF Limbs
  <1>7. w \in {1, 19} /\ d \in Int /\ s \in Nat
    BY DEF WrapFactor, OddFactor
  <1>8. Term(f, g, i, j) = (p * d) * w /\ TermSize(i, j) * q = (s * w) * q
    BY DEF Term, TermSize
  <1> HIDE DEF p, d, w, s, q, x, y, o
  <1> DEFINE a == p * d
             b == s * q
  <1>9. a \in Int /\ (s * w) * q = b * w
    BY <1>1, <1>7, Regroup
  <1>10. b \in Nat /\ 10000 * a \in -b .. b
    BY <1>6
  <1> HIDE DEF a, b
  <1>11. 10000 * (a * w) \in -(b * w) .. b * w /\ b * w \in Nat
    <2>1. CASE w = 1
      BY <1>9, <1>10, <2>1
    <2>2. CASE w = 19
      BY <1>9, <1>10, <2>2
    <2>3. QED
      BY <1>7, <2>1, <2>2
  <1>12. QED
    BY <1>8, <1>9, <1>11 DEF a, o, q

\* The bounds of the terms of limb k of a product, summed.
LEMMA ColumnSize ==
  ASSUME NEW k \in Limbs
  PROVE  SumLimbs([i \in Limbs |-> TermSize(i, Partner(k, i)) * (OddRadix * OddRadix)]) <= 5000 * ProductBounds[k]
  <1> DEFINE q == OddRadix * OddRadix
             size(i) == TermSize(i, Partner(k, i))
             b == [i \in Limbs |-> size(i) * q]
  <1>0. q \in Nat
    BY Sizes
  <1> SUFFICES SumLimbs(b) <= 5000 * ProductBounds[k]
    OBVIOUS
  <1> HIDE DEF q
  <1>1. SumLimbs(b) = size(0) * q + size(1) * q + size(2) * q + size(3) * q + size(4) * q
                        + size(5) * q + size(6) * q + size(7) * q + size(8) * q + size(9) * q
    <2> HIDE DEF size
    <2>1. QED
      BY DEF SumLimbs, Limbs
  <1>2. ProductBounds[k] = IF k = 9 THEN 110 * q ELSE IF k % 2 = 0 THEN 3200 * q ELSE 2080 * q
    BY DEF ProductBounds, q
  <1> HIDE DEF b
  <1>3. CASE k \in {0, 2, 4, 6, 8}
    <2>1. /\ \A i \in {0, 2, 4, 6, 8} : size(i) \in {108900, 2069100}
          /\ \A i \in {1, 3, 5, 7, 9} : size(i) \in {54450, 1034550}
      BY <1>3 DEF TermSize, WrapFactor, Partner
    <2> HIDE DEF size
    <2>2. /\ \A i \in {0, 2, 4, 6, 8} : size(i) * q <= 2069100 * q /\ size(i) * q \in Nat
          /\ \A i \in {1, 3, 5, 7, 9} : size(i) * q <= 1034550 * q /\ size(i) * q \in Nat
      BY <1>0, <2>1
    <2>3. ProductBounds[k] = 3200 * q
      BY <1>2, <1>3
    <2>4. QED
      BY <1>0, <1>1, <2>2, <2>3
  <1>4. CASE k \in {1, 3, 5, 7}
    <2>1. \A i \in Limbs : size(i) \in {54450, 1034550}
      BY <1>4 DEF TermSize, WrapFactor, Partner, Limbs
    <2> HIDE DEF size
    <2>2. \A i \in Limbs : size(i) * q <= 1034550 * q /\ size(i) * q \in Nat
      BY <1>0, <2>1
    <2>3. ProductBounds[k] = 2080 * q
      BY <1>2, <1>4
    <2>4. QED
      BY <1>0, <1>1, <2>2, <2>3 DEF Limbs
  <1>5. CASE k = 9
    <2>1. \A i \in Limbs : size(i) = 54450
      BY <1>5 DEF TermSize, WrapFactor, Partner, Limbs
    <2> HIDE DEF size
    <2>2. ProductBounds[k] = 110 * q
      BY <1>2, <1>5
    <2>3. QED
      BY <1>0, <1>1, <2>1, <2>2 DEF Limbs
  <1>6. QED
    BY <1>3, <1>4, <1>5 DEF Limbs

LEMMA MulProductsBound ==
  ASSUME NEW f \in Elements, NEW g \in Elements, Operand(f), Operand(g)
  PROVE  LET twice == [k \in Limbs |-> 2 * MulProducts(f, g)[k]]
         IN  twice \in Elements /\ Within(twice, ProductBounds) /\ Within(MulProducts(f, g), ProductBounds)
  <1> DEFINE q == OddRadix * OddRadix
             h == MulProducts(f, g)
  <1>1. q \in Nat /\ h \in Elements
    <2>1. q \in Nat
      BY Sizes
    <2>2. QED
      BY <2>1, MulProductsValue
  <1>2. ASSUME NEW k \in Limbs
        PROVE  20000 * h[k] \in -(10000 * ProductBounds[k]) .. 10000 * ProductBounds[k]
    <2> DEFINE size(i) == TermSize(i, Partner(k, i))
               t == [i \in Limbs |-> 10000 * Term(f, g, i, Partner(k, i))]
               b == [i \in Limbs |-> size(i) * q]
    <2>1. \A i \in Limbs : size(i) * q \in Nat /\ 10000 * Term(f, g, i, Partner(k, i)) \in -(size(i) * q) .. size(i) * q
      BY PartnerPlace, TermBound
    <2>2. t \in Elements /\ b \in [Limbs -> Nat] /\ Within(t, b)
      BY <2>1 DEF Elements, Within
    <2>3. SumLimbs(t) = 10000 * h[k]
      <3> DEFINE column == [i \in Limbs |-> Term(f, g, i, Partner(k, i))]
      <3>1. column \in Elements /\ h[k] = SumLimbs(column)
        BY PartnerPlace, TermType DEF Elements, MulProducts, Term
      <3>2. t = [i \in Limbs |-> 10000 * column[i]]
        OBVIOUS
      <3> HIDE DEF column, t, h
      <3>3. QED
        BY <3>1, <3>2, SumScale
    <2>4. SumLimbs(b) <= 5000 * ProductBounds[k]
      BY ColumnSize
    <2>5. ProductBounds[k] \in Nat
      BY <1>1 DEF ProductBounds
    <2> HIDE DEF t, b, h
    <2>6. SumLimbs(t) \in -SumLimbs(b) .. SumLimbs(b) /\ SumLimbs(b) \in Int
      BY <2>2, SumWithin, SumType DEF Elements
    <2>7. h[k] \in Int
      BY <1>1 DEF Elements
    <2>8. QED
      BY <2>3, <2>4, <2>5, <2>6, <2>7
  <1>3. ASSUME NEW k \in Limbs
        PROVE  /\ 2 * h[k] \in -ProductBounds[k] .. ProductBounds[k]
               /\ h[k] \in -ProductBounds[k] .. ProductBounds[k] /\ h[k] \in Int
    <2>1. h[k] \in Int /\ ProductBounds[k] \in Nat
      BY <1>1 DEF Elements, ProductBounds
    <2> DEFINE x == h[k]
               b == ProductBounds[k]
    <2>2. x \in Int /\ b \in Nat /\ 20000 * x \in -(10000 * b) .. 10000 * b
      BY <1>2, <2>1
    <2> HIDE DEF x, b
    <2>3. 2 * x \in -b .. b /\ x \in -b .. b
      BY <2>2
    <2>4. QED
      BY <2>1, <2>3 DEF x, b
  <1>4. QED
    BY <1>1, <1>3 DEF Within, Elements

\* The carried product of two operands within their bounds.
Reduced25519(h) ==
  h \in Elements /\ \A i \in Limbs : LET most == Half(i) + (IF i \in {1, 5} THEN 1200 ELSE 0) IN h[i] \in -most .. most

\* fe_mul multiplies modulo the prime, and leaves no limb wider than half its size,
\* the last two carries (into limbs 1 and 5) excepted, which may exceed it by 1200.
THEOREM MulCorrect ==
  ASSUME NEW f \in Elements, NEW g \in Elements, Operand(f), Operand(g)
  PROVE  Reduced25519(fe_mul(f, g)) /\ Congruent(Value(f) * Value(g), Value(fe_mul(f, g)))
  <1>1. MulProducts(f, g) \in Elements /\ Within(MulProducts(f, g), ProductBounds)
    BY MulProductsValue, MulProductsBound
  <1>2. Reduced25519(fe_mul(f, g)) /\ Congruent(Value(MulProducts(f, g)), Value(fe_mul(f, g)))
    BY <1>1, ProductCarriesEffect DEF fe_mul, Reduced25519
  <1>3. Value(f) * Value(g) \in Int /\ Value(MulProducts(f, g)) \in Int /\ Value(fe_mul(f, g)) \in Int
    BY <1>1, <1>2, ValueType, Regroup DEF Reduced25519
  <1>4. QED
    BY <1>2, <1>3, ProductsCongruent, CongruentTransitive

\* No product leaves its word.  19 times a limb, doubled if the limb is odd, is below
\* 64 * OddRadix, which is 2^31 in the code: f5_38, g9_19 and the like are 32 bits
\* wide.  The terms of a limb, whatever their signs and however many of them are
\* added, twice over as in fe_sq2, stay below 8192 * OddRadix^2, which is 2^63.
THEOREM ProductsFit ==
  ASSUME NEW f \in Elements, NEW g \in Elements, Operand(f), Operand(g)
  PROVE  LET half == 64 * OddRadix
             word == 8192 * (OddRadix * OddRadix)
         IN  /\ \A i \in Limbs : (19 * OddFactor(i, i)) * g[i] \in -half .. half - 1
             /\ \A k \in Limbs, s \in [Limbs -> {-1, 0, 1}] :
                  2 * SumLimbs([i \in Limbs |-> s[i] * Term(f, g, i, Partner(k, i))]) \in -word .. word - 1
  <1> DEFINE q == OddRadix * OddRadix
  <1>1. q \in Nat /\ q > 0
    <2>1. \A x \in Nat : x >= 128 => x - 128 \in Nat /\ x * (x - 128) \in Nat /\ x * (x - 128) = x * x - 128 * x
      OBVIOUS
    <2>2. OddRadix \in Nat /\ OddRadix >= 128 /\ q \in Nat
      BY Sizes
    <2>3. OddRadix * (OddRadix - 128) \in Nat /\ OddRadix * (OddRadix - 128) = q - 128 * OddRadix
      BY <2>1, <2>2
    <2> HIDE DEF q
    <2>4. QED
      BY <2>2, <2>3
  <1>2. ASSUME NEW i \in Limbs
        PROVE  (19 * OddFactor(i, i)) * g[i] \in -(64 * OddRadix) .. 64 * OddRadix - 1
    <2> DEFINE x == g[i]
    <2>1. x \in Int /\ 100 * x \in -(165 * LimbRadix(i)) .. 165 * LimbRadix(i)
      BY DEF Operand, Elements
    <2> HIDE DEF x
    <2>2. CASE i % 2 = 0
      <3>1. LimbRadix(i) = 2 * OddRadix /\ 19 * OddFactor(i, i) = 19
        BY <2>2, Sizes DEF LimbRadix, OddFactor
      <3>2. 19 * x \in -(64 * OddRadix) .. 64 * OddRadix - 1
        BY <2>1, <3>1, Sizes
      <3>3. QED
        BY <3>1, <3>2 DEF x
    <2>3. CASE i % 2 = 1
      <3>1. LimbRadix(i) = OddRadix /\ 19 * OddFactor(i, i) = 38
        BY <2>3, Sizes DEF LimbRadix, OddFactor
      <3>2. 38 * x \in -(64 * OddRadix) .. 64 * OddRadix - 1
        BY <2>1, <3>1, Sizes
      <3>3. QED
        BY <3>1, <3>2 DEF x
    <2>4. QED
      BY <2>2, <2>3 DEF Limbs
  <1>3. ASSUME NEW k \in Limbs, NEW s \in [Limbs -> {-1, 0, 1}]
        PROVE  2 * SumLimbs([i \in Limbs |-> s[i] * Term(f, g, i, Partner(k, i))]) \in -(8192 * q) .. 8192 * q - 1
    <2> DEFINE p(i) == Partner(k, i)
               u == [i \in Limbs |-> s[i] * Term(f, g, i, p(i))]
               t == [i \in Limbs |-> 10000 * u[i]]
               b == [i \in Limbs |-> TermSize(i, p(i)) * q]
    <2>1. ASSUME NEW i \in Limbs
          PROVE  /\ u[i] \in Int /\ b[i] \in Nat /\ t[i] = 10000 * u[i]
                 /\ 10000 * u[i] \in -b[i] .. b[i]
      <3> DEFINE x == Term(f, g, i, p(i))
                 c == TermSize(i, p(i)) * q
      <3>1. x \in Int /\ c \in Nat /\ 10000 * x \in -c .. c
        <4>1. p(i) \in Limbs
          BY PartnerPlace
        <4>2. x \in Int
          BY <4>1, TermType
        <4>3. c \in Nat /\ 10000 * x \in -c .. c
          BY <4>1, TermBound
        <4>4. QED
          BY <4>2, <4>3
      <3>2. s[i] \in {-1, 0, 1} /\ u[i] = s[i] * x /\ b[i] = c /\ t[i] = 10000 * u[i]
        OBVIOUS
      <3> HIDE DEF x, c, u, b, t
      <3>3. QED
        BY <3>1, <3>2
    <2>2. u \in Elements /\ t \in Elements /\ b \in [Limbs -> Nat]
      <3>1. u = [i \in Limbs |-> u[i]] /\ t = [i \in Limbs |-> t[i]] /\ b = [i \in Limbs |-> b[i]]
        OBVIOUS
      <3> HIDE DEF u, t, b
      <3>2. QED
        BY <2>1, <3>1 DEF Elements
    <2>3. Within(t, b)
      BY <2>1 DEF Within
    <2>4. SumLimbs(b) <= 5000 * ProductBounds[k]
      BY ColumnSize
    <2>5. ProductBounds[k] \in Nat /\ ProductBounds[k] <= 3200 * q
      BY <1>1 DEF ProductBounds
    <2>6. SumLimbs(t) = 10000 * SumLimbs(u)
      BY <2>2, SumScale
    <2> HIDE DEF t, b, u, q
    <2>7. SumLimbs(t) \in -SumLimbs(b) .. SumLimbs(b) /\ SumLimbs(b) \in Int /\ SumLimbs(u) \in Int
      BY <2>2, <2>3, SumWithin, SumType DEF Elements
    <2>8. 2 * SumLimbs(u) \in -(8192 * q) .. 8192 * q - 1
      BY <1>1, <2>4, <2>5, <2>6, <2>7
    <2>9. QED
      BY <2>8 DEF u
  <1>4. QED
    BY <1>2, <1>3

(***************************************************************************)
(* Squares                                                                 *)
(***************************************************************************)
LEMMA PartnerTwice == ASSUME NEW k \in Limbs, NEW i \in Limbs PROVE Partner(k, Partner(k, i)) = i
  BY DEF Partner, Limbs

LEMMA TermSymmetric ==
  ASSUME NEW f \in Elements, NEW i \in Limbs, NEW j \in Limbs
  PROVE  Term(f, f, i, j) = Term(f, f, j, i)
  <1>1. OddFactor(i, j) = OddFactor(j, i) /\ WrapFactor(i, j) = WrapFactor(j, i)
    BY DEF OddFactor, WrapFactor, Limbs
  <1>2. f[i] * f[j] = f[j] * f[i]
    BY DEF Elements
  <1>3. QED
    BY <1>1, <1>2 DEF Term

\* The half of the terms that fe_sq computes, doubled, are all terms of fe_mul.
THEOREM SqProductsAreProducts ==
  ASSUME NEW f \in Elements
  PROVE  SqProducts(f) = MulProducts(f, f)
  <1>1. ASSUME NEW k \in Limbs
        PROVE  SqProducts(f)[k] = MulProducts(f, f)[k]
    <2> DEFINE p(i) == Partner(k, i)
               t == [i \in Limbs |-> Term(f, f, i, p(i))]
               s == [i \in Limbs |-> IF i < p(i) THEN 2 * t[i] ELSE IF i = p(i) THEN t[i] ELSE 0]
    <2>1. t \in Elements /\ MulProducts(f, f)[k] = SumLimbs(t)
      BY PartnerPlace, TermType DEF Elements, MulProducts, Term
    <2>2. \A i \in Limbs : t[p(i)] = t[i]
      <3>1. ASSUME NEW i \in Limbs PROVE t[p(i)] = t[i]
        <4>1. p(i) \in Limbs /\ p(p(i)) = i
          BY PartnerPlace, PartnerTwice
        <4>2. QED
          BY <4>1, TermSymmetric
      <3>2. QED
        BY <3>1
    <2>3. SqProducts(f)[k] = SumLimbs(s)
      <3> DEFINE r == [i \in Limbs |->
                         LET j == Partner(k, i)
                         IN  CASE i < j -> 2 * f[i] * f[j] * OddFactor(i, j) * WrapFactor(i, j)
                               [] i = j -> f[i] * f[i] * OddFactor(i, i) * WrapFactor(i, i)
                               [] i > j -> 0]
      <3>1. SqProducts(f)[k] = SumLimbs(r)
        BY DEF SqProducts
      <3>2. ASSUME NEW i \in Limbs PROVE r[i] = s[i]
        <4> DEFINE j == p(i)
        <4>1. j \in Limbs /\ i \in Int /\ j \in Int /\ f[i] \in Int /\ f[j] \in Int
              /\ OddFactor(i, j) \in Int /\ WrapFactor(i, j) \in Int
          BY PartnerPlace, Factors DEF Elements, Limbs
        <4>2. CASE i < j
          <5>1. r[i] = 2 * f[i] * f[j] * OddFactor(i, j) * WrapFactor(i, j)
            BY <4>1, <4>2
          <5>2. s[i] = 2 * (f[i] * f[j] * OddFactor(i, j) * WrapFactor(i, j))
            BY <4>1, <4>2 DEF Term
          <5>3. \A a, b, c, d \in Int : 2 * a * b * c * d = 2 * (a * b * c * d)
            OBVIOUS
          <5> HIDE DEF r, s, j
          <5>4. QED
            BY <4>1, <5>1, <5>2, <5>3
        <4>3. CASE i = j
          BY <4>1, <4>3 DEF Term
        <4>4. CASE i > j
          BY <4>1, <4>4
        <4> HIDE DEF r, s, j
        <4>5. QED
          BY <4>1, <4>2, <4>3, <4>4
      <3>3. r = s
        BY <3>2
      <3>4. QED
        BY <3>1, <3>3
    <2>4. SumLimbs(s) = SumLimbs(t)
      <3>1. \A i \in Limbs : s[i] = IF i < Partner(k, i) THEN 2 * t[i] ELSE IF i = Partner(k, i) THEN t[i] ELSE 0
        OBVIOUS
      <3>2. \A i \in Limbs : t[i] \in Int /\ t[Partner(k, i)] = t[i]
        BY <2>1, <2>2 DEF Elements
      <3> HIDE DEF s, t
      <3>3. CASE k = 0
        <4>1. /\ Partner(k, 0) = 0 /\ Partner(k, 1) = 9 /\ Partner(k, 2) = 8 /\ Partner(k, 3) = 7 /\ Partner(k, 4) = 6
              /\ Partner(k, 5) = 5 /\ Partner(k, 6) = 4 /\ Partner(k, 7) = 3 /\ Partner(k, 8) = 2 /\ Partner(k, 9) = 1
          BY <3>3 DEF Partner
        <4>2. t[1] = t[9] /\ t[2] = t[8] /\ t[3] = t[7] /\ t[4] = t[6]
          BY <3>2, <4>1 DEF Limbs
        <4>3. /\ s[0] = t[0] /\ s[1] = 2 * t[1] /\ s[2] = 2 * t[2] /\ s[3] = 2 * t[3] /\ s[4] = 2 * t[4]
              /\ s[5] = t[5] /\ s[6] = 0 /\ s[7] = 0 /\ s[8] = 0 /\ s[9] = 0
          BY <3>1, <4>1 DEF Limbs
        <4>4. QED
          BY <3>2, <4>2, <4>3 DEF SumLimbs, Limbs
      <3>4. CASE k = 1
        BY <3>1, <3>2, <3>4 DEF SumLimbs, Limbs, Partner
      <3>5. CASE k = 2
        BY <3>1, <3>2, <3>5 DEF SumLimbs, Limbs, Partner
      <3>6. CASE k = 3
        BY <3>1, <3>2, <3>6 DEF SumLimbs, Limbs, Partner
      <3>7. CASE k = 4
        BY <3>1, <3>2, <3>7 DEF SumLimbs, Limbs, Partner
      <3>8. CASE k = 5
        BY <3>1, <3>2, <3>8 DEF SumLimbs, Limbs, Partner
      <3>9. CASE k = 6
        BY <3>1, <3>2, <3>9 DEF SumLimbs, Limbs, Partner
      <3>10. CASE k = 7
        BY <3>1, <3>2, <3>10 DEF SumLimbs, Limbs, Partner
      <3>11. CASE k = 8
        BY <3>1, <3>2, <3>11 DEF SumLimbs, Limbs, Partner
      <3>12. CASE k = 9
        BY <3>1, <3>2, <3>12 DEF SumLimbs, Limbs, Partner
      <3>13. QED
        BY <3>3, <3>4, <3>5, <3>6, <3>7, <3>8, <3>9, <3>10, <3>11, <3>12 DEF Limbs
    <2>5. QED
      BY <2>1, <2>3, <2>4
  <1>2. QED
    BY <1>1 DEF SqProducts, MulProducts

\* fe_sq is fe_mul of an operand with itself, and fe_sq2 is twice that.
THEOREM SqCorrect ==
  ASSUME NEW f \in Elements, Operand(f)
  PROVE  /\ fe_sq(f) = fe_mul(f, f)
         /\ Reduced25519(fe_sq2(f)) /\ Congruent(2 * (Value(f) * Value(f)), Value(fe_sq2(f)))
  <1> DEFINE h == MulProducts(f, f)
             twice == [k \in Limbs |-> 2 * h[k]]
  <1>1. fe_sq(f) = fe_mul(f, f) /\ fe_sq2(f) = ProductCarries(twice)
    BY SqProductsAreProducts DEF fe_sq, fe_mul, fe_sq2
  <1>2. h \in Elements /\ twice \in Elements /\ Within(twice, ProductBounds)
    BY MulProductsValue, MulProductsBound
  <1>3. Value(twice) = 2 * Value(h)
    <2> HIDE DEF h
    <2>1. QED
      BY <1>2, ValueScale
  <1> HIDE DEF twice
  <1>4. Reduced25519(fe_sq2(f)) /\ Congruent(Value(twice), Value(fe_sq2(f)))
    BY <1>1, <1>2, ProductCarriesEffect DEF Reduced25519
  <1>5. Congruent(2 * (Value(f) * Value(f)), Value(twice))
    <2>1. PICK k \in Int : Value(f) * Value(f) = Value(h) + k * Prime
      BY ProductsCongruent DEF Congruent
    <2>2. Value(h) \in Int /\ k * Prime \in Int /\ 2 * k \in Int /\ (2 * k) * Prime = 2 * (k * Prime)
      BY <1>2, ValueType, PowerFacts, Regroup
    <2>3. 2 * (Value(f) * Value(f)) = Value(twice) + (2 * k) * Prime
      BY <1>3, <2>1, <2>2
    <2>4. QED
      BY <2>2, <2>3 DEF Congruent
  <1>6. 2 * (Value(f) * Value(f)) \in Int /\ Value(twice) \in Int /\ Value(fe_sq2(f)) \in Int
    BY <1>2, <1>4, ValueType, Regroup DEF Reduced25519
  <1>7. QED
    BY <1>1, <1>4, <1>5, <1>6, CongruentTransitive

\* fe_mul121666 multiplies by its constant, whatever the limbs.
THEOREM ScaleCorrect ==
  ASSUME NEW f \in Elements
  PROVE  fe_mul121666(f) \in Elements /\ Congruent(121666 * Value(f), Value(fe_mul121666(f)))
  <1> DEFINE h == [i \in Limbs |-> 121666 * f[i]]
  <1>1. h \in Elements /\ Value(h) = 121666 * Value(f)
    BY ValueScale
  <1> HIDE DEF h
  <1>2. LoadCarries(h) \in Elements /\ Congruent(Value(h), Value(LoadCarries(h)))
    BY <1>1, LoadCarriesEffect
  <1>3. QED
    BY <1>1, <1>2 DEF fe_mul121666, h

\* The bounds close in ge.c.  There a product is added to or subtracted from products,
\* two or three at a time (ge_p2_dbl, ge_add), and the sums are multiplied again: no
\* chain of its calls leaves the bound of fe_mul, although sums of three exceed the
\* bound that the comments of fe_add and fe_sub give for their arguments.  The code's
\* limbs are far above both sizes named here; for them the first part is the 1.01 of
\* fe_mul's comment.
THEOREM SumsAreOperands ==
  ASSUME OddRadix >= 24000,
         NEW a, NEW b, NEW c, Reduced25519(a), Reduced25519(b), Reduced25519(c)
  PROVE  /\ OddRadix >= 240000 => \A i \in Limbs : 100 * a[i] \in -(101 * Half(i)) .. 101 * Half(i)
         /\ Operand(a) /\ Operand(fe_add(a, b)) /\ Operand(fe_sub(a, b))
         /\ Operand(fe_add(fe_add(a, b), c)) /\ Operand(fe_sub(fe_add(a, b), c))
         /\ Operand(fe_sub(c, fe_add(a, b))) /\ Operand(fe_sub(c, fe_sub(a, b)))
         /\ Operand(fe_add(a, fe_1)) /\ Operand(fe_sub(a, fe_1))
  <1>1. ASSUME NEW i \in Limbs, NEW f \in {a, b, c}
        PROVE  f[i] \in Int /\ -(Half(i) + 1200) <= f[i] /\ f[i] <= Half(i) + 1200
    BY <1>1, RadixType DEF Reduced25519, Elements
  <1>2. ASSUME NEW i \in Limbs
        PROVE  LimbRadix(i) \in Nat /\ LimbRadix(i) >= OddRadix /\ LimbRadix(i) = 2 * Half(i) /\ Half(i) \in Nat
    BY <1>2, RadixType, Sizes DEF LimbRadix
  <1>3. ASSUME NEW i \in Limbs, NEW x \in Int, -(3 * (Half(i) + 1200)) <= x, x <= 3 * (Half(i) + 1200)
        PROVE  100 * x \in -(165 * LimbRadix(i)) .. 165 * LimbRadix(i)
    BY <1>2, <1>3, Sizes
  <1>4. OddRadix >= 240000 => \A i \in Limbs : 100 * a[i] \in -(101 * Half(i)) .. 101 * Half(i)
    BY <1>1, <1>2, Sizes
  <1>5. /\ Operand(a) /\ Operand(fe_add(a, b)) /\ Operand(fe_sub(a, b))
    BY <1>1, <1>2, <1>3 DEF Operand, fe_add, fe_sub
  <1>6. /\ Operand(fe_add(fe_add(a, b), c)) /\ Operand(fe_sub(fe_add(a, b), c))
    BY <1>1, <1>2, <1>3 DEF Operand, fe_add, fe_sub
  <1>7. /\ Operand(fe_sub(c, fe_add(a, b))) /\ Operand(fe_sub(c, fe_sub(a, b)))
    BY <1>1, <1>2, <1>3 DEF Operand, fe_add, fe_sub
  <1>8. /\ Operand(fe_add(a, fe_1)) /\ Operand(fe_sub(a, fe_1))
    BY <1>1, <1>2, <1>3 DEF Operand, fe_add, fe_sub, fe_1
  <1>9. QED
    BY <1>4, <1>5, <1>6, <1>7, <1>8

\* The masked difference of two limbs, xored in, selects one of them.
THEOREM SelectCorrect ==
  ASSUME NEW word, NEW f \in [Limbs -> SUBSET word], NEW g \in [Limbs -> SUBSET word], NEW b \in {0, 1}
  PROVE  /\ fe_cmov(f, g, b, word) = IF b = 1 THEN g ELSE f
         /\ fe_cswap(f, g, b, word) = IF b = 1 THEN <<g, f>> ELSE <<f, g>>
  <1>1. ASSUME NEW x \in SUBSET word, NEW y \in SUBSET word
        PROVE  Xor(x, MaskedDifference(x, y, b, word)) = IF b = 1 THEN y ELSE x
    BY DEF Xor, MaskedDifference
  <1>2. ASSUME NEW x \in SUBSET word, NEW y \in SUBSET word
        PROVE  Xor(y, MaskedDifference(x, y, b, word)) = IF b = 1 THEN x ELSE y
    BY DEF Xor, MaskedDifference
  <1>3. fe_cmov(f, g, b, word) = IF b = 1 THEN g ELSE f
    BY <1>1 DEF fe_cmov
  <1>4. [i \in Limbs |-> Xor(g[i], MaskedDifference(f[i], g[i], b, word))] = IF b = 1 THEN f ELSE g
    BY <1>2
  <1>5. QED
    BY <1>3, <1>4 DEF fe_cswap

(***************************************************************************)
(* Residues                                                                *)
(***************************************************************************)
LEMMA CheckType == Check \in Nat /\ Check > 0
  BY CheckAssumption

LEMMA ModType ==
  ASSUME NEW m \in Nat, m > 0, NEW a \in Int
  PROVE  a \div m \in Int /\ a % m \in 0 .. m - 1 /\ a = (m * (a \div m)) + (a % m)
  OBVIOUS

LEMMA ModUnique ==
  ASSUME NEW m \in Nat, m > 0, NEW a \in Int, NEW k \in Int, NEW r \in 0 .. m - 1, a = m * k + r
  PROVE  a % m = r
  OBVIOUS

LEMMA ModShift ==
  ASSUME NEW m \in Nat, m > 0, NEW a \in Int, NEW b \in Int, NEW k \in Int, a = b + k * m
  PROVE  a % m = b % m
  <1> DEFINE q == b \div m
             r == b % m
  <1>1. q \in Int /\ r \in 0 .. m - 1 /\ b = m * q + r
    BY ModType
  <1> HIDE DEF q, r
  <1>2. a = m * (q + k) + r
    BY <1>1
  <1>3. q + k \in Int
    BY <1>1
  <1>4. a % m = r
    BY <1>1, <1>2, <1>3, ModUnique
  <1>5. QED
    BY <1>4 DEF r

LEMMA ModHorner ==
  ASSUME NEW m \in Nat, m > 0, NEW x \in Int, NEW r \in Int, NEW y \in Int
  PROVE  ((x % m) * r + y) % m = (x * r + y) % m
  <1> DEFINE q == x \div m
             s == x % m
  <1>1. q \in Int /\ s \in Int /\ x = m * q + s
    BY ModType
  <1> HIDE DEF q, s
  <1>2. (m * q + s) * r = (q * r) * m + s * r /\ q * r \in Int /\ s * r \in Int /\ x * r \in Int
    BY <1>1
  <1>3. x * r + y = (s * r + y) + (q * r) * m
    <2> DEFINE a == s * r
               b == q * r
    <2>1. x * r = b * m + a /\ a \in Int /\ b \in Int /\ b * m \in Int
      BY <1>1, <1>2
    <2> HIDE DEF a, b
    <2>2. x * r + y = (a + y) + b * m
      BY <2>1
    <2>3. QED
      BY <2>2 DEF a, b
  <1>4. (x * r + y) % m = (s * r + y) % m
    <2>1. x * r + y \in Int /\ s * r + y \in Int /\ q * r \in Int
      BY <1>2
    <2>2. QED
      BY <1>3, <2>1, ModShift
  <1>5. QED
    BY <1>4 DEF s

LEMMA ResidueIsMod ==
  ASSUME NEW h \in Elements
  PROVE  Residue(h) = Value(h) % Check
  <1> DEFINE m == Check
             v9 == h[9]
             v8 == v9 * LimbRadix(8) + h[8]
             v7 == v8 * LimbRadix(7) + h[7]
             v6 == v7 * LimbRadix(6) + h[6]
             v5 == v6 * LimbRadix(5) + h[5]
             v4 == v5 * LimbRadix(4) + h[4]
             v3 == v4 * LimbRadix(3) + h[3]
             v2 == v3 * LimbRadix(2) + h[2]
             v1 == v2 * LimbRadix(1) + h[1]
             v0 == v1 * LimbRadix(0) + h[0]
             down(r, i) == (r * LimbRadix(i) + h[i]) % m
  <1>1. \A i \in Limbs : h[i] \in Int /\ LimbRadix(i) \in Int /\ Weight(i) \in Int
    BY RadixType, WeightType DEF Elements
  <1>2. ASSUME NEW v \in Int, NEW i \in Limbs
        PROVE  down(v % m, i) = (v * LimbRadix(i) + h[i]) % m /\ v * LimbRadix(i) + h[i] \in Int
    <2> DEFINE r == LimbRadix(i)
               y == h[i]
    <2>1. r \in Int /\ y \in Int /\ m \in Nat /\ m > 0
      BY <1>1, CheckType
    <2> HIDE DEF r, y, m
    <2>2. ((v % m) * r + y) % m = (v * r + y) % m
      BY <2>1, ModHorner
    <2>3. v * r + y \in Int
      BY <2>1
    <2>4. QED
      BY <2>2, <2>3 DEF r, y
  <1>3. ASSUME NEW v \in Int, NEW i \in 0 .. 8
        PROVE  (v * LimbRadix(i) + h[i]) * Weight(i) = v * Weight(i + 1) + h[i] * Weight(i)
    <2>1. i \in Limbs /\ Weight(i + 1) = Weight(i) * LimbRadix(i)
      BY WeightStep DEF Limbs
    <2>2. \A a, r, b, w \in Int : (a * r + b) * w = a * (w * r) + b * w
      OBVIOUS
    <2>3. QED
      BY <1>1, <2>1, <2>2
  <1>4. v9 \in Int /\ v9 * Weight(9) = h[9] * Weight(9)
    BY <1>1 DEF Limbs
  <1> HIDE DEF v9
  <1>5. v8 \in Int /\ down(v9 % m, 8) = v8 % m /\ v8 * Weight(8) = v9 * Weight(9) + h[8] * Weight(8)
    BY <1>2, <1>3, <1>4 DEF Limbs
  <1> HIDE DEF v8
  <1>6. v7 \in Int /\ down(v8 % m, 7) = v7 % m /\ v7 * Weight(7) = v8 * Weight(8) + h[7] * Weight(7)
    BY <1>2, <1>3, <1>5 DEF Limbs
  <1> HIDE DEF v7
  <1>7. v6 \in Int /\ down(v7 % m, 6) = v6 % m /\ v6 * Weight(6) = v7 * Weight(7) + h[6] * Weight(6)
    BY <1>2, <1>3, <1>6 DEF Limbs
  <1> HIDE DEF v6
  <1>8. v5 \in Int /\ down(v6 % m, 5) = v5 % m /\ v5 * Weight(5) = v6 * Weight(6) + h[5] * Weight(5)
    BY <1>2, <1>3, <1>7 DEF Limbs
  <1> HIDE DEF v5
  <1>9. v4 \in Int /\ down(v5 % m, 4) = v4 % m /\ v4 * Weight(4) = v5 * Weight(5) + h[4] * Weight(4)
    BY <1>2, <1>3, <1>8 DEF Limbs
  <1> HIDE DEF v4
  <1>10. v3 \in Int /\ down(v4 % m, 3) = v3 % m /\ v3 * Weight(3) = v4 * Weight(4) + h[3] * Weight(3)
    BY <1>2, <1>3, <1>9 DEF Limbs
  <1> HIDE DEF v3
  <1>11. v2 \in Int /\ down(v3 % m, 2) = v2 % m /\ v2 * Weight(2) = v3 * Weight(3) + h[2] * Weight(2)
    BY <1>2, <1>3, <1>10 DEF Limbs
  <1> HIDE DEF v2
  <1>12. v1 \in Int /\ down(v2 % m, 1) = v1 % m /\ v1 * Weight(1) = v2 * Weight(2) + h[1] * Weight(1)
    BY <1>2, <1>3, <1>11 DEF Limbs
  <1> HIDE DEF v1
  <1>13. v0 \in Int /\ down(v1 % m, 0) = v0 % m /\ v0 * Weight(0) = v1 * Weight(1) + h[0] * Weight(0)
    BY <1>2, <1>3, <1>12 DEF Limbs
  <1> HIDE DEF v0
  <1>14. Residue(h) = down(down(down(down(down(down(down(down(down(v9 % m, 8), 7), 6), 5), 4), 3), 2), 1), 0)
    BY DEF Residue, v9
  <1> HIDE DEF down
  <1>15. Residue(h) = v0 % m
    BY <1>5, <1>6, <1>7, <1>8, <1>9, <1>10, <1>11, <1>12, <1>13, <1>14
  <1>16. v0 = Value(h)
    <2> DEFINE x == [i \in Limbs |-> h[i] * Weight(i)]
    <2>1. \A i \in Limbs : x[i] = h[i] * Weight(i) /\ x[i] \in Int
      BY <1>1, Regroup
    <2>2. Value(h) = SumLimbs(x)
      BY DEF Value
    <2> HIDE DEF x
    <2>3. /\ v9 * Weight(9) = x[9] /\ v8 * Weight(8) = v9 * Weight(9) + x[8] /\ v7 * Weight(7) = v8 * Weight(8) + x[7]
          /\ v6 * Weight(6) = v7 * Weight(7) + x[6] /\ v5 * Weight(5) = v6 * Weight(6) + x[5]
          /\ v4 * Weight(4) = v5 * Weight(5) + x[4] /\ v3 * Weight(3) = v4 * Weight(4) + x[3]
          /\ v2 * Weight(2) = v3 * Weight(3) + x[2] /\ v1 * Weight(1) = v2 * Weight(2) + x[1]
          /\ v0 * Weight(0) = v1 * Weight(1) + x[0]
      BY <1>4, <1>5, <1>6, <1>7, <1>8, <1>9, <1>10, <1>11, <1>12, <1>13, <2>1 DEF Limbs
    <2>4. v0 * Weight(0) = v0
      BY <1>13, Weights
    <2>5. v0 = x[0] + x[1] + x[2] + x[3] + x[4] + x[5] + x[6] + x[7] + x[8] + x[9]
      BY <2>1, <2>3, <2>4 DEF Limbs
    <2>6. QED
      BY <2>2, <2>5 DEF SumLimbs
  <1>17. QED
    BY <1>15, <1>16

\* The limbs of the modulus.
LEMMA ModulusValue == Modulus(1) \in Elements /\ Value(Modulus(1)) = Prime
  <1> DEFINE h == Modulus(1)
  <1>1. /\ h[0] = -19 /\ h[9] = OddRadix /\ \A i \in 1 .. 8 : h[i] = 0
        /\ h \in Elements
    BY Sizes DEF Modulus, Limbs, Elements
  <1>2. Value(h) = Prime
    <2> DEFINE x == [i \in Limbs |-> h[i] * Weight(i)]
    <2>1. x[0] = -19
      BY <1>1, Weights DEF Limbs
    <2>2. x[9] = Prime + 19
      <3>1. LimbRadix(9) = OddRadix /\ Weight(9) \in Int /\ OddRadix \in Int
        BY WeightType, Sizes DEF LimbRadix, Limbs
      <3>2. x[9] = OddRadix * Weight(9)
        BY <1>1 DEF Limbs
      <3>3. QED
        BY <3>1, <3>2, WeightStep, Regroup
    <2>3. \A i \in 1 .. 8 : x[i] = 0
      <3>1. \A i \in 1 .. 8 : i \in Limbs /\ 0 * Weight(i) = 0
        BY WeightType DEF Limbs
      <3>2. QED
        BY <1>1, <3>1
    <2>4. Value(h) = SumLimbs(x)
      BY DEF Value
    <2> HIDE DEF x, h
    <2>5. QED
      BY <2>1, <2>2, <2>3, <2>4, PowerFacts DEF SumLimbs
  <1>3. QED
    BY <1>1, <1>2

\* The modulus is a multiple of Check.
LEMMA PrimeMultiple == \E p \in Int : Prime = p * Check
  <1> DEFINE h == Modulus(1)
  <1>1. h \in Elements /\ Value(h) = Prime
    BY ModulusValue
  <1> HIDE DEF h
  <1>2. Prime % Check = 0
    BY <1>1, ResidueIsMod, CheckAssumption DEF h
  <1>3. Prime = (Prime \div Check) * Check /\ Prime \div Check \in Int
    <2> DEFINE q == Prime \div Check
    <2>1. q \in Int /\ Prime = (Check * q) + (Prime % Check)
      BY PowerFacts, CheckType, ModType
    <2> HIDE DEF q
    <2>2. Prime = q * Check /\ q \in Int
      BY <1>2, <2>1, CheckType
    <2>3. QED
      BY <2>2 DEF q
  <1>4. QED
    BY <1>3

LEMMA CongruentResidue ==
  ASSUME NEW a \in Int, NEW b \in Int, Congruent(a, b)
  PROVE  a % Check = b % Check
  <1>1. PICK p \in Int : Prime = p * Check
    BY PrimeMultiple
  <1>2. PICK k \in Int : a = b + k * Prime
    BY DEF Congruent
  <1>3. k * p \in Int /\ k * Prime = (k * p) * Check
    BY <1>1, CheckType, Regroup
  <1>4. a = b + (k * p) * Check
    BY <1>2, <1>3
  <1>5. QED
    BY <1>3, <1>4, CheckType, ModShift

LEMMA ModProduct ==
  ASSUME NEW m \in Nat, m > 0, NEW a \in Int, NEW b \in Int
  PROVE  ((a % m) * (b % m)) % m = (a * b) % m
  <1>1. ASSUME NEW x \in Int, NEW y \in Int
        PROVE  ((x % m) * y) % m = (x * y) % m
    <2> DEFINE q == x \div m
               s == x % m
    <2>1. q \in Int /\ s \in Int /\ x = m * q + s
      BY ModType
    <2> HIDE DEF q, s
    <2>2. x * y = s * y + (q * y) * m /\ x * y \in Int /\ s * y \in Int /\ q * y \in Int
      BY <2>1
    <2>3. (x * y) % m = (s * y) % m
      BY <2>2, ModShift
    <2>4. QED
      BY <2>3 DEF s
  <1> DEFINE s == a % m
             t == b % m
  <1>2. s \in Int /\ t \in Int
    BY ModType
  <1>3. (s * t) % m = (a * t) % m /\ (t * a) % m = (b * a) % m
    BY <1>1, <1>2
  <1> HIDE DEF s, t
  <1>4. a * t = t * a /\ a * b = b * a
    BY <1>2, Regroup
  <1>5. QED
    BY <1>3, <1>4 DEF s, t

LEMMA ModDifference ==
  ASSUME NEW m \in Nat, m > 0, NEW a \in Int, NEW b \in Int
  PROVE  ((a % m) - (b % m)) % m = (a - b) % m
  <1> DEFINE q == a \div m
             s == a % m
             k == b \div m
             t == b % m
  <1>1. q \in Int /\ s \in Int /\ a = (m * q) + s /\ k \in Int /\ t \in Int /\ b = (m * k) + t
    BY ModType
  <1> HIDE DEF q, s, k, t
  <1>2. a - b = (s - t) + (q - k) * m
    BY <1>1
  <1>3. s - t \in Int /\ q - k \in Int /\ a - b \in Int
    BY <1>1
  <1> DEFINE x == a - b
             y == s - t
             z == q - k
  <1>4. x \in Int /\ y \in Int /\ z \in Int /\ x = y + z * m
    BY <1>2, <1>3
  <1> HIDE DEF x, y, z
  <1>5. x % m = y % m
    BY <1>4, ModShift
  <1>6. QED
    BY <1>5 DEF x, y, s, t
=============================================================================
