-------------------------- MODULE CanonicalProofs --------------------------
(***************************************************************************)
(* fe_tobytes writes the one number below the modulus that is congruent to *)
(* the limbs it is given.  It has no comparison with the modulus: it       *)
(* estimates the quotient by the modulus from the top limb, adds 19 times  *)
(* the quotient and drops what the last carry leaves.  The proof shows     *)
(* that the estimate decides the quotient exactly, for every limb within   *)
(* 1.1 of its size, the precondition of fe_tobytes.                        *)
(***************************************************************************)
EXTENDS Field25519Proofs

\* What the code's comment above fe_tobytes asks of its argument.
Convertible(h) == \A i \in Limbs : 10 * h[i] \in -(11 * LimbRadix(i)) .. 11 * LimbRadix(i)

\* The weight of a limb above the top one.
Total == Prime + 19

LEMMA FloorUnique ==
  ASSUME NEW w \in Nat, w > 0, NEW s \in Int, NEW a \in Int, NEW b \in Int,
         a * w <= s, s < a * w + w, b * w <= s, s < b * w + w
  PROVE  a = b
  <1>1. ASSUME NEW x \in Int, NEW y \in Int, x * w <= s, s < y * w + w
        PROVE  x <= y
    <2>1. ASSUME x > y PROVE FALSE
      <3>1. x - y - 1 \in Nat /\ (x - y - 1) * w \in Nat /\ (x - y - 1) * w = x * w - y * w - w
        BY <2>1
      <3>2. x * w \in Int /\ y * w \in Int
        OBVIOUS
      <3>3. QED
        BY <1>1, <3>1, <3>2
    <2>2. QED
      BY <2>1
  <1>2. a <= b /\ b <= a
    BY <1>1
  <1>3. QED
    BY <1>2

\* A factor can be told from its product with a positive number.
LEMMA FactorBounds ==
  ASSUME NEW w \in Nat, w > 0, NEW a \in Int, NEW k \in Int
  PROVE  /\ a * w < k * w => a < k
         /\ a * w \in Int /\ k * w \in Int
  <1>1. a * w \in Int /\ k * w \in Int
    OBVIOUS
  <1>2. ASSUME a >= k PROVE a * w >= k * w
    <2>1. a - k \in Nat /\ (a - k) * w \in Nat /\ (a - k) * w = a * w - k * w
      BY <1>2
    <2>2. QED
      BY <1>1, <2>1
  <1>3. QED
    BY <1>1, <1>2

(***************************************************************************)
(* PushThrough divides                                                     *)
(***************************************************************************)
\* c is s in units of w, rounded down.
Floors(c, s, w) == c \in Int /\ s \in Int /\ c * w <= s /\ s < c * w + w

LEMMA FloorStep ==
  ASSUME NEW w \in Nat, w > 0, NEW r \in Nat, r > 0, NEW c, NEW s, NEW x \in Int, Floors(c, s, w)
  PROVE  Floors((x + c) \div r, x * w + s, w * r)
  <1> DEFINE d == (x + c) \div r
             rest == (x + c) % r
  <1>1. c \in Int /\ s \in Int /\ c * w <= s /\ s < c * w + w
    BY DEF Floors
  <1>2. d \in Int /\ rest \in 0 .. r - 1 /\ x + c = (r * d) + rest
    <2>1. x + c \in Int
      BY <1>1
    <2>2. QED
      BY <2>1, ModType
  <1> HIDE DEF d, rest
  <1>3. /\ x * w \in Int /\ c * w \in Int /\ d * (w * r) \in Int /\ rest * w \in Int /\ w * r \in Int
        /\ x * w + c * w = d * (w * r) + rest * w
    <2>1. (x + c) * w = x * w + c * w
      BY <1>1
    <2>2. ((r * d) + rest) * w = d * (w * r) + rest * w
      BY <1>2
    <2>3. QED
      BY <1>1, <1>2, <2>1, <2>2, Regroup
  <1>4. rest * w >= 0 /\ rest * w + w <= w * r
    <2>1. rest \in Nat /\ r - 1 - rest \in Nat
      BY <1>2
    <2>2. rest * w \in Nat /\ (r - 1 - rest) * w \in Nat /\ (r - 1 - rest) * w = w * r - w - rest * w
      BY <1>2, <2>1
    <2>3. QED
      BY <1>3, <2>2
  <1>5. d * (w * r) <= x * w + s /\ x * w + s < d * (w * r) + w * r
    <2> DEFINE dw == d * (w * r)
               xw == x * w
               cw == c * w
               e == rest * w
               wr == w * r
    <2>1. /\ dw \in Int /\ xw \in Int /\ cw \in Int /\ e \in Int /\ wr \in Int
          /\ xw + cw = dw + e /\ e >= 0 /\ e + w <= wr /\ cw <= s /\ s < cw + w
      BY <1>1, <1>3, <1>4
    <2> HIDE DEF dw, xw, cw, e, wr
    <2>2. dw <= xw + s /\ xw + s < dw + wr
      BY <1>1, <2>1
    <2>3. QED
      BY <2>2 DEF dw, xw, wr
  <1>6. QED
    BY <1>1, <1>2, <1>3, <1>5 DEF Floors, d

LEMMA WeightPositive ==
  /\ \A i \in Limbs : Weight(i) \in Nat /\ Weight(i) > 0
  /\ \A i \in 0 .. 8 : Weight(i + 1) >= 128 * Weight(i)
  /\ Total \in Nat /\ Total >= 128 * Weight(9) /\ Total > 0
  <1>1. \A w, r \in Nat : r >= 128 => w * r >= 128 * w /\ w * r \in Nat
    <2>1. \A w, d \in Nat : w * d \in Nat /\ w * (128 + d) = 128 * w + w * d
      OBVIOUS
    <2>2. ASSUME NEW w \in Nat, NEW r \in Nat, r >= 128
          PROVE  w * r >= 128 * w /\ w * r \in Nat
      <3>1. r - 128 \in Nat /\ 128 + (r - 128) = r
        BY <2>2
      <3>2. QED
        BY <2>1, <3>1
    <2>3. QED
      BY <2>2
  <1>2. \A i \in 0 .. 8 : Weight(i + 1) >= 128 * Weight(i)
    <2>1. ASSUME NEW i \in 0 .. 8
          PROVE  Weight(i + 1) >= 128 * Weight(i)
      <3>1. i \in Limbs /\ Weight(i) \in Nat /\ LimbRadix(i) \in Nat /\ LimbRadix(i) >= 128
        BY WeightType, RadixType DEF Limbs
      <3>2. QED
        BY <1>1, <3>1, WeightStep
    <2>2. QED
      BY <2>1
  <1>3. Total \in Nat /\ Total >= 128 * Weight(9)
    <2>1. 9 \in Limbs
      BY DEF Limbs
    <2>2. Weight(9) \in Nat /\ LimbRadix(9) \in Nat /\ LimbRadix(9) >= 128 /\ Weight(9) * LimbRadix(9) = Total
      BY <2>1, WeightType, RadixType, WeightStep DEF Total
    <2>3. QED
      BY <1>1, <2>2
  <1>4. \A i \in Limbs : Weight(i) \in Nat
    BY WeightType
  <1>5. Weight(0) = 1
    BY Weights
  <1>6. /\ Weight(1) >= 128 * Weight(0) /\ Weight(2) >= 128 * Weight(1) /\ Weight(3) >= 128 * Weight(2)
        /\ Weight(4) >= 128 * Weight(3) /\ Weight(5) >= 128 * Weight(4) /\ Weight(6) >= 128 * Weight(5)
        /\ Weight(7) >= 128 * Weight(6) /\ Weight(8) >= 128 * Weight(7) /\ Weight(9) >= 128 * Weight(8)
    BY <1>2
  <1>7. \A i \in Limbs : Weight(i) > 0
    BY <1>4, <1>5, <1>6 DEF Limbs
  <1>8. Total > 0
    BY <1>3, <1>4, <1>7 DEF Limbs
  <1>9. QED
    BY <1>2, <1>3, <1>4, <1>7, <1>8

\* The limbs pushed through, first added, leave the quotient by the total weight.
LEMMA PushThroughFloors ==
  ASSUME NEW h \in Elements, NEW first \in Int
  PROVE  Floors(PushThrough(h, first), Value(h) + first, Total)
  <1> DEFINE x == [i \in Limbs |-> h[i] * Weight(i)]
             up(q, i) == (h[i] + q) \div LimbRadix(i)
             u1 == up(first, 0)
             u2 == up(u1, 1)
             u3 == up(u2, 2)
             u4 == up(u3, 3)
             u5 == up(u4, 4)
             u6 == up(u5, 5)
             u7 == up(u6, 6)
             u8 == up(u7, 7)
             u9 == up(u8, 8)
             u10 == up(u9, 9)
  <1>1. PushThrough(h, first) = u10
    BY DEF PushThrough
  <1>2. Value(h) = SumLimbs(x)
    BY DEF Value
  <1>3. \A i \in Limbs : x[i] = h[i] * Weight(i) /\ x[i] \in Int
    BY Factors, Regroup DEF Elements
  <1> HIDE DEF x
  <1>4. ASSUME NEW i \in Limbs, NEW c, NEW s, Floors(c, s, Weight(i))
        PROVE  Floors(up(c, i), x[i] + s, IF i = 9 THEN Total ELSE Weight(i + 1))
    <2>1. Weight(i) \in Nat /\ Weight(i) > 0 /\ LimbRadix(i) \in Nat /\ LimbRadix(i) > 0 /\ h[i] \in Int
      BY WeightPositive, RadixType DEF Elements
    <2>2. Floors((h[i] + c) \div LimbRadix(i), h[i] * Weight(i) + s, Weight(i) * LimbRadix(i))
      <3> DEFINE w == Weight(i)
                 r == LimbRadix(i)
                 y == h[i]
      <3>1. w \in Nat /\ w > 0 /\ r \in Nat /\ r > 0 /\ y \in Int /\ Floors(c, s, w)
        BY <1>4, <2>1
      <3> HIDE DEF w, r, y
      <3>2. Floors((y + c) \div r, y * w + s, w * r)
        BY <3>1, FloorStep
      <3>3. QED
        BY <3>2 DEF w, r, y
    <2>3. Weight(i) * LimbRadix(i) = IF i = 9 THEN Total ELSE Weight(i + 1)
      BY WeightStep DEF Total, Limbs
    <2>4. QED
      BY <1>3, <2>2, <2>3
  <1> HIDE DEF up
  <1>5. Floors(first, first, Weight(0))
    BY Weights DEF Floors
  <1>6. Floors(u1, x[0] + first, Weight(1))
    BY <1>4, <1>5 DEF Limbs
  <1> HIDE DEF u1
  <1>7. Floors(u2, x[1] + (x[0] + first), Weight(2))
    BY <1>4, <1>6 DEF Limbs
  <1> HIDE DEF u2
  <1>8. Floors(u3, x[2] + (x[1] + (x[0] + first)), Weight(3))
    BY <1>4, <1>7 DEF Limbs
  <1> HIDE DEF u3
  <1>9. Floors(u4, x[3] + (x[2] + (x[1] + (x[0] + first))), Weight(4))
    BY <1>4, <1>8 DEF Limbs
  <1> HIDE DEF u4
  <1> DEFINE s4 == x[3] + (x[2] + (x[1] + (x[0] + first)))
  <1>10. Floors(u5, x[4] + s4, Weight(5))
    BY <1>4, <1>9 DEF Limbs
  <1> HIDE DEF u5
  <1>11. Floors(u6, x[5] + (x[4] + s4), Weight(6))
    BY <1>4, <1>10 DEF Limbs
  <1> HIDE DEF u6
  <1>12. Floors(u7, x[6] + (x[5] + (x[4] + s4)), Weight(7))
    BY <1>4, <1>11 DEF Limbs
  <1> HIDE DEF u7
  <1>13. Floors(u8, x[7] + (x[6] + (x[5] + (x[4] + s4))), Weight(8))
    BY <1>4, <1>12 DEF Limbs
  <1> HIDE DEF u8
  <1>14. Floors(u9, x[8] + (x[7] + (x[6] + (x[5] + (x[4] + s4)))), Weight(9))
    BY <1>4, <1>13 DEF Limbs
  <1> HIDE DEF u9
  <1>15. Floors(u10, x[9] + (x[8] + (x[7] + (x[6] + (x[5] + (x[4] + s4))))), Total)
    BY <1>4, <1>14 DEF Limbs
  <1> HIDE DEF u10
  <1>16. x[9] + (x[8] + (x[7] + (x[6] + (x[5] + (x[4] + s4))))) = Value(h) + first
    BY <1>2, <1>3 DEF SumLimbs, Limbs
  <1>17. QED
    BY <1>1, <1>15, <1>16

(***************************************************************************)
(* The estimate of the quotient                                            *)
(***************************************************************************)
\* What the limbs below the top one can add, and what the top one can.
LEMMA Parts ==
  ASSUME NEW h \in Elements, Convertible(h)
  PROVE  LET top == h[9] * Weight(9)
             low == Value(h) - top
         IN  /\ top \in Int /\ low \in Int /\ Value(h) = top + low
             /\ 10 * low \in -(12 * Weight(9)) .. 12 * Weight(9)
             /\ 10 * top \in -(11 * Total) .. 11 * Total
  <1> DEFINE x == [i \in Limbs |-> h[i] * Weight(i)]
             Next(i) == IF i = 9 THEN Total ELSE Weight(i + 1)
  <1>1. \A i \in Limbs : x[i] = h[i] * Weight(i) /\ x[i] \in Int
    BY Factors, Regroup DEF Elements
  <1>2. ASSUME NEW i \in Limbs
        PROVE  10 * x[i] \in -(11 * Next(i)) .. 11 * Next(i)
    <2> DEFINE w == Weight(i)
               r == LimbRadix(i)
               y == h[i]
    <2>1. w \in Nat /\ r \in Nat /\ y \in Int /\ 10 * y \in -(11 * r) .. 11 * r
      BY WeightType, RadixType DEF Convertible, Elements
    <2>2. w * r = Next(i)
      BY WeightStep DEF Total, Limbs
    <2> HIDE DEF w, r, y
    <2>3. 10 * (y * w) \in -(11 * (w * r)) .. 11 * (w * r)
      <3>1. 11 * r - 10 * y \in Nat /\ 11 * r + 10 * y \in Nat
        BY <2>1
      <3>2. (11 * r - 10 * y) * w \in Nat /\ (11 * r + 10 * y) * w \in Nat
        BY <2>1, <3>1
      <3>3. /\ (11 * r - 10 * y) * w = 11 * (w * r) - 10 * (y * w)
            /\ (11 * r + 10 * y) * w = 11 * (w * r) + 10 * (y * w)
            /\ w * r \in Int /\ y * w \in Int
        BY <2>1
      <3>4. QED
        BY <3>2, <3>3
    <2>4. x[i] = y * w
      BY <1>1 DEF y, w
    <2>5. QED
      BY <2>2, <2>3, <2>4
  <1>3. Value(h) = SumLimbs(x)
    BY DEF Value
  <1> HIDE DEF x
  <1>4. /\ 10 * x[0] \in -(11 * Weight(1)) .. 11 * Weight(1)
        /\ 10 * x[1] \in -(11 * Weight(2)) .. 11 * Weight(2)
        /\ 10 * x[2] \in -(11 * Weight(3)) .. 11 * Weight(3)
        /\ 10 * x[3] \in -(11 * Weight(4)) .. 11 * Weight(4)
        /\ 10 * x[4] \in -(11 * Weight(5)) .. 11 * Weight(5)
        /\ 10 * x[5] \in -(11 * Weight(6)) .. 11 * Weight(6)
        /\ 10 * x[6] \in -(11 * Weight(7)) .. 11 * Weight(7)
        /\ 10 * x[7] \in -(11 * Weight(8)) .. 11 * Weight(8)
        /\ 10 * x[8] \in -(11 * Weight(9)) .. 11 * Weight(9)
        /\ 10 * x[9] \in -(11 * Total) .. 11 * Total
    BY <1>2 DEF Limbs
  <1>5. /\ Weight(2) >= 128 * Weight(1) /\ Weight(3) >= 128 * Weight(2) /\ Weight(4) >= 128 * Weight(3)
        /\ Weight(5) >= 128 * Weight(4) /\ Weight(6) >= 128 * Weight(5) /\ Weight(7) >= 128 * Weight(6)
        /\ Weight(8) >= 128 * Weight(7) /\ Weight(9) >= 128 * Weight(8)
    BY WeightPositive
  <1>6. \A i \in Limbs : Weight(i) \in Nat
    BY WeightPositive
  <1> DEFINE w1 == Weight(1)
             w2 == Weight(2)
             w3 == Weight(3)
             w4 == Weight(4)
             w5 == Weight(5)
             w6 == Weight(6)
             w7 == Weight(7)
             w8 == Weight(8)
             w9 == Weight(9)
  <1>7. w1 + w2 + w3 + w4 + w5 + w6 + w7 + w8 \in 0 .. w9 \div 64
    BY <1>5, <1>6 DEF Limbs
  <1> DEFINE low == x[0] + x[1] + x[2] + x[3] + x[4] + x[5] + x[6] + x[7] + x[8]
  <1>8. low \in Int /\ 10 * low \in -(12 * w9) .. 12 * w9
    BY <1>1, <1>4, <1>6, <1>7 DEF Limbs
  <1>9. SumLimbs(x) = low + x[9] /\ x[9] \in Int
    BY <1>1 DEF SumLimbs, Limbs
  <1> HIDE DEF low
  <1>10. x[9] = h[9] * Weight(9)
    BY <1>1 DEF Limbs
  <1>11. QED
    BY <1>3, <1>4, <1>8, <1>9, <1>10

\* The modulus and the weights are so far apart that small numbers do not matter.
LEMMA Sizable == Prime \in Nat /\ Prime = Total - 19 /\ Prime > 100000 /\ Total >= 128 * Weight(9) /\ Weight(9) \in Nat /\ Weight(9) > 1000
  <1>1. /\ Weight(1) >= 128 * Weight(0) /\ Weight(2) >= 128 * Weight(1) /\ Weight(3) >= 128 * Weight(2)
        /\ Weight(4) >= 128 * Weight(3) /\ Weight(5) >= 128 * Weight(4) /\ Weight(6) >= 128 * Weight(5)
        /\ Weight(7) >= 128 * Weight(6) /\ Weight(8) >= 128 * Weight(7) /\ Weight(9) >= 128 * Weight(8)
    BY WeightPositive
  <1>2. \A i \in Limbs : Weight(i) \in Nat /\ Weight(i) > 0
    BY WeightPositive
  <1>3. Weight(9) > 1000 /\ Weight(9) \in Nat
    BY <1>1, <1>2 DEF Limbs
  <1>4. Total \in Nat /\ Total >= 128 * Weight(9) /\ Prime = Total - 19
    BY WeightPositive, PowerFacts DEF Total
  <1>5. QED
    BY <1>3, <1>4

\* The estimate fe_tobytes starts from.
Estimate(h) == (19 * h[9] + Half(9)) \div LimbRadix(9)

\* In units of the total weight the estimate is 19 times the top limb's value, to
\* the nearest.
LEMMA EstimateRounds ==
  ASSUME NEW h \in Elements
  PROVE  LET top == h[9] * Weight(9)
             t == Estimate(h) * Total
         IN  Estimate(h) \in Int /\ t \in Int /\ 2 * t <= 38 * top + Total /\ 38 * top + Total < 2 * t + 2 * Total
  <1> DEFINE r == LimbRadix(9)
             s == Half(9)
             w == Weight(9)
             y == h[9]
             t == (19 * y + s) \div r
             rest == (19 * y + s) % r
  <1>1. r \in Nat /\ r > 0 /\ s \in Nat /\ r = 2 * s /\ w \in Nat /\ w > 0 /\ y \in Int /\ w * r = Total
    BY RadixType, WeightPositive, WeightStep DEF Limbs, Elements, Total
  <1> HIDE DEF r, s, w, y
  <1>2. t \in Int /\ rest \in 0 .. r - 1 /\ 19 * y + s = (r * t) + rest
    BY <1>1, ModType
  <1> HIDE DEF t, rest
  <1>3. /\ (19 * y + s) * w = 19 * (y * w) + s * w
        /\ ((r * t) + rest) * w = t * (w * r) + rest * w
        /\ 2 * (s * w) = w * r /\ rest * w \in Nat
    BY <1>1, <1>2
  <1>4. rest * w < w * r
    <2>1. rest \in Nat /\ r - 1 - rest \in Nat
      BY <1>1, <1>2
    <2>2. (r - 1 - rest) * w \in Nat /\ (r - 1 - rest) * w = w * r - w - rest * w
      BY <1>1, <2>1
    <2>3. w * r \in Int /\ rest * w \in Int
      BY <1>1, <1>2, Regroup
    <2>4. QED
      BY <1>1, <2>2, <2>3
  <1>5. y * w \in Int /\ s * w \in Int /\ w * r \in Int /\ t * (w * r) \in Int /\ rest * w \in Int
    BY <1>1, <1>2
  <1> DEFINE yw == y * w
             sw == s * w
             wr == w * r
             tw == t * (w * r)
             e == rest * w
  <1>6. 19 * yw + sw = tw + e /\ 2 * sw = wr /\ e >= 0 /\ e < wr
    BY <1>2, <1>3, <1>4, <1>5
  <1>7. yw \in Int /\ sw \in Int /\ wr \in Int /\ tw \in Int /\ e \in Int
    BY <1>5
  <1>8. tw = t * Total /\ wr = Total
    BY <1>1
  <1> HIDE DEF yw, sw, wr, tw, e
  <1>9. 2 * tw <= 38 * yw + wr /\ 38 * yw + wr < 2 * tw + 2 * wr
    BY <1>6, <1>7
  <1>10. Estimate(h) = t
    BY DEF Estimate, t, r, s, y
  <1>11. QED
    BY <1>2, <1>7, <1>8, <1>9, <1>10 DEF yw, w, y

\* The quotient fe_tobytes computes is the quotient by the modulus, rounded down.
LEMMA QuotientExact ==
  ASSUME NEW h \in Elements, Convertible(h)
  PROVE  Floors(Quotient(h), Value(h), Prime)
  <1> DEFINE v == Value(h)
             top == h[9] * Weight(9)
             low == v - top
             q == v \div Prime
             rho == v % Prime
             t == Estimate(h)
             u == t - 19 * q
  <1>1. /\ top \in Int /\ low \in Int /\ v = top + low
        /\ 10 * low \in -(12 * Weight(9)) .. 12 * Weight(9)
        /\ 10 * top \in -(11 * Total) .. 11 * Total
    BY Parts
  <1>2. v \in Int
    BY ValueType
  <1> HIDE DEF v, top, low
  <1>3. q \in Int /\ rho \in 0 .. Prime - 1 /\ v = (Prime * q) + rho
    <2> DEFINE m == Prime
    <2>1. m \in Nat /\ m > 0
      BY Sizable
    <2> HIDE DEF m
    <2>2. v \div m \in Int /\ v % m \in 0 .. m - 1 /\ v = (m * (v \div m)) + (v % m)
      BY <1>2, <2>1, ModType
    <2>3. QED
      BY <2>2 DEF m
  <1> HIDE DEF q, rho
  <1>4. q \in -2 .. 1
    <2>1. q * Prime \in Int /\ q * Prime = Prime * q /\ q * Prime < 2 * Prime /\ (-3) * Prime < q * Prime
      <3>1. q * Prime \in Int /\ q * Prime = Prime * q
        BY <1>3, Sizable, Regroup
      <3>2. -(12 * Total) <= 10 * v /\ 10 * v <= 12 * Total
        BY <1>1, <1>2, Sizable, WeightPositive
      <3>3. 12 * Total < 20 * Prime
        BY Sizable, WeightPositive
      <3> DEFINE p == Prime
                 n == Prime * q
                 tt == Total
      <3>4. p \in Nat /\ n \in Int /\ tt \in Nat /\ v = n + rho /\ rho \in 0 .. p - 1
        BY <1>3, <3>1, Sizable, WeightPositive
      <3> HIDE DEF p, n, tt
      <3>5. n < 2 * p /\ -(3 * p) < n
        BY <1>2, <3>2, <3>3, <3>4 DEF p, tt
      <3>6. (-3) * Prime = -(3 * Prime)
        BY Sizable
      <3>7. QED
        BY <3>1, <3>5, <3>6 DEF p, n
    <2>2. q < 2 /\ -3 < q
      BY <1>3, <2>1, Sizable, FactorBounds
    <2>3. QED
      BY <1>3, <2>2
  <1> DEFINE tw == t * Total
             qw == q * Total
             uw == u * Total
  <1>5. t \in Int /\ tw \in Int /\ 2 * tw <= 38 * top + Total /\ 38 * top + Total < 2 * tw + 2 * Total
    BY EstimateRounds DEF top
  <1> HIDE DEF t
  <1>6. u \in Int /\ uw \in Int /\ qw \in Int /\ uw = tw - 19 * qw /\ qw = Prime * q + 19 * q
    <2>1. Total \in Int /\ Prime \in Int /\ Total = Prime + 19
      BY Sizable, WeightPositive
    <2>2. (t - 19 * q) * Total = t * Total - 19 * (q * Total) /\ q * (Prime + 19) = Prime * q + 19 * q
      BY <1>3, <1>5, <2>1
    <2>3. QED
      BY <1>3, <1>5, <2>1, <2>2, Regroup
  <1>7. u \in 0 .. 19
    <2> DEFINE pq == Prime * q
    <2>1. pq \in Int
      BY <1>3, Sizable, Regroup
    <2>2. v = pq + rho /\ qw = pq + 19 * q
      BY <1>3, <1>6
    <2>3. uw \in Int /\ qw \in Int /\ uw = tw - 19 * qw
      BY <1>6
    <2> HIDE DEF tw, qw, uw, u, pq
    <2>4. 2 * uw <= 38 * rho - 722 * q - 38 * low + Total /\ 38 * rho - 722 * q - 38 * low + Total < 2 * uw + 2 * Total
      BY <1>1, <1>2, <1>3, <1>5, <2>1, <2>2, <2>3, WeightPositive
    <2>5. -(380 * low) <= 456 * Weight(9) /\ -(456 * Weight(9)) <= -(380 * low)
      BY <1>1, Sizable
    <2>6. 0 < Total - 722 * q - 38 * low /\ Total - 722 * q - 38 * low < 2 * Total
      BY <1>1, <1>4, <2>5, Sizable, WeightPositive
    <2>7. -Total < uw /\ uw < 20 * Total
      BY <1>1, <1>3, <1>4, <2>3, <2>4, <2>6, Sizable, WeightPositive
    <2>8. uw = u * Total /\ u \in Int
      BY <1>6 DEF uw
    <2>9. u < 20 /\ -1 < u
      BY <2>7, <2>8, WeightPositive, FactorBounds
    <2>10. QED
      BY <2>8, <2>9
  <1>8. Floors(Quotient(h), v + t, Total)
    BY <1>5, PushThroughFloors DEF Quotient, t, v, Estimate
  <1>9. Floors(q, v + t, Total)
    <2> DEFINE pq == Prime * q
               tt == Total
    <2>1. pq \in Int /\ v = pq + rho /\ qw = pq + 19 * q /\ rho \in 0 .. Prime - 1 /\ qw \in Int
      BY <1>3, <1>6, Sizable, Regroup
    <2>2. u = t - 19 * q
      OBVIOUS
    <2>3. tt \in Nat /\ Prime = tt - 19 /\ u \in 0 .. 19
      BY <1>7, Sizable, WeightPositive
    <2> HIDE DEF pq, qw, u, tt
    <2>4. v + t = qw + (rho + u)
      BY <1>3, <1>5, <2>1, <2>2, <2>3
    <2>5. rho + u \in 0 .. tt - 1
      BY <2>1, <2>3
    <2>6. qw <= v + t /\ v + t < qw + tt /\ v + t \in Int
      BY <1>2, <1>5, <2>1, <2>3, <2>4, <2>5
    <2>7. QED
      BY <1>3, <2>6 DEF Floors, qw, tt
  <1>10. Quotient(h) = q
    <2> DEFINE a == Quotient(h)
               w == Total
               n == v + t
    <2>1. /\ w \in Nat /\ w > 0 /\ n \in Int /\ a \in Int /\ q \in Int
          /\ a * w <= n /\ n < a * w + w /\ q * w <= n /\ n < q * w + w
      BY <1>8, <1>9, WeightPositive DEF Floors
    <2> HIDE DEF a, w, n
    <2>2. a = q
      BY <2>1, FloorUnique
    <2>3. QED
      BY <2>2 DEF a
  <1>11. Floors(q, v, Prime)
    BY <1>2, <1>3, Sizable, Regroup DEF Floors
  <1>12. QED
    BY <1>10, <1>11 DEF v

(***************************************************************************)
(* The last carries                                                        *)
(***************************************************************************)
\* The limbs below limb n are digits.
Digital(h, n) == h \in Elements /\ \A j \in Limbs : j < n => h[j] \in 0 .. LimbRadix(j) - 1

LEMMA Digit ==
  ASSUME NEW r \in Nat, r > 0, NEW y \in Int
  PROVE  y \div r \in Int /\ y - (y \div r) * r \in 0 .. r - 1 /\ (y \div r) * r \in Int
  <1> DEFINE k == y \div r
             s == y % r
  <1>1. k \in Int /\ s \in 0 .. r - 1 /\ y = (r * k) + s
    BY ModType
  <1> HIDE DEF k, s
  <1>2. k * r = r * k /\ k * r \in Int
    BY <1>1
  <1> DEFINE p == k * r
  <1>3. p \in Int /\ y = p + s
    BY <1>1, <1>2
  <1> HIDE DEF p
  <1>4. y - p \in 0 .. r - 1
    BY <1>1, <1>3
  <1>5. QED
    BY <1>1, <1>3, <1>4 DEF k, p

\* A carry out of limb i leaves a digit and takes no value.
LEMMA FloorCarryEffect ==
  ASSUME NEW i \in 0 .. 8, NEW h, Digital(h, i)
  PROVE  Digital(FloorCarry(h, i), i + 1) /\ Value(FloorCarry(h, i)) = Value(h)
  <1> DEFINE r == LimbRadix(i)
             carry == h[i] \div r
             g == PassCarry(h, i, carry)
  <1>1. i \in Limbs /\ i + 1 \in Limbs /\ i # 9 /\ h \in Elements /\ h[i] \in Int /\ r \in Nat /\ r > 0
    BY RadixType DEF Limbs, Digital, Elements
  <1>2. carry \in Int /\ h[i] - carry * r \in 0 .. r - 1
    <2> DEFINE y == h[i]
    <2>1. y \in Int
      BY <1>1
    <2> HIDE DEF r, y
    <2>2. y \div r \in Int /\ y - (y \div r) * r \in 0 .. r - 1 /\ (y \div r) * r \in Int
      BY <1>1, <2>1, Digit
    <2>3. QED
      BY <2>2 DEF y
  <1>3. g = MoveCarry(h, i, carry)
    BY <1>1 DEF PassCarry, MoveCarry
  <1>4. g \in Elements /\ Value(g) = Value(h)
    <2>1. Value(h) \in Int
      BY <1>1, ValueType
    <2> HIDE DEF carry, g
    <2>2. g \in Elements /\ Value(g) = Value(h) - 0
      BY <1>1, <1>2, <1>3, MoveCarryValue
    <2>3. QED
      BY <2>1, <2>2
  <1>5. \A j \in Limbs : j < i => g[j] = h[j]
    <2>1. ASSUME NEW j \in Limbs, j < i
          PROVE  j # i /\ j # i + 1 /\ j \in Limbs
      BY <2>1
    <2>2. QED
      BY <2>1 DEF PassCarry
  <1>6. g[i] = h[i] - carry * r
    BY <1>1 DEF PassCarry
  <1> HIDE DEF carry, g
  <1>7. ASSUME NEW j \in Limbs, j < i + 1
        PROVE  g[j] \in 0 .. LimbRadix(j) - 1
    <2>1. CASE j = i
      BY <1>2, <1>6, <2>1
    <2>2. CASE j < i
      BY <1>5, <2>2 DEF Digital
    <2>3. QED
      BY <1>7, <2>1, <2>2 DEF Limbs
  <1>8. FloorCarry(h, i) = g
    BY DEF FloorCarry, g, carry
  <1>9. QED
    BY <1>4, <1>7, <1>8 DEF Digital

\* What is carried out of the top limb is dropped.
LEMMA FloorCarryTop ==
  ASSUME NEW h, Digital(h, 9)
  PROVE  Digital(FloorCarry(h, 9), 10) /\ \E c \in Int : Value(FloorCarry(h, 9)) = Value(h) - c * Total
  <1> DEFINE r == LimbRadix(9)
             carry == h[9] \div r
             g == PassCarry(h, 9, carry)
             d == [j \in Limbs |-> IF j = 9 THEN -(carry * r) ELSE 0]
  <1>1. 9 \in Limbs /\ h \in Elements /\ h[9] \in Int /\ r \in Nat /\ r > 0
    BY RadixType DEF Limbs, Digital, Elements
  <1>2. carry \in Int /\ h[9] - carry * r \in 0 .. r - 1 /\ carry * r \in Int
    <2> DEFINE y == h[9]
    <2>1. y \in Int
      BY <1>1
    <2> HIDE DEF r, y
    <2>2. y \div r \in Int /\ y - (y \div r) * r \in 0 .. r - 1 /\ (y \div r) * r \in Int
      BY <1>1, <2>1, Digit
    <2>3. QED
      BY <2>2 DEF y
  <1> HIDE DEF carry
  <1>3. d \in Elements
    BY <1>2 DEF Elements
  <1>4. g = fe_add(h, d)
    <2>1. \A j \in Limbs : j # 10 /\ h[j] \in Int
      BY <1>1 DEF Limbs, Elements
    <2>2. \A j \in Limbs : g[j] = h[j] + d[j]
      <3>1. \A j \in Limbs : g[j] = IF j = 9 THEN h[9] - carry * r ELSE h[j]
        BY <2>1 DEF PassCarry
      <3>2. \A j \in Limbs : d[j] = IF j = 9 THEN -(carry * r) ELSE 0
        OBVIOUS
      <3> HIDE DEF d, g, r
      <3>3. QED
        BY <1>1, <1>2, <2>1, <3>1, <3>2
    <2>3. g = [j \in Limbs |-> g[j]]
      BY DEF PassCarry
    <2> HIDE DEF g, d
    <2>4. QED
      BY <2>2, <2>3 DEF fe_add
  <1>5. Value(d) = -(carry * Total)
    <2> DEFINE t == [j \in Limbs |-> d[j] * Weight(j)]
    <2>1. \A j \in 0 .. 8 : t[j] = 0
      <3>1. \A j \in 0 .. 8 : j \in Limbs /\ j # 9 /\ 0 * Weight(j) = 0
        BY WeightType DEF Limbs
      <3>2. QED
        BY <3>1
    <2>2. t[9] = -(carry * Total)
      <3>1. t[9] = (-(carry * r)) * Weight(9)
        BY <1>1
      <3>2. Weight(9) \in Int /\ Weight(9) * r = Total
        BY WeightType, WeightStep DEF Limbs, Total
      <3> HIDE DEF r, t
      <3>3. (-(carry * r)) * Weight(9) = -(carry * (Weight(9) * r))
        BY <1>1, <1>2, <3>2
      <3>4. QED
        BY <3>1, <3>2, <3>3
    <2>3. Value(d) = SumLimbs(t)
      BY DEF Value
    <2>4. carry * Total \in Int
      BY <1>2, WeightPositive, Regroup
    <2> HIDE DEF t, d
    <2>5. QED
      BY <2>1, <2>2, <2>3, <2>4 DEF SumLimbs
  <1>6. g \in Elements /\ Value(g) = Value(h) - carry * Total
    <2> HIDE DEF g, d
    <2>1. g \in Elements /\ Value(g) = Value(h) + Value(d)
      BY <1>1, <1>3, <1>4, ValueAdd
    <2>2. carry * Total \in Int /\ Value(h) \in Int
      BY <1>1, <1>2, WeightPositive, ValueType, Regroup
    <2>3. QED
      BY <1>5, <2>1, <2>2
  <1>7. ASSUME NEW j \in Limbs
        PROVE  g[j] \in 0 .. LimbRadix(j) - 1
    <2>1. CASE j = 9
      BY <1>2, <2>1 DEF PassCarry
    <2>2. CASE j # 9
      <3>1. j < 9 /\ j # 10
        BY <2>2 DEF Limbs
      <3>2. g[j] = h[j]
        BY <2>2, <3>1 DEF PassCarry
      <3>3. QED
        BY <3>1, <3>2 DEF Digital
    <2>3. QED
      BY <2>1, <2>2
  <1>8. FloorCarry(h, 9) = g
    BY DEF FloorCarry, carry
  <1> HIDE DEF g
  <1>9. QED
    BY <1>2, <1>6, <1>7, <1>8 DEF Digital

\* Ten digits stand for a number below the total weight; and below the modulus,
\* unless all but the lowest are the greatest digit and it is one of the last 19.
LEMMA DigitalRange ==
  ASSUME NEW h, Digital(h, 10)
  PROVE  /\ Value(h) \in 0 .. Total - 1
         /\ (\A i \in Limbs : h[i] >= LimbRadix(i) - (IF i = 0 THEN 19 ELSE 1)) => Value(h) >= Prime
  <1> DEFINE x == [i \in Limbs |-> h[i] * Weight(i)]
             Next(i) == IF i = 9 THEN Total ELSE Weight(i + 1)
  <1>1. h \in Elements /\ \A i \in Limbs : h[i] \in 0 .. LimbRadix(i) - 1
    BY DEF Digital, Limbs
  <1>2. \A i \in Limbs : x[i] = h[i] * Weight(i) /\ x[i] \in Int
    BY <1>1, Factors, Regroup DEF Elements
  <1>3. ASSUME NEW i \in Limbs
        PROVE  /\ 0 <= x[i] /\ x[i] <= Next(i) - Weight(i)
               /\ \A k \in {1, 19} : h[i] >= LimbRadix(i) - k => x[i] >= Next(i) - k * Weight(i)
    <2> DEFINE w == Weight(i)
               r == LimbRadix(i)
               y == h[i]
    <2>1. w \in Nat /\ r \in Nat /\ y \in Nat /\ r - 1 - y \in Nat
      BY <1>1, WeightType, RadixType
    <2>2. w * r = Next(i) /\ x[i] = y * w
      BY <1>2, WeightStep DEF Total, Limbs
    <2> HIDE DEF w, r, y
    <2>3. y * w \in Nat /\ (r - 1 - y) * w \in Nat /\ (r - 1 - y) * w = w * r - w - y * w /\ w * r \in Nat
      BY <2>1
    <2>4. ASSUME NEW k \in {1, 19}, y >= r - k
          PROVE  y * w >= w * r - k * w
      <3>1. y - r + k \in Nat /\ (y - r + k) * w \in Nat /\ (y - r + k) * w = y * w - w * r + k * w /\ k * w \in Nat
        BY <2>1, <2>4
      <3>2. QED
        BY <2>3, <3>1
    <2>5. 0 <= y * w /\ y * w <= w * r - w
      BY <2>1, <2>3
    <2>6. /\ 0 <= x[i] /\ x[i] <= Next(i) - w
          /\ \A k \in {1, 19} : y >= r - k => x[i] >= Next(i) - k * w
      BY <2>2, <2>4, <2>5
    <2>7. QED
      BY <2>6 DEF w, r, y
  <1>4. Value(h) = SumLimbs(x)
    BY DEF Value
  <1> HIDE DEF x
  <1>5. /\ x[0] <= Weight(1) - Weight(0) /\ x[1] <= Weight(2) - Weight(1) /\ x[2] <= Weight(3) - Weight(2)
        /\ x[3] <= Weight(4) - Weight(3) /\ x[4] <= Weight(5) - Weight(4) /\ x[5] <= Weight(6) - Weight(5)
        /\ x[6] <= Weight(7) - Weight(6) /\ x[7] <= Weight(8) - Weight(7) /\ x[8] <= Weight(9) - Weight(8)
        /\ x[9] <= Total - Weight(9)
        /\ \A i \in Limbs : 0 <= x[i]
    BY <1>3 DEF Limbs
  <1>6. Weight(0) = 1 /\ Total \in Nat /\ Prime = Total - 19 /\ \A i \in Limbs : Weight(i) \in Nat
    BY Weights, WeightType, Sizable, WeightPositive
  <1>7. Value(h) \in 0 .. Total - 1
    BY <1>2, <1>4, <1>5, <1>6 DEF SumLimbs, Limbs
  <1>8. ASSUME \A i \in Limbs : h[i] >= LimbRadix(i) - (IF i = 0 THEN 19 ELSE 1)
        PROVE  Value(h) >= Prime
    <2>1. h[0] >= LimbRadix(0) - 19 /\ \A i \in 1 .. 9 : i \in Limbs /\ h[i] >= LimbRadix(i) - 1
      BY <1>8 DEF Limbs
    <2>2. x[0] >= Weight(1) - 19
      BY <1>3, <1>6, <2>1 DEF Limbs
    <2>3. ASSUME NEW i \in 1 .. 9
          PROVE  x[i] >= Next(i) - Weight(i)
      <3>1. x[i] >= Next(i) - 1 * Weight(i)
        BY <1>3, <2>1
      <3>2. 1 * Weight(i) = Weight(i)
        BY <1>6, <2>1
      <3>3. QED
        BY <3>1, <3>2
    <2>4. /\ x[1] >= Weight(2) - Weight(1) /\ x[2] >= Weight(3) - Weight(2) /\ x[3] >= Weight(4) - Weight(3)
          /\ x[4] >= Weight(5) - Weight(4) /\ x[5] >= Weight(6) - Weight(5) /\ x[6] >= Weight(7) - Weight(6)
          /\ x[7] >= Weight(8) - Weight(7) /\ x[8] >= Weight(9) - Weight(8) /\ x[9] >= Total - Weight(9)
      BY <2>3
    <2>5. QED
      BY <1>2, <1>4, <1>6, <2>2, <2>4 DEF SumLimbs, Limbs
  <1>9. QED
    BY <1>7, <1>8

\* Canonical adds 19 quotients and drops a multiple of the total weight.
LEMMA CanonicalEffect ==
  ASSUME NEW h \in Elements, Quotient(h) \in Int
  PROVE  /\ Digital(Canonical(h), 10)
         /\ \E c \in Int : Value(Canonical(h)) = Value(h) + 19 * Quotient(h) - c * Total
  <1> DEFINE n == 19 * Quotient(h)
             d == [i \in Limbs |-> IF i = 0 THEN n ELSE 0]
             a == [h EXCEPT ![0] = @ + n]
             c0 == FloorCarry(a, 0)
             c1 == FloorCarry(c0, 1)
             c2 == FloorCarry(c1, 2)
             c3 == FloorCarry(c2, 3)
             c4 == FloorCarry(c3, 4)
             c5 == FloorCarry(c4, 5)
             c6 == FloorCarry(c5, 6)
             c7 == FloorCarry(c6, 7)
             c8 == FloorCarry(c7, 8)
  <1>1. Canonical(h) = FloorCarry(c8, 9)
    BY DEF Canonical
  <1>2. n \in Int /\ n = 19 * Quotient(h)
    OBVIOUS
  <1> HIDE DEF n
  <1>3. a = fe_add(h, d) /\ d \in Elements
    <2>1. \A i \in Limbs : h[i] \in Int /\ a[i] = (IF i = 0 THEN h[0] + n ELSE h[i]) /\ d[i] = (IF i = 0 THEN n ELSE 0)
      BY DEF Elements
    <2>2. a = [i \in Limbs |-> a[i]]
      <3>1. a \in [Limbs -> Int]
        BY <1>2 DEF Elements, Limbs
      <3> HIDE DEF a
      <3>2. QED
        BY <3>1
    <2>3. d \in Elements
      BY <1>2 DEF Elements
    <2> HIDE DEF a, d
    <2>4. \A i \in Limbs : a[i] = h[i] + d[i]
      <3>1. 0 \in Limbs
        BY DEF Limbs
      <3>2. QED
        BY <1>2, <2>1, <3>1
    <2>5. [i \in Limbs |-> a[i]] = [i \in Limbs |-> h[i] + d[i]]
      BY <2>4
    <2>6. QED
      BY <2>2, <2>3, <2>5 DEF fe_add
  <1>4. Value(d) = n
    <2> DEFINE t == [j \in Limbs |-> d[j] * Weight(j)]
    <2>1. \A j \in 1 .. 9 : t[j] = 0
      <3>1. \A j \in 1 .. 9 : j \in Limbs /\ j # 0 /\ 0 * Weight(j) = 0
        BY WeightType DEF Limbs
      <3>2. QED
        BY <3>1
    <2>2. t[0] = n
      BY <1>2, Weights DEF Limbs
    <2>3. Value(d) = SumLimbs(t)
      BY DEF Value
    <2> HIDE DEF t, d
    <2>4. QED
      BY <1>2, <2>1, <2>2, <2>3 DEF SumLimbs
  <1>5. Digital(a, 0) /\ Value(a) = Value(h) + n
    <2> HIDE DEF a, d
    <2>1. a \in Elements /\ Value(a) = Value(h) + n
      BY <1>3, <1>4, ValueAdd
    <2>2. QED
      BY <2>1 DEF Digital, Limbs
  <1> HIDE DEF a, c0, c1, c2, c3, c4, c5, c6, c7, c8
  <1>6. Digital(c0, 1) /\ Value(c0) = Value(a)
    BY <1>5, FloorCarryEffect DEF c0
  <1>7. Digital(c1, 2) /\ Value(c1) = Value(a)
    BY <1>6, FloorCarryEffect DEF c1
  <1>8. Digital(c2, 3) /\ Value(c2) = Value(a)
    BY <1>7, FloorCarryEffect DEF c2
  <1>9. Digital(c3, 4) /\ Value(c3) = Value(a)
    BY <1>8, FloorCarryEffect DEF c3
  <1>10. Digital(c4, 5) /\ Value(c4) = Value(a)
    BY <1>9, FloorCarryEffect DEF c4
  <1>11. Digital(c5, 6) /\ Value(c5) = Value(a)
    BY <1>10, FloorCarryEffect DEF c5
  <1>12. Digital(c6, 7) /\ Value(c6) = Value(a)
    BY <1>11, FloorCarryEffect DEF c6
  <1>13. Digital(c7, 8) /\ Value(c7) = Value(a)
    BY <1>12, FloorCarryEffect DEF c7
  <1>14. Digital(c8, 9) /\ Value(c8) = Value(a)
    BY <1>13, FloorCarryEffect DEF c8
  <1>15. Digital(Canonical(h), 10) /\ \E c \in Int : Value(Canonical(h)) = Value(a) - c * Total
    BY <1>1, <1>14, FloorCarryTop
  <1>16. PICK c \in Int : Value(Canonical(h)) = Value(a) - c * Total
    BY <1>15
  <1>17. Value(Canonical(h)) = Value(h) + n - c * Total
    <2> DEFINE x == Value(Canonical(h))
               y == Value(a)
               z == Value(h)
               k == c * Total
    <2>1. y = z + n /\ x = y - k
      BY <1>5, <1>16
    <2>2. z \in Int /\ k \in Int
      BY ValueType, WeightPositive, Regroup
    <2> HIDE DEF x, y, z, k
    <2>3. x = z + n - k
      BY <1>2, <2>1, <2>2
    <2>4. QED
      BY <2>3 DEF x, z, k
  <1>18. Value(Canonical(h)) = Value(h) + 19 * Quotient(h) - c * Total
    BY <1>2, <1>17, Zenon
  <1>19. \E k \in Int : Value(Canonical(h)) = Value(h) + 19 * Quotient(h) - k * Total
    BY <1>18, Zenon
  <1>20. QED
    BY <1>15, <1>19

\* fe_tobytes: the limbs it stores are digits, and stand for the number below the
\* modulus that is congruent to what it was given.
THEOREM TobytesCorrect ==
  ASSUME NEW h \in Elements, Convertible(h)
  PROVE  LET g == Canonical(h)
         IN  /\ g \in Elements
             /\ \A i \in Limbs : g[i] \in 0 .. LimbRadix(i) - 1
             /\ \E i \in Limbs : g[i] < LimbRadix(i) - (IF i = 0 THEN 19 ELSE 1)
             /\ Value(g) \in 0 .. Prime - 1
             /\ Congruent(Value(h), Value(g))
  <1> DEFINE g == Canonical(h)
             q == Quotient(h)
             v == Value(h)
             n == Value(g)
             p == q * Prime
  <1>1. q \in Int /\ v \in Int /\ p \in Int /\ p <= v /\ v < p + Prime
    BY QuotientExact, Sizable, Regroup DEF Floors
  <1>2. Digital(g, 10) /\ \E c \in Int : n = v + 19 * q - c * Total
    BY <1>1, CanonicalEffect
  <1>3. n \in 0 .. Total - 1
    BY <1>2, DigitalRange
  <1>4. PICK c \in Int : n = v + 19 * q - c * Total
    BY <1>2
  <1>5. q * Total = p + 19 * q /\ q * Total \in Int /\ c * Total \in Int
    <2>1. \A x \in Int, y \in Nat : x * (y + 19) = x * y + 19 * x /\ x * (y + 19) \in Int
      OBVIOUS
    <2>2. Total = Prime + 19 /\ Prime \in Nat
      BY Sizable, WeightPositive
    <2>3. QED
      BY <1>1, <2>1, <2>2, WeightPositive, Regroup
  <1> HIDE DEF g, q, v, n, p
  <1>6. c = q
    <2> DEFINE w == Total
               s == v + 19 * q
    <2>1. w \in Nat /\ w > 0 /\ s \in Int /\ Prime \in Nat /\ Prime = w - 19
      BY <1>1, Sizable, WeightPositive
    <2>2. c * w <= s /\ s < c * w + w
      BY <1>1, <1>3, <1>4, <1>5, <2>1
    <2>3. q * w <= s /\ s < q * w + w
      BY <1>1, <1>5, <2>1
    <2> HIDE DEF w, s
    <2>4. QED
      BY <1>1, <2>1, <2>2, <2>3, FloorUnique
  <1>7. n = v - p
    BY <1>1, <1>4, <1>5, <1>6
  <1>8. n \in 0 .. Prime - 1
    BY <1>1, <1>7, Sizable
  <1>9. v = n + q * Prime
    BY <1>1, <1>7 DEF p
  <1>10. Congruent(v, n)
    BY <1>1, <1>9 DEF Congruent
  <1>11. \E i \in Limbs : g[i] < LimbRadix(i) - (IF i = 0 THEN 19 ELSE 1)
    <2>1. ~ (n >= Prime)
      BY <1>8, Sizable
    <2>2. ~ \A i \in Limbs : g[i] >= LimbRadix(i) - (IF i = 0 THEN 19 ELSE 1)
      BY <1>2, <2>1, DigitalRange DEF n
    <2>3. \A i \in Limbs : g[i] \in Int /\ LimbRadix(i) \in Int
      BY <1>2, RadixType DEF Digital, Elements
    <2>4. QED
      BY <2>2, <2>3
  <1>12. g \in Elements /\ \A i \in Limbs : g[i] \in 0 .. LimbRadix(i) - 1
    BY <1>2 DEF Digital, Limbs
  <1>13. QED
    BY <1>8, <1>10, <1>11, <1>12 DEF g, n, v

\* The decoder of a point (ge_frombytes_negate_vartime) converts vxx - u and vxx + u,
\* where u is a product less one: both are within the bound of fe_tobytes.
THEOREM DecodedChecksConvertible ==
  ASSUME OddRadix >= 24010, NEW a, NEW b, Reduced25519(a), Reduced25519(b)
  PROVE  /\ Convertible(a) /\ Convertible(fe_neg(a))
         /\ Convertible(fe_sub(a, fe_sub(b, fe_1))) /\ Convertible(fe_add(a, fe_sub(b, fe_1)))
  <1>1. ASSUME NEW i \in Limbs, NEW f \in {a, b}
        PROVE  f[i] \in Int /\ -(Half(i) + 1200) <= f[i] /\ f[i] <= Half(i) + 1200
    BY <1>1, RadixType DEF Reduced25519, Elements
  <1>2. ASSUME NEW i \in Limbs
        PROVE  LimbRadix(i) \in Nat /\ LimbRadix(i) >= OddRadix /\ LimbRadix(i) = 2 * Half(i) /\ Half(i) \in Nat
    BY <1>2, RadixType, Sizes DEF LimbRadix
  <1>3. ASSUME NEW i \in Limbs, NEW x \in Int, -(2 * Half(i) + 2401) <= x, x <= 2 * Half(i) + 2401
        PROVE  10 * x \in -(11 * LimbRadix(i)) .. 11 * LimbRadix(i)
    BY <1>2, <1>3, Sizes
  <1>4. Convertible(a) /\ Convertible(fe_neg(a))
    BY <1>1, <1>2, <1>3 DEF Convertible, fe_neg
  <1>5. Convertible(fe_sub(a, fe_sub(b, fe_1))) /\ Convertible(fe_add(a, fe_sub(b, fe_1)))
    BY <1>1, <1>2, <1>3 DEF Convertible, fe_add, fe_sub, fe_1
  <1>6. QED
    BY <1>4, <1>5
=============================================================================
