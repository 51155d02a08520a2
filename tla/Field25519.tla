----------------------------- MODULE Field25519 -----------------------------
(***************************************************************************)
(* Arithmetic modulo 2^255 - 19 as src/common/ed25519/fe.c does it: a      *)
(* field element is ten signed limbs of alternating width (26 and 25 bits  *)
(* in the code), products are folded with the factor 19 and carried only   *)
(* partially, and fe_tobytes alone produces the canonical representative.  *)
(*                                                                         *)
(* EvenRadix and OddRadix are the sizes of the limbs, 2^26 and 2^25 in the *)
(* code.  The carries, the order they are taken in, and the factors of     *)
(* every product are those of the code; the sizes are a parameter so that  *)
(* the numbers fit TLC's integers.  The modulus is then                    *)
(* (EvenRadix * OddRadix)^5 - 19, and Check a divisor of it, modulo which  *)
(* values are compared.                                                    *)
(*                                                                         *)
(* Byte layout and addition chains do not depend on the widths chosen and  *)
(* are modelled at full size: the former as the map from bit positions to  *)
(* bit positions, the latter as exponents written in binary.               *)
(***************************************************************************)
EXTENDS Integers, Sequences, FiniteSets, SequencesExt

CONSTANTS EvenRadix, OddRadix, Check

Limbs == 0 .. 9

LimbRadix(i) == IF i % 2 = 0 THEN EvenRadix ELSE OddRadix
Half(i) == LimbRadix(i) \div 2

SumLimbs(t) == t[0] + t[1] + t[2] + t[3] + t[4] + t[5] + t[6] + t[7] + t[8] + t[9]

\* The residue of a field element modulo Check, from the top limb down.
Residue(h) ==
  LET down(r, i) == (r * LimbRadix(i) + h[i]) % Check
  IN  down(down(down(down(down(down(down(down(down(h[9] % Check, 8), 7), 6), 5), 4), 3), 2), 1), 0)

\* n times the modulus.
Modulus(n) == [i \in Limbs |-> CASE i = 0 -> -19 * n [] i = 9 -> n * OddRadix [] OTHER -> 0]

\* Two odd limbs span one bit more than two positions of even ones; a limb is
\* wide enough for the factors 2 and 19 of a product.
ASSUME RadixAssumption ==
  /\ OddRadix \in Nat /\ OddRadix >= 128 /\ OddRadix % 2 = 0
  /\ EvenRadix = 2 * OddRadix

ASSUME CheckAssumption == Check \in Nat \ {0} /\ Residue(Modulus(1)) = 0

(***************************************************************************)
(* Carries                                                                 *)
(***************************************************************************)
\* Move c units of limb i into the limb above it; the top one wraps with 19.
MoveCarry(h, i, c) ==
  [j \in Limbs |->
     CASE j = i           -> h[j] - c * LimbRadix(i)
       [] j = i + 1       -> h[j] + c
       [] i = 9 /\ j = 0  -> h[j] + 19 * c
       [] OTHER           -> h[j]]

\* carry = (h + 2^(w-1)) >> w: the limb ends in -2^(w-1) .. 2^(w-1) - 1.
RoundCarry(h, i) == MoveCarry(h, i, (h[i] + Half(i)) \div LimbRadix(i))

\* The order of the carries after a product, and of those after a load.
ProductCarries(h) ==
  LET a == RoundCarry(RoundCarry(h, 0), 4)
      b == RoundCarry(RoundCarry(a, 1), 5)
      c == RoundCarry(RoundCarry(b, 2), 6)
      d == RoundCarry(RoundCarry(c, 3), 7)
      e == RoundCarry(RoundCarry(d, 4), 8)
  IN  RoundCarry(RoundCarry(e, 9), 0)

LoadCarries(h) ==
  LET odd == RoundCarry(RoundCarry(RoundCarry(RoundCarry(RoundCarry(h, 9), 1), 3), 5), 7)
  IN  RoundCarry(RoundCarry(RoundCarry(RoundCarry(RoundCarry(odd, 0), 2), 4), 6), 8)

(***************************************************************************)
(* The operations                                                          *)
(***************************************************************************)
fe_0 == [i \in Limbs |-> 0]
fe_1 == [i \in Limbs |-> IF i = 0 THEN 1 ELSE 0]
fe_add(f, g) == [i \in Limbs |-> f[i] + g[i]]
fe_sub(f, g) == [i \in Limbs |-> f[i] - g[i]]
fe_neg(f) == [i \in Limbs |-> -f[i]]

\* fe_cmov and fe_cswap work on the bits of the limbs (a limb is the set of its
\* bits, of which `word` are all): the difference is masked with -b and xored in.
Xor(x, y) == (x \ y) \cup (y \ x)
MaskedDifference(x, y, b, word) == Xor(x, y) \cap (IF b = 1 THEN word ELSE {})

fe_cmov(f, g, b, word) == [i \in Limbs |-> Xor(f[i], MaskedDifference(f[i], g[i], b, word))]

fe_cswap(f, g, b, word) ==
  << fe_cmov(f, g, b, word),
     [i \in Limbs |-> Xor(g[i], MaskedDifference(f[i], g[i], b, word))] >>

\* The limb that limb i is multiplied with for limb k of a product.
Partner(k, i) == IF i <= k THEN k - i ELSE k + 10 - i

\* The weights of two odd limbs multiply to twice the weight of their place.
OddFactor(i, j) == IF i % 2 = 1 /\ j % 2 = 1 THEN 2 ELSE 1
WrapFactor(i, j) == IF i + j > 9 THEN 19 ELSE 1

\* The doubling of two odd limbs is forgotten.
MulProductsNoDouble(f, g) ==
  [k \in Limbs |->
     SumLimbs([i \in Limbs |-> LET j == Partner(k, i)
                               IN  f[i] * g[j] * WrapFactor(i, j)])]

MulProducts(f, g) ==
  [k \in Limbs |->
     SumLimbs([i \in Limbs |-> LET j == Partner(k, i)
                               IN  f[i] * g[j] * OddFactor(i, j) * WrapFactor(i, j)])]

fe_mul(f, g) == ProductCarries(MulProducts(f, g))

\* Each pair of limbs is multiplied once, and doubled unless it is a square.
SqProducts(f) ==
  [k \in Limbs |->
     SumLimbs([i \in Limbs |->
       LET j == Partner(k, i)
       IN  CASE i < j -> 2 * f[i] * f[j] * OddFactor(i, j) * WrapFactor(i, j)
             [] i = j -> f[i] * f[i] * OddFactor(i, i) * WrapFactor(i, i)
             [] i > j -> 0])]

fe_sq(f)  == ProductCarries(SqProducts(f))
fe_sq2(f) == ProductCarries([k \in Limbs |-> 2 * SqProducts(f)[k]])
fe_mul121666(f) == LoadCarries([i \in Limbs |-> 121666 * f[i]])

(***************************************************************************)
(* fe_tobytes, up to the bytes: the quotient by the modulus is estimated   *)
(* from the top limb and pushed through all of them, 19 times it is added, *)
(* and the limbs are carried into 0 .. 2^w - 1, dropping the last carry.   *)
(***************************************************************************)
PushThrough(h, first) ==
  LET up(q, i) == (h[i] + q) \div LimbRadix(i)
  IN  up(up(up(up(up(up(up(up(up(up(first, 0), 1), 2), 3), 4), 5), 6), 7), 8), 9)

\* The estimate leaves out the top limb: values from the modulus up stay as they are.
QuotientTruncated(h) == PushThrough(h, 0)

Quotient(h) == PushThrough(h, (19 * h[9] + Half(9)) \div LimbRadix(9))

\* Move c units of limb i into the limb above it; the top one's are dropped.
PassCarry(h, i, c) ==
  [j \in Limbs |->
     CASE j = i     -> h[j] - c * LimbRadix(i)
       [] j = i + 1 -> h[j] + c
       [] OTHER     -> h[j]]

\* carry = h >> w: the limb ends in 0 .. 2^w - 1.
FloorCarry(h, i) == PassCarry(h, i, h[i] \div LimbRadix(i))

Canonical(h) ==
  LET low == FloorCarry(FloorCarry(FloorCarry(FloorCarry(FloorCarry(
                 [h EXCEPT ![0] = @ + 19 * Quotient(h)], 0), 1), 2), 3), 4)
  IN  FloorCarry(FloorCarry(FloorCarry(FloorCarry(FloorCarry(low, 5), 6), 7), 8), 9)

fe_isnegative(h) == Canonical(h)[0] % 2
fe_isnonzero(h)  == \E i \in Limbs : Canonical(h)[i] # 0

(***************************************************************************)
(* Byte layout, with the widths of the code.  A value is the set of its    *)
(* bits; a bit of a limb is a pair <<limb, bit>>, of a byte string the     *)
(* number 8 * byte + bit.                                                  *)
(***************************************************************************)
LimbOffset == <<0, 26, 51, 77, 102, 128, 153, 179, 204, 230>>

\* fe_frombytes: where each limb is loaded from, how many bits, and its shift.
LoadTable ==
  << [byte |-> 0,  bits |-> 32, shift |-> 0], [byte |-> 4,  bits |-> 24, shift |-> 6],
     [byte |-> 7,  bits |-> 24, shift |-> 5], [byte |-> 10, bits |-> 24, shift |-> 3],
     [byte |-> 13, bits |-> 24, shift |-> 2], [byte |-> 16, bits |-> 32, shift |-> 0],
     [byte |-> 20, bits |-> 24, shift |-> 7], [byte |-> 23, bits |-> 24, shift |-> 5],
     [byte |-> 26, bits |-> 24, shift |-> 4], [byte |-> 29, bits |-> 23, shift |-> 2] >>

\* The top bit of the last byte, the sign of an encoded point, is not masked off.
LoadBitsUnmasked(s) ==
  UNION {{<<k - 1, b - 8 * LoadTable[k].byte + LoadTable[k].shift>> :
            b \in {b \in s : b - 8 * LoadTable[k].byte \in 0 .. 8 * ((LoadTable[k].bits + 7) \div 8) - 1}} :
         k \in 1 .. 10}

LoadBits(s) ==
  UNION {{<<k - 1, b - 8 * LoadTable[k].byte + LoadTable[k].shift>> :
            b \in {b \in s : b - 8 * LoadTable[k].byte \in 0 .. LoadTable[k].bits - 1}} :
         k \in 1 .. 10}

\* fe_tobytes: byte k holds the limbs named, each shifted right by the number
\* given (left, when it is negative).
StoreTable ==
  << <<<<0, 0>>>>, <<<<0, 8>>>>, <<<<0, 16>>>>, <<<<0, 24>>, <<1, -2>>>>,
     <<<<1, 6>>>>, <<<<1, 14>>>>, <<<<1, 22>>, <<2, -3>>>>,
     <<<<2, 5>>>>, <<<<2, 13>>>>, <<<<2, 21>>, <<3, -5>>>>,
     <<<<3, 3>>>>, <<<<3, 11>>>>, <<<<3, 19>>, <<4, -6>>>>,
     <<<<4, 2>>>>, <<<<4, 10>>>>, <<<<4, 18>>>>,
     <<<<5, 0>>>>, <<<<5, 8>>>>, <<<<5, 16>>>>, <<<<5, 24>>, <<6, -1>>>>,
     <<<<6, 7>>>>, <<<<6, 15>>>>, <<<<6, 23>>, <<7, -3>>>>,
     <<<<7, 5>>>>, <<<<7, 13>>>>, <<<<7, 21>>, <<8, -4>>>>,
     <<<<8, 4>>>>, <<<<8, 12>>>>, <<<<8, 20>>, <<9, -6>>>>,
     <<<<9, 2>>>>, <<<<9, 10>>>>, <<<<9, 18>>>> >>

\* The bytes the limb bits of `bits` are stored in by a table of that form.
StoreBits(table, bits) ==
  UNION {UNION {{8 * (k - 1) + x[2] - table[k][n][2] :
                   x \in {x \in bits : /\ x[1] = table[k][n][1]
                                       /\ x[2] - table[k][n][2] \in 0 .. 7}} :
                n \in DOMAIN table[k]} :
         k \in DOMAIN table}

(***************************************************************************)
(* Addition chains.  z^e is the set of bits of e: squaring n times shifts  *)
(* it, a product of powers adds the exponents.                             *)
(***************************************************************************)
Squared(e, n) == {b + n : b \in e}

\* Binary addition by sets: the bits in both are carried until there is none.
Times(e, f) ==
  LET carried[n \in Nat] ==
        IF n = 0 THEN [sum |-> e, carry |-> f]
        ELSE LET x == carried[n - 1]
             IN  [sum   |-> (x.sum \cup x.carry) \ (x.sum \cap x.carry),
                  carry |-> Squared(x.sum \cap x.carry, 1)]
  IN  carried[Cardinality(e \cup f) + 1].sum

\* A chain is a list of steps on the registers: dst = src^(2^n), or dst = a * b.
Sq(dst, src, n) == [dst |-> dst, left |-> src, right |-> "none", n |-> n]
Mul(dst, a, b)  == [dst |-> dst, left |-> a, right |-> b, n |-> 0]

ChainStep(reg, step) ==
  [reg EXCEPT ![step.dst] = IF step.right = "none"
                              THEN Squared(reg[step.left], step.n)
                              ELSE Times(reg[step.left], reg[step.right])]

Exponent(chain) ==
  FoldLeft(ChainStep, [z |-> {0}, t0 |-> {}, t1 |-> {}, t2 |-> {}, t3 |-> {}, out |-> {}],
           chain).out

InvertSteps ==
  << Sq("t0", "z", 1), Sq("t1", "t0", 2), Mul("t1", "z", "t1"), Mul("t0", "t0", "t1"),
     Sq("t2", "t0", 1), Mul("t1", "t1", "t2"), Sq("t2", "t1", 5), Mul("t1", "t2", "t1"),
     Sq("t2", "t1", 10), Mul("t2", "t2", "t1"), Sq("t3", "t2", 20), Mul("t2", "t3", "t2"),
     Sq("t2", "t2", 10), Mul("t1", "t2", "t1"), Sq("t2", "t1", 50), Mul("t2", "t2", "t1"),
     Sq("t3", "t2", 100), Mul("t2", "t3", "t2"), Sq("t2", "t2", 50), Mul("t1", "t2", "t1"),
     Sq("t1", "t1", 5), Mul("out", "t1", "t0") >>

\* z^11 is squared in place, as fe_pow22523 does, and then lost to the last step.
InvertInPlace == [InvertSteps EXCEPT ![5] = Sq("t0", "t0", 1), ![6] = Mul("t1", "t1", "t0")]

fe_invert == InvertSteps

fe_pow22523 ==
  << Sq("t0", "z", 1), Sq("t1", "t0", 2), Mul("t1", "z", "t1"), Mul("t0", "t0", "t1"),
     Sq("t0", "t0", 1), Mul("t0", "t1", "t0"), Sq("t1", "t0", 5), Mul("t0", "t1", "t0"),
     Sq("t1", "t0", 10), Mul("t1", "t1", "t0"), Sq("t2", "t1", 20), Mul("t1", "t2", "t1"),
     Sq("t1", "t1", 10), Mul("t0", "t1", "t0"), Sq("t1", "t0", 50), Mul("t1", "t1", "t0"),
     Sq("t2", "t1", 100), Mul("t1", "t2", "t1"), Sq("t1", "t1", 50), Mul("t0", "t1", "t0"),
     Sq("t0", "t0", 2), Mul("out", "t0", "z") >>
=============================================================================
