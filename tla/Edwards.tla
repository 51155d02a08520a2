------------------------------ MODULE Edwards ------------------------------
(***************************************************************************)
(* The group of src/common/ed25519/ge.c: points of the curve               *)
(*   -x^2 + y^2 = 1 + d x^2 y^2                                            *)
(* in the representations ge_p2 (x = X/Z, y = Y/Z), ge_p3 (with T = XY/Z), *)
(* ge_p1p1 (x = X/Z, y = Y/T), ge_cached and ge_precomp, and the scalar    *)
(* multiplications, keys and signatures built on them (keypair.c, sign.c). *)
(*                                                                         *)
(* The field is GF(P) for any prime P = 5 mod 8 (the code's is 2^255-19;   *)
(* the module Field25519 is about its arithmetic), with D not a square,    *)
(* and Digits is the number of radix-16 digits of a scalar (the code: 64). *)
(***************************************************************************)
EXTENDS Integers, Sequences, FiniteSets, SequencesExt

CONSTANTS P, D, Base, BaseOrder, Digits

Fe == 0 .. P - 1

Power(x, n) == LET power[k \in Nat] == IF k = 0 THEN 1 ELSE (x * power[k - 1]) % P IN power[n]

\* fe_invert and fe_pow22523, by their exponents; see Field25519.
Inverse25519(x) == Power(x, P - 2)
Pow22523(x) == Power(x, (P - 5) \div 8)
SqrtM1 == Power(2, (P - 1) \div 4)
IsNegative(x) == x % 2

(***************************************************************************)
(* The reference: affine points and their addition law.                    *)
(***************************************************************************)
OnCurve(x, y) == (y * y - x * x - 1 - D * ((x * x % P) * (y * y % P))) % P = 0

Points == {q \in Fe \X Fe : OnCurve(q[1], q[2])}

AffineAdd(p, q) ==
  LET k == (D * (((p[1] * q[1]) % P) * ((p[2] * q[2]) % P))) % P
  IN  << ((p[1] * q[2] + p[2] * q[1]) * Inverse25519((1 + k) % P)) % P,
         ((p[2] * q[2] + p[1] * q[1]) * Inverse25519((1 - k) % P)) % P >>

AffineNeg(p) == <<(-p[1]) % P, p[2]>>

AffineMul(n, p) ==
  LET multiple[k \in Nat] == IF k = 0 THEN <<0, 1>> ELSE AffineAdd(p, multiple[k - 1]) IN multiple[n]

(***************************************************************************)
(* Representations                                                         *)
(***************************************************************************)
\* Every field value is reduced after each operation.
Mod(r) == [c \in DOMAIN r |-> r[c] % P]

ge_p2_0 == [X |-> 0, Y |-> 1, Z |-> 1]
ge_p3_0 == [X |-> 0, Y |-> 1, Z |-> 1, T |-> 0]

\* The ge_p3 of an affine point, with denominator z.
Extended(q, z) == Mod([X |-> q[1] * z, Y |-> q[2] * z, Z |-> z, T |-> ((q[1] * q[2]) % P) * z])

Affine(r) == <<(r.X * Inverse25519(r.Z)) % P, (r.Y * Inverse25519(r.Z)) % P>>

ge_p1p1_to_p2(r) == Mod([X |-> r.X * r.T, Y |-> r.Y * r.Z, Z |-> r.Z * r.T])

ge_p1p1_to_p3(r) == Mod([X |-> r.X * r.T, Y |-> r.Y * r.Z, Z |-> r.Z * r.T, T |-> r.X * r.Y])

ge_p3_to_p2(r) == [X |-> r.X, Y |-> r.Y, Z |-> r.Z]

ge_p3_to_cached(r) ==
  Mod([YplusX |-> r.Y + r.X, YminusX |-> r.Y - r.X, Z |-> r.Z, T2d |-> r.T * (2 * D)])

\* A ge_precomp of the tables base and Bi: the multiple n of the base point.
Precomp(n) ==
  LET q == AffineMul(n % BaseOrder, Base)
  IN  Mod([yplusx |-> q[2] + q[1], yminusx |-> q[2] - q[1], xy2d |-> ((q[1] * q[2]) % P) * (2 * D)])

(***************************************************************************)
(* Addition and doubling: in completed coordinates the sum of p and q is   *)
(* ((a-b : 2zz' + c), (a+b : 2zz' - c)).                                   *)
(***************************************************************************)
Completed(a, b, c, zz) == Mod([X |-> a - b, Y |-> a + b, Z |-> zz + c, T |-> zz - c])

ge_add(p, q) ==
  Completed((p.Y + p.X) * q.YplusX, (p.Y - p.X) * q.YminusX, q.T2d * p.T, 2 * p.Z * q.Z)

ge_sub(p, q) ==
  Completed((p.Y + p.X) * q.YminusX, (p.Y - p.X) * q.YplusX, -(q.T2d * p.T), 2 * p.Z * q.Z)

ge_madd(p, q) ==
  Completed((p.Y + p.X) * q.yplusx, (p.Y - p.X) * q.yminusx, q.xy2d * p.T, 2 * p.Z)

\* The sign of the last term is not changed along with the coordinates.
MsubSameSign(p, q) ==
  Completed((p.Y + p.X) * q.yminusx, (p.Y - p.X) * q.yplusx, q.xy2d * p.T, 2 * p.Z)

ge_msub(p, q) ==
  Completed((p.Y + p.X) * q.yminusx, (p.Y - p.X) * q.yplusx, -(q.xy2d * p.T), 2 * p.Z)

ge_p2_dbl(p) ==
  LET xx == p.X * p.X
      yy == p.Y * p.Y
      s  == p.X + p.Y
  IN  Mod([X |-> s * s - (yy + xx), Y |-> yy + xx, Z |-> yy - xx, T |-> 2 * p.Z * p.Z - (yy - xx)])

ge_p3_dbl(p) == ge_p2_dbl(ge_p3_to_p2(p))

(***************************************************************************)
(* Encoding: y with the parity of x on top, and the decoding that also     *)
(* negates, which takes a square root of u / v by one exponentiation and   *)
(* refuses when neither it nor its product with sqrt(-1) is one.           *)
(***************************************************************************)
ge_p3_tobytes(r) == LET q == Affine(r) IN [y |-> q[2], sign |-> IsNegative(q[1])]

\* What the code returns when no x goes with a y.
Refused == -1

DecodedX(y) ==
  LET u == (y * y - 1) % P
      v == (D * (y * y % P) + 1) % P
      v3 == (v * v % P) * v % P
      v7 == ((v3 * v3 % P) * v) % P
      x0 == (((u * v3) % P) * Pow22523((u * v7) % P)) % P
      vxx == (v * (x0 * x0 % P)) % P
  IN  IF vxx = u THEN x0
      ELSE IF (vxx + u) % P = 0 THEN (x0 * SqrtM1) % P
      ELSE Refused

\* The sign test of a decoder that does not negate.
SignedXPlain(x, sign) == IF IsNegative(x) # sign THEN (-x) % P ELSE x

SignedX(x, sign) == IF IsNegative(x) = sign THEN (-x) % P ELSE x

ge_frombytes_negate_vartime(s) ==
  LET x == DecodedX(s.y)
  IN  IF x = Refused THEN [ok |-> FALSE, h |-> ge_p3_0]
      ELSE [ok |-> TRUE, h |-> Extended(<<SignedX(x, s.sign), s.y>>, 1)]

(***************************************************************************)
(* Multiplication by the base point: signed radix-16 digits in -8 .. 8,    *)
(* the odd ones first, then four doublings, then the even ones; the table  *)
(* holds 1 .. 8 times 256^i times the base point.                          *)
(***************************************************************************)
DigitCarry(e, i) ==
  LET c == (e[i] + 8) \div 16
  IN  [e EXCEPT ![i] = @ - 16 * c, ![i + 1] = @ + c]

\* The carry out of a digit is taken at 16, not at 8: the table has no entry for it.
SignedDigitsLate(a) == [i \in 0 .. Digits - 1 |-> (a \div 16^i) % 16]

SignedDigits(a) ==
  FoldLeft(DigitCarry, [i \in 0 .. Digits - 1 |-> (a \div 16^i) % 16], [n \in 1 .. Digits - 1 |-> n - 1])

NegPrecomp(t) == [yplusx |-> t.yminusx, yminusx |-> t.yplusx, xy2d |-> (-t.xy2d) % P]

\* base[pos][n - 1]
BaseTable == [pos \in 0 .. (Digits \div 2) - 1 |-> [n \in 1 .. 8 |-> Precomp(n * 256^pos)]]

\* select: the entry for |b|, or the neutral one for 0, negated when b is negative.
SelectEntry(pos, b) ==
  LET babs == IF b < 0 THEN -b ELSE b
      t    == IF babs \in 1 .. 8 THEN BaseTable[pos][babs]
              ELSE [yplusx |-> 1, yminusx |-> 1, xy2d |-> 0]
  IN  IF b < 0 THEN NegPrecomp(t) ELSE t

AddDigits(h, e, indices) ==
  FoldLeft(LAMBDA acc, i : ge_p1p1_to_p3(ge_madd(acc, SelectEntry(i \div 2, e[i]))), h, indices)

TimesSixteen(h) ==
  LET twice(s) == ge_p1p1_to_p2(ge_p2_dbl(s))
  IN  ge_p1p1_to_p3(ge_p2_dbl(twice(twice(ge_p1p1_to_p2(ge_p3_dbl(h))))))

ge_scalarmult_base(a) ==
  LET e == SignedDigits(a)
      odd == [n \in 1 .. Digits \div 2 |-> 2 * n - 1]
      even == [n \in 1 .. Digits \div 2 |-> 2 * n - 2]
  IN  AddDigits(TimesSixteen(AddDigits(ge_p3_0, e, odd)), e, even)

(***************************************************************************)
(* a * A + b * B by sliding windows: slide recodes a scalar into odd       *)
(* digits in -15 .. 15, by taking in the bits above a set bit, or by       *)
(* subtracting them and carrying into the first clear bit above.           *)
(***************************************************************************)
SlideBits == 4 * Digits

\* The carry: the set bits from k up are cleared and the first clear one is set.
SlideCarry(r, k) ==
  LET clear == {i \in k .. SlideBits - 1 : r[i] = 0}
      first == IF clear = {} THEN SlideBits ELSE CHOOSE i \in clear : \A j \in clear : i <= j
  IN  [i \in DOMAIN r |-> IF i \in k .. first - 1 THEN 0 ELSE IF i = first THEN 1 ELSE r[i]]

\* The window of bit i grows over the six bits above it, until one is out of reach.
SlideWindow(r, i) ==
  LET widen(w, b) ==
        LET up == w.r[i + b] * 2^b
        IN  IF w.stop \/ up = 0 THEN w
            ELSE IF w.r[i] + up <= 15 THEN [w EXCEPT !.r[i] = @ + up, !.r[i + b] = 0]
            ELSE IF w.r[i] - up >= -15 THEN [w EXCEPT !.r = SlideCarry([@ EXCEPT ![i] = @ - up], i + b)]
            ELSE [w EXCEPT !.stop = TRUE]
  IN  FoldLeft(widen, [r |-> r, stop |-> FALSE],
               SelectSeq(<<1, 2, 3, 4, 5, 6>>, LAMBDA b : i + b < SlideBits)).r

slide(a) ==
  FoldLeft(LAMBDA r, i : IF r[i] = 0 THEN r ELSE SlideWindow(r, i),
           [i \in 0 .. SlideBits - 1 |-> (a \div 2^i) % 2],
           [n \in 1 .. SlideBits |-> n - 1])

\* Ai: A, 3A, .., 15A
OddMultiples(A) ==
  LET A2 == ge_p1p1_to_p3(ge_p3_dbl(A))
  IN  FoldLeft(LAMBDA t, k : Append(t, ge_p3_to_cached(ge_p1p1_to_p3(ge_add(A2, t[k])))),
               <<ge_p3_to_cached(A)>>, <<1, 2, 3, 4, 5, 6, 7>>)

\* Bi: B, 3B, .., 15B
BaseOdd == [n \in 1 .. 8 |-> Precomp(2 * n - 1)]

AddMultiple(t, digit, Ai) ==
  CASE digit > 0 -> ge_add(ge_p1p1_to_p3(t), Ai[(digit \div 2) + 1])
    [] digit < 0 -> ge_sub(ge_p1p1_to_p3(t), Ai[((-digit) \div 2) + 1])
    [] OTHER     -> t

AddBaseMultiple(t, digit) ==
  CASE digit > 0 -> ge_madd(ge_p1p1_to_p3(t), BaseOdd[(digit \div 2) + 1])
    [] digit < 0 -> ge_msub(ge_p1p1_to_p3(t), BaseOdd[((-digit) \div 2) + 1])
    [] OTHER     -> t

ge_double_scalarmult_vartime(a, A, b) ==
  LET aslide == slide(a)
      bslide == slide(b)
      Ai     == OddMultiples(A)
      used   == {i \in DOMAIN aslide : aslide[i] # 0 \/ bslide[i] # 0}
      top    == IF used = {} THEN -1 ELSE CHOOSE i \in used : \A j \in used : j <= i
      step(r, i) ==
        ge_p1p1_to_p2(AddBaseMultiple(AddMultiple(ge_p2_dbl(r), aslide[i], Ai), bslide[i]))
  IN  FoldLeft(step, ge_p2_0, [n \in 1 .. top + 1 |-> top + 1 - n])

(***************************************************************************)
(* Keys and signatures.  The hashes are what an arbitrary function could   *)
(* return: k for the secret scalar, r for the nonce, h for the challenge.  *)
(***************************************************************************)
\* private_key[0] &= 248; private_key[31] &= 63; private_key[31] |= 64
Clamp(k) == ((k % 2^(SlideBits - 2)) \div 8) * 8 + 2^(SlideBits - 2)

ed25519_create_keypair(k) ==
  [private |-> Clamp(k), public |-> ge_p3_tobytes(ge_scalarmult_base(Clamp(k)))]

ScReduce(n) == n % BaseOrder

ed25519_sign(key, r, h) ==
  [R |-> ge_p3_tobytes(ge_scalarmult_base(ScReduce(r))),
   S |-> ScReduce(ScReduce(h) * key.private + ScReduce(r))]
=============================================================================
