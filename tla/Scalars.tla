------------------------------ MODULE Scalars ------------------------------
(***************************************************************************)
(* Arithmetic modulo the order l of the base point, as                     *)
(* src/common/ed25519/sc.c does it: limbs of 21 bits, the limbs from       *)
(* number 12 up folded into the lower ones with the six signed digits of   *)
(* 2^252 modulo l, and carries in between so that nothing overflows.       *)
(*                                                                         *)
(* ScBits is the limb width and ScDigits the digits; the code's are 21 and *)
(* <<666643, 470296, 654183, -997805, 136657, -683901>>.  They are         *)
(* parameters so that the numbers fit TLC's integers.  The modulus is      *)
(* 2^(12*ScBits) minus the value of the digits, and ScCheck a divisor.     *)
(***************************************************************************)
EXTENDS Integers, Sequences, FiniteSets, SequencesExt

CONSTANTS ScBits, ScDigits, ScCheck

ScLimbs == 0 .. 23

\* The residue of a scalar modulo ScCheck, from the top limb down.
ScResidue(s) ==
  FoldLeft(LAMBDA r, i : (r * 2^ScBits + s[i]) % ScCheck, 0, [n \in 1 .. 24 |-> 24 - n])

(***************************************************************************)
(* The steps of a reduction.                                               *)
(***************************************************************************)
\* Limb i, which weighs l more than its fold, is spread over the six limbs from i - 12.
FoldLimb(s, i) ==
  [j \in ScLimbs |-> IF j = i THEN 0
                     ELSE IF j - i + 12 \in 0 .. 5 THEN s[j] + s[i] * ScDigits[j - i + 13]
                     ELSE s[j]]

MoveUp(s, i, c) == [s EXCEPT ![i] = @ - c * 2^ScBits, ![i + 1] = @ + c]
ScRound(s, i) == MoveUp(s, i, (s[i] + 2^(ScBits - 1)) \div 2^ScBits)
ScFloor(s, i) == MoveUp(s, i, s[i] \div 2^ScBits)

Downto(first, last) == [n \in 1 .. first - last + 1 |-> first + 1 - n]
Upto(first, last) == [n \in 1 .. last - first + 1 |-> first + n - 1]

EvenThenOdd(first, last) ==
  SelectSeq(Upto(first, last), LAMBDA i : i % 2 = 0)
    \o SelectSeq(Upto(first, last), LAMBDA i : i % 2 = 1)

\* One pass of floor carries is not enough: it can leave a last multiple of 2^252.
FoldLastSkipped(s) == s

FoldHigh(s) == FoldLeft(ScRound, FoldLeft(FoldLimb, s, Downto(23, 18)), EvenThenOdd(6, 16))
FoldMiddle(s) == FoldLeft(ScRound, FoldLeft(FoldLimb, s, Downto(17, 12)), EvenThenOdd(0, 11))
FoldLow(s) == FoldLeft(ScFloor, FoldLimb(s, 12), Upto(0, 11))
FoldLast(s) == FoldLeft(ScFloor, FoldLimb(s, 12), Upto(0, 10))

Reduced(s) == FoldLast(FoldLow(FoldMiddle(FoldHigh(s))))

sc_reduce(s) == Reduced(s)

(***************************************************************************)
(* sc_muladd: the 23 limbs of a * b + c, carried once so that the folds    *)
(* cannot overflow, then the same reduction.                               *)
(***************************************************************************)
MulAddProducts(a, b, c) ==
  [k \in ScLimbs |->
     FoldLeft(LAMBDA acc, i : acc + (IF k - i \in 0 .. 11 THEN a[i] * b[k - i] ELSE 0),
              IF k < 12 THEN c[k] ELSE 0, Upto(0, 11))]

MulAddCarries(s) == FoldLeft(ScRound, s, EvenThenOdd(0, 22))

sc_muladd(a, b, c) == Reduced(MulAddCarries(MulAddProducts(a, b, c)))

(***************************************************************************)
(* Byte layout, with the widths of the code: limb k is read from byte      *)
(* ScLoadTable[k+1][1] shifted right by ScLoadTable[k+1][2], through       *)
(* load_3 or load_4, and masked to 21 bits unless it is the last one.      *)
(***************************************************************************)
ScLoadTable ==
  << <<0, 0, 3>>, <<2, 5, 4>>, <<5, 2, 3>>, <<7, 7, 4>>, <<10, 4, 4>>, <<13, 1, 3>>,
     <<15, 6, 4>>, <<18, 3, 3>>, <<21, 0, 3>>, <<23, 5, 4>>, <<26, 2, 3>>, <<28, 7, 4>>,
     <<31, 4, 4>>, <<34, 1, 3>>, <<36, 6, 4>>, <<39, 3, 3>>, <<42, 0, 3>>, <<44, 5, 4>>,
     <<47, 2, 3>>, <<49, 7, 4>>, <<52, 4, 4>>, <<55, 1, 3>>, <<57, 6, 4>>, <<60, 3, 4>> >>

\* The limb bits the byte bits in `s` reach, when `n` limbs are loaded.
ScLoadBits(s, n) ==
  UNION {LET row  == ScLoadTable[k]
             most == IF k = n THEN 8 * row[3] - row[2] - 1 ELSE 20
         IN  {<<k - 1, b - 8 * row[1] - row[2]>> :
                b \in {b \in s : /\ b - 8 * row[1] \in 0 .. 8 * row[3] - 1
                                 /\ b - 8 * row[1] - row[2] \in 0 .. most}} :
         k \in 1 .. n}

\* Byte k of the result holds these limbs, shifted right (left when negative).
ScStoreTable ==
  << <<<<0, 0>>>>, <<<<0, 8>>>>, <<<<0, 16>>, <<1, -5>>>>, <<<<1, 3>>>>, <<<<1, 11>>>>,
     <<<<1, 19>>, <<2, -2>>>>, <<<<2, 6>>>>, <<<<2, 14>>, <<3, -7>>>>, <<<<3, 1>>>>,
     <<<<3, 9>>>>, <<<<3, 17>>, <<4, -4>>>>, <<<<4, 4>>>>, <<<<4, 12>>>>,
     <<<<4, 20>>, <<5, -1>>>>, <<<<5, 7>>>>, <<<<5, 15>>, <<6, -6>>>>, <<<<6, 2>>>>,
     <<<<6, 10>>>>, <<<<6, 18>>, <<7, -3>>>>, <<<<7, 5>>>>, <<<<7, 13>>>>,
     <<<<8, 0>>>>, <<<<8, 8>>>>, <<<<8, 16>>, <<9, -5>>>>, <<<<9, 3>>>>, <<<<9, 11>>>>,
     <<<<9, 19>>, <<10, -2>>>>, <<<<10, 6>>>>, <<<<10, 14>>, <<11, -7>>>>, <<<<11, 1>>>>,
     <<<<11, 9>>>>, <<<<11, 17>>>> >>
=============================================================================
