-------------------------- MODULE AlgorithmsProofs --------------------------
(***************************************************************************)
(* Properties of Algorithms that hold for every behaviour: what is proved  *)
(* of one function is carried to the calls the specification makes of it.  *)
(***************************************************************************)
EXTENDS TrapsProofs, CanonicalProofs

(***************************************************************************)
(* The calls                                                               *)
(***************************************************************************)
\* Which functions an action calls.
LEMMA Calls ==
  /\ FieldMul => call'.fn = "fe_mul"
  /\ FieldSquare => call'.fn = "fe_sq"
  /\ FieldScale => call'.fn = "fe_mul121666"
  /\ FieldToBytes => call'.fn = "fe_tobytes"
  /\ FieldSelect => call'.fn = "fe_cswap"
  /\ FieldBytes => call'.fn = "fe_frombytes"
  /\ FieldChains => call'.fn \in {"fe_invert", "fe_pow22523"}
  /\ ScalarReduce => call'.fn = "sc_reduce"
  /\ ScalarMulAdd => call'.fn = "sc_muladd"
  /\ ScalarBytes => call'.fn = "sc_load"
  /\ GroupAdd => call'.fn = "ge_add"
  /\ GroupMixedAdd => call'.fn = "ge_madd"
  /\ BaseMul => call'.fn = "ge_scalarmult_base"
  /\ DoubleMul => call'.fn = "ge_double_scalarmult_vartime"
  /\ Decode => call'.fn = "ge_frombytes_negate_vartime"
  /\ Sign => call'.fn = "ed25519_sign"
  /\ Keccak => call'.fn = "keccakf"
  /\ Hash => call'.fn = "sha3"
  /\ QueryTree => call'.fn = "init_first_hart"
  /\ FilterTree => call'.fn = "filter_dtb"
  /\ Trap => call'.fn = "trap"
  /\ MeasureEnclave => call'.fn = "measure"
  /\ Return => call'.fn = "none"
  /\ UNCHANGED call => call'.fn = call.fn
  <1>1. FieldMul => call'.fn = "fe_mul"
    BY DEF FieldMul, Did
  <1>2. FieldSquare => call'.fn = "fe_sq"
    BY DEF FieldSquare, Did
  <1>3. FieldScale => call'.fn = "fe_mul121666"
    BY DEF FieldScale, Did
  <1>4. FieldToBytes => call'.fn = "fe_tobytes"
    BY DEF FieldToBytes, Did
  <1>5. FieldSelect => call'.fn = "fe_cswap"
    BY DEF FieldSelect, Did
  <1>6. FieldBytes => call'.fn = "fe_frombytes"
    BY DEF FieldBytes, Did
  <1>7. FieldChains => call'.fn \in {"fe_invert", "fe_pow22523"}
    BY DEF FieldChains, Did
  <1>8. ScalarReduce => call'.fn = "sc_reduce"
    BY DEF ScalarReduce, Did
  <1>9. ScalarMulAdd => call'.fn = "sc_muladd"
    BY DEF ScalarMulAdd, Did
  <1>10. ScalarBytes => call'.fn = "sc_load"
    BY DEF ScalarBytes, Did
  <1>11. GroupAdd => call'.fn = "ge_add"
    BY DEF GroupAdd, Did
  <1>12. GroupMixedAdd => call'.fn = "ge_madd"
    BY DEF GroupMixedAdd, Did
  <1>13. BaseMul => call'.fn = "ge_scalarmult_base"
    BY DEF BaseMul, Did
  <1>14. DoubleMul => call'.fn = "ge_double_scalarmult_vartime"
    BY DEF DoubleMul, Did
  <1>15. Decode => call'.fn = "ge_frombytes_negate_vartime"
    BY DEF Decode, Did
  <1>16. Sign => call'.fn = "ed25519_sign"
    BY DEF Sign, Did
  <1>17. Keccak => call'.fn = "keccakf"
    BY DEF Keccak, Did
  <1>18. Hash => call'.fn = "sha3"
    BY DEF Hash, Did
  <1>19. QueryTree => call'.fn = "init_first_hart"
    BY DEF QueryTree, Did
  <1>20. FilterTree => call'.fn = "filter_dtb"
    BY DEF FilterTree, Did
  <1>21. Trap => call'.fn = "trap"
    BY DEF Trap, Did
  <1>22. MeasureEnclave => call'.fn = "measure"
    BY DEF MeasureEnclave, Did
  <1>23. Return => call'.fn = "none"
    BY DEF Return, NoCall
  <1>24. QED
    BY <1>1, <1>2, <1>3, <1>4, <1>5, <1>6, <1>7, <1>8, <1>9, <1>10, <1>11, <1>12, <1>13, <1>14, <1>15, <1>16, <1>17, <1>18, <1>19, <1>20, <1>21, <1>22, <1>23

LEMMA TrapStateType ==
  ASSUME NEW mpp \in {PrvU, PrvS}, NEW sie \in {0, 1}
  PROVE  LET m == TrapState(mpp, sie)
         IN  m \in MachineStates /\ m.mscratch = FramePtr /\ m.mepc = Mepc
  <1>1. [r \in Regs |-> r] \in [Regs -> Nat] /\ [r \in Regs |-> OldFrame] \in [Regs -> Nat]
    BY DEF Regs, OldFrame
  <1>2. QED
    BY <1>1 DEF TrapState, MachineStates, Stores, FramePtr, Mepc

\* A trap, taken from any mode by the operating system or by an enclave, ends as
\* TrapsResume says: trap.S, the frame and the C handlers keep what they owe.
THEOREM TrapsAlwaysResume == Spec => []TrapsResume
  <1>1. Init => TrapsResume
    BY DEF Init, NoCall, TrapsResume
  <1>2. TrapsResume /\ [Next]_call => TrapsResume'
    <2> SUFFICES ASSUME TrapsResume, [Next]_call
                 PROVE  TrapsResume'
      OBVIOUS
    <2>1. CASE Trap
      <3>1. PICK e \in TrapEvents, mpp \in {PrvU, PrvS}, sie \in {0, 1} :
              /\ e.interrupt => e.cause < 12
              /\ \E insn \in Instructions(e.cause, SomeRegs) :
                   Did("trap", <<e, insn, TrapState(mpp, sie)>>, HandleTrap(e, insn, TrapState(mpp, sie)))
        BY <2>1, Zenon DEF Trap
      <3>2. PICK insn \in Instructions(e.cause, SomeRegs) :
              Did("trap", <<e, insn, TrapState(mpp, sie)>>, HandleTrap(e, insn, TrapState(mpp, sie)))
        BY <3>1
      <3>3. insn \in Instructions(e.cause, Regs)
        <4>1. SomeRegs \subseteq Regs
          BY RegNumbers DEF SomeRegs
        <4>2. QED
          BY <4>1 DEF Instructions
      <3>4. Resumes(e, insn, TrapState(mpp, sie), HandleTrap(e, insn, TrapState(mpp, sie)))
        BY <3>1, <3>3, TrapStateType, TrapEnds
      <3>5. /\ call'.in[1] = e /\ call'.in[2] = insn /\ call'.in[3] = TrapState(mpp, sie)
            /\ call'.out = HandleTrap(e, insn, TrapState(mpp, sie))
        BY <3>2 DEF Did
      <3>6. QED
        BY <3>4, <3>5 DEF TrapsResume
    <2>2. CASE UNCHANGED call
      BY <2>2 DEF TrapsResume
    <2>3. CASE Next /\ ~ Trap
      <3>1. call'.fn # "trap"
        BY <2>3, Calls DEF Next
      <3>2. QED
        BY <3>1 DEF TrapsResume
    <2>4. QED
      BY <2>1, <2>2, <2>3
  <1>3. QED
    BY <1>1, <1>2, PTL DEF Spec

(***************************************************************************)
(* Field elements                                                          *)
(***************************************************************************)
\* The inputs of a product are operands: limbs within num hundredths of a limb.
LEMMA InputElements ==
  ASSUME NEW num \in Nat, NEW f \in FieldElements(num, 100)
  PROVE  f \in Elements /\ \A i \in Limbs : 100 * f[i] \in -(num * LimbRadix(i)) .. num * LimbRadix(i)
  <1> DEFINE most(i) == (num * LimbRadix(i)) \div 100
  <1>1. \A i \in Limbs : LimbRadix(i) \in Nat /\ num * LimbRadix(i) \in Nat
    BY RadixType
  <1>2. \A i \in Limbs : most(i) \in Nat /\ 100 * most(i) <= num * LimbRadix(i)
    <2>1. \A n \in Nat : n \div 100 \in Nat /\ 100 * (n \div 100) <= n
      OBVIOUS
    <2>2. QED
      BY <1>1, <2>1
  <1> HIDE DEF most
  <1>3. SUFFICES f = [j \in Limbs |-> f[j]] /\ \A i \in Limbs : f[i] \in -most(i) .. most(i)
    <2>1. \A i \in Limbs : f[i] \in Int
      <3>1. \A m \in Nat : \A x \in -m .. m : x \in Int
        OBVIOUS
      <3>2. QED
        BY <1>2, <1>3, <3>1
    <2>2. ASSUME NEW i \in Limbs
          PROVE  100 * f[i] \in -(num * LimbRadix(i)) .. num * LimbRadix(i)
      <3> DEFINE n == num * LimbRadix(i)
                 m == most(i)
                 x == f[i]
      <3>1. n \in Nat /\ m \in Nat /\ 100 * m <= n /\ x \in -m .. m
        BY <1>1, <1>2, <1>3
      <3> HIDE DEF n, m, x
      <3>2. 100 * x \in -n .. n
        BY <3>1
      <3>3. QED
        BY <3>2 DEF n, x
    <2>3. f \in Elements
      BY <1>3, <2>1 DEF Elements
    <2>4. QED
      BY <2>2, <2>3
  <1>4. CASE \E s \in [{0, 1} -> {-1, 0, 1}] : f = [i \in Limbs |-> s[i % 2] * most(i)]
    <2>1. PICK s \in [{0, 1} -> {-1, 0, 1}] : f = [i \in Limbs |-> s[i % 2] * most(i)]
      BY <1>4
    <2>2. \A i \in Limbs : s[i % 2] \in {-1, 0, 1}
      BY DEF Limbs
    <2>3. \A x \in {-1, 0, 1}, m \in Nat : x * m \in -m .. m
      OBVIOUS
    <2>4. QED
      BY <1>2, <2>1, <2>2, <2>3
  <1>5. CASE \E k \in Limbs : f = [i \in Limbs |-> IF i = k THEN most(i) ELSE 0]
    BY <1>2, <1>5
  <1>6. CASE \E n \in Seeds : f = [i \in Limbs |-> Spread(n, i, 2 * most(i) + 1) - most(i)]
    <2>1. PICK n \in Seeds : f = [i \in Limbs |-> Spread(n, i, 2 * most(i) + 1) - most(i)]
      BY <1>6
    <2>2. \A i \in Limbs : Spread(n, i, 2 * most(i) + 1) \in 0 .. 2 * most(i)
      <3>1. ASSUME NEW i \in Limbs
            PROVE  Spread(n, i, 2 * most(i) + 1) \in 0 .. 2 * most(i)
        <4> DEFINE a == n * n * 37 + n * (i + 1) * 131 + i * i * 73
                   m == 2 * most(i) + 1
        <4>1. a \in Int /\ m \in Nat /\ m > 0
          BY <1>2, SeedsAssumption DEF Limbs
        <4> HIDE DEF a, m
        <4>2. a % m \in 0 .. m - 1
          BY <4>1, ModType
        <4>3. QED
          BY <1>2, <4>2 DEF a, m, Spread
      <3>2. QED
        BY <3>1
    <2>3. QED
      BY <1>2, <2>1, <2>2
  <1>7. QED
    BY <1>4, <1>5, <1>6 DEF FieldElements, most

\* What is congruent modulo the prime has the residue the specification compares.
LEMMA ProductResidue ==
  ASSUME NEW f \in Elements, NEW g \in Elements, NEW h \in Elements, Congruent(Value(f) * Value(g), Value(h))
  PROVE  Residue(h) = (Residue(f) * Residue(g)) % Check
  <1> DEFINE a == Value(f)
             b == Value(g)
             c == Value(h)
  <1>1. a \in Int /\ b \in Int /\ c \in Int /\ a * b \in Int
    BY ValueType, Regroup
  <1>2. Residue(f) = a % Check /\ Residue(g) = b % Check /\ Residue(h) = c % Check
    BY ResidueIsMod
  <1> HIDE DEF a, b, c
  <1>3. (a * b) % Check = c % Check
    BY <1>1, CongruentResidue DEF a, b, c
  <1>4. ((a % Check) * (b % Check)) % Check = (a * b) % Check
    BY <1>1, CheckType, ModProduct
  <1>5. QED
    BY <1>2, <1>3, <1>4

LEMMA ScaledResidue ==
  ASSUME NEW k \in Nat, NEW x \in Int, NEW h \in Elements, Congruent(k * x, Value(h))
  PROVE  /\ Residue(h) = (k * (x % Check)) % Check
         /\ Residue(h) = ((k % Check) * (x % Check)) % Check
  <1> DEFINE c == Value(h)
  <1>1. c \in Int /\ k * x \in Int /\ Residue(h) = c % Check
    BY ValueType, ResidueIsMod, Regroup
  <1>2. (k * x) % Check = c % Check
    <2> DEFINE p == k * x
    <2>1. p \in Int /\ Congruent(p, c)
      BY <1>1
    <2> HIDE DEF p, c
    <2>2. p % Check = c % Check
      BY <1>1, <2>1, CongruentResidue
    <2>3. QED
      BY <2>2 DEF p
  <1> HIDE DEF c
  <1>3. ((k % Check) * (x % Check)) % Check = (k * x) % Check
    <2> DEFINE m == Check
    <2>1. m \in Nat /\ m > 0 /\ k \in Int
      BY CheckType
    <2> HIDE DEF m
    <2>2. ((k % m) * (x % m)) % m = (k * x) % m
      BY <2>1, ModProduct
    <2>3. QED
      BY <2>2 DEF m
  <1>4. (k * (x % Check)) % Check = (k * x) % Check
    <2> DEFINE q == x \div Check
               s == x % Check
    <2>1. q \in Int /\ s \in Int /\ x = Check * q + s
      BY CheckType, ModType
    <2> HIDE DEF q, s
    <2>2. k * x = k * s + (k * q) * Check /\ k * s \in Int /\ k * q \in Int
      BY <2>1, CheckType
    <2>3. (k * x) % Check = (k * s) % Check
      <3> DEFINE a == k * x
                 b == k * s
                 d == k * q
      <3>1. a \in Int /\ b \in Int /\ d \in Int /\ a = b + d * Check
        BY <1>1, <2>2
      <3> HIDE DEF a, b, d
      <3>2. a % Check = b % Check
        BY <3>1, CheckType, ModShift
      <3>3. QED
        BY <3>2 DEF a, b
    <2>4. QED
      BY <2>3 DEF s
  <1>5. QED
    BY <1>1, <1>2, <1>3, <1>4

LEMMA ReducedProduct ==
  ASSUME NEW h, Reduced25519(h)
  PROVE  h \in Elements /\ ProductReduced(h)
  BY DEF Reduced25519, ProductReduced, Slack

\* The operations of fe.c, on every input the specification calls them with, answer
\* as FieldOpsCorrect says: fe_mul, fe_sq, fe_sq2 and fe_mul121666 multiply modulo
\* the prime, products leave limbs that may be multiplied again, and fe_cmov and
\* fe_cswap select.
THEOREM FieldOpsAlwaysCorrect == Spec => []FieldOpsCorrect
  <1>1. Init => FieldOpsCorrect
    BY DEF Init, NoCall, FieldOpsCorrect
  <1>2. FieldOpsCorrect /\ [Next]_call => FieldOpsCorrect'
    <2> SUFFICES ASSUME FieldOpsCorrect, [Next]_call
                 PROVE  FieldOpsCorrect'
      OBVIOUS
    <2>1. CASE FieldMul
      <3>1. PICK f \in FieldElements(165, 100), g \in FieldElements(165, 100) :
              Did("fe_mul", <<f, g>>, fe_mul(f, g))
        BY <2>1 DEF FieldMul
      <3>2. f \in Elements /\ g \in Elements /\ Operand(f) /\ Operand(g)
        BY InputElements DEF Operand
      <3>3. Reduced25519(fe_mul(f, g)) /\ Congruent(Value(f) * Value(g), Value(fe_mul(f, g)))
        BY <3>2, MulCorrect
      <3>4. /\ Residue(fe_mul(f, g)) = (Residue(f) * Residue(g)) % Check
            /\ ProductReduced(fe_mul(f, g))
        BY <3>2, <3>3, ReducedProduct, ProductResidue
      <3>5. call' = [fn |-> "fe_mul", in |-> <<f, g>>, out |-> fe_mul(f, g)]
        BY <3>1 DEF Did
      <3>6. QED
        BY <3>4, <3>5 DEF FieldOpsCorrect
    <2>2. CASE FieldSquare
      <3>1. PICK f \in FieldElements(165, 100) :
              Did("fe_sq", f, [sq |-> fe_sq(f), sq2 |-> fe_sq2(f), mul |-> fe_mul(f, f)])
        BY <2>2 DEF FieldSquare
      <3>2. f \in Elements /\ Operand(f)
        BY InputElements DEF Operand
      <3>3. /\ fe_sq(f) = fe_mul(f, f)
            /\ Reduced25519(fe_sq2(f)) /\ Congruent(2 * (Value(f) * Value(f)), Value(fe_sq2(f)))
            /\ Reduced25519(fe_mul(f, f)) /\ Congruent(Value(f) * Value(f), Value(fe_mul(f, f)))
        BY <3>2, SqCorrect, MulCorrect
      <3>4. (Value(f) * Value(f)) % Check = Residue(fe_mul(f, f)) /\ Value(f) * Value(f) \in Int
        <4> DEFINE x == Value(f) * Value(f)
                   y == Value(fe_mul(f, f))
        <4>1. x \in Int /\ y \in Int /\ Congruent(x, y) /\ Residue(fe_mul(f, f)) = y % Check
          BY <3>2, <3>3, ReducedProduct, ResidueIsMod, ValueType, Regroup
        <4> HIDE DEF x, y
        <4>2. x % Check = y % Check
          BY <4>1, CongruentResidue
        <4>3. QED
          BY <4>1, <4>2 DEF x
      <3>5. Residue(fe_sq2(f)) = (2 * Residue(fe_mul(f, f))) % Check
        <4> DEFINE x == Value(f) * Value(f)
        <4>1. x \in Int /\ Congruent(2 * x, Value(fe_sq2(f))) /\ fe_sq2(f) \in Elements
          BY <3>3, <3>4, ReducedProduct
        <4>2. x % Check = Residue(fe_mul(f, f))
          BY <3>4
        <4> HIDE DEF x
        <4>3. QED
          BY <4>1, <4>2, ScaledResidue
      <3>6. ProductReduced(fe_sq2(f))
        BY <3>3, ReducedProduct
      <3>7. call' = [fn |-> "fe_sq", in |-> f, out |-> [sq |-> fe_sq(f), sq2 |-> fe_sq2(f), mul |-> fe_mul(f, f)]]
        BY <3>1 DEF Did
      <3>8. QED
        BY <3>3, <3>5, <3>6, <3>7 DEF FieldOpsCorrect
    <2>3. CASE FieldScale
      <3>1. PICK f \in FieldElements(110, 100) : Did("fe_mul121666", f, fe_mul121666(f))
        BY <2>3 DEF FieldScale
      <3>2. f \in Elements
        BY InputElements
      <3>3. fe_mul121666(f) \in Elements /\ Congruent(121666 * Value(f), Value(fe_mul121666(f)))
        BY <3>2, ScaleCorrect
      <3>4. Residue(fe_mul121666(f)) = ((121666 % Check) * Residue(f)) % Check
        <4> DEFINE x == Value(f)
        <4>1. x \in Int /\ Congruent(121666 * x, Value(fe_mul121666(f))) /\ x % Check = Residue(f)
          BY <3>2, <3>3, ResidueIsMod, ValueType
        <4> HIDE DEF x
        <4>2. QED
          BY <3>3, <4>1, ScaledResidue
      <3>5. call' = [fn |-> "fe_mul121666", in |-> f, out |-> fe_mul121666(f)]
        BY <3>1 DEF Did
      <3>6. QED
        BY <3>4, <3>5 DEF FieldOpsCorrect
    <2>4. CASE FieldSelect
      <3>1. PICK x \in SUBSET (0 .. 2), y \in SUBSET (0 .. 2), b \in {0, 1}, k \in Limbs :
              LET f == [i \in Limbs |-> IF i = k THEN x ELSE {0}]
                  g == [i \in Limbs |-> IF i = k THEN y ELSE {1, 2}]
              IN  Did("fe_cswap", <<f, g, b>>,
                      [cmov |-> fe_cmov(f, g, b, 0 .. 2), cswap |-> fe_cswap(f, g, b, 0 .. 2)])
        BY <2>4 DEF FieldSelect
      <3> DEFINE f == [i \in Limbs |-> IF i = k THEN x ELSE {0}]
                 g == [i \in Limbs |-> IF i = k THEN y ELSE {1, 2}]
      <3>2. f \in [Limbs -> SUBSET (0 .. 2)] /\ g \in [Limbs -> SUBSET (0 .. 2)]
        <4>1. {0} \in SUBSET (0 .. 2) /\ {1, 2} \in SUBSET (0 .. 2)
          OBVIOUS
        <4>2. QED
          BY <4>1
      <3>3. call' = [fn |-> "fe_cswap", in |-> <<f, g, b>>,
                     out |-> [cmov |-> fe_cmov(f, g, b, 0 .. 2), cswap |-> fe_cswap(f, g, b, 0 .. 2)]]
        BY <3>1 DEF Did
      <3> HIDE DEF f, g
      <3>4. /\ fe_cmov(f, g, b, 0 .. 2) = IF b = 1 THEN g ELSE f
            /\ fe_cswap(f, g, b, 0 .. 2) = IF b = 1 THEN <<g, f>> ELSE <<f, g>>
        BY <3>2, SelectCorrect
      <3>5. QED
        BY <3>3, <3>4 DEF FieldOpsCorrect
    <2>5. CASE UNCHANGED call
      BY <2>5 DEF FieldOpsCorrect
    <2>6. CASE Next /\ ~ (FieldMul \/ FieldSquare \/ FieldScale \/ FieldSelect)
      <3>1. call'.fn \notin {"fe_mul", "fe_sq", "fe_mul121666", "fe_cswap"}
        BY <2>6, Calls DEF Next
      <3>2. QED
        BY <3>1 DEF FieldOpsCorrect
    <2>7. QED
      BY <2>1, <2>2, <2>3, <2>4, <2>5, <2>6
  <1>3. QED
    BY <1>1, <1>2, PTL DEF Spec

\* The inputs of fe_tobytes that the specification builds: a difference of two
\* elements, and the modulus once more or less.
LEMMA ConvertedInputs ==
  ASSUME NEW f \in FieldElements(90, 100), NEW g \in {fe_0, fe_1, fe_neg(fe_1)}, NEW n \in {-1, 0, 1}
  PROVE  LET h == fe_add(fe_sub(f, g), Modulus(n))
         IN  /\ f \in Elements /\ g \in Elements /\ h \in Elements
             /\ Value(h) = (Value(f) - Value(g)) + n * Prime
             /\ (\A i \in Limbs : h[i] \in -((11 * LimbRadix(i)) \div 10) .. (11 * LimbRadix(i)) \div 10)
                  => Convertible(h)
  <1> DEFINE d == fe_sub(f, g)
             m == Modulus(n)
             h == fe_add(d, m)
             minus == [i \in Limbs |-> (-1) * g[i]]
  <1>1. f \in Elements
    BY InputElements
  <1>2. g \in Elements
    <2>1. fe_0 \in Elements /\ fe_1 \in Elements
      BY DEF fe_0, fe_1, Elements
    <2>2. fe_neg(fe_1) \in Elements
      BY <2>1 DEF fe_neg, Elements
    <2>3. QED
      BY <2>1, <2>2
  <1>3. m \in Elements /\ Value(m) = n * Prime
    <2>1. m = [i \in Limbs |-> n * Modulus(1)[i]]
      <3>1. ASSUME NEW i \in Limbs
            PROVE  m[i] = n * Modulus(1)[i]
        BY Sizes DEF Modulus, Limbs
      <3>2. m = [i \in Limbs |-> m[i]]
        BY DEF Modulus
      <3> HIDE DEF m
      <3>3. QED
        BY <3>1, <3>2
    <2>2. Modulus(1) \in Elements /\ Value(Modulus(1)) = Prime
      BY ModulusValue
    <2> DEFINE one == Modulus(1)
    <2> HIDE DEF m, one
    <2>3. one \in Elements /\ Value(one) = Prime /\ m = [i \in Limbs |-> n * one[i]] /\ n \in Int
      BY <2>1, <2>2 DEF one
    <2>4. QED
      BY <2>3, ValueScale
  <1>4. minus \in Elements /\ Value(minus) = (-1) * Value(g)
    <2>1. -1 \in Int
      OBVIOUS
    <2>2. QED
      BY <1>2, <2>1, ValueScale
  <1>5. d = fe_add(f, minus)
    <2>1. ASSUME NEW i \in Limbs
          PROVE  f[i] - g[i] = f[i] + (-1) * g[i]
      BY <1>1, <1>2 DEF Elements
    <2>2. QED
      BY <2>1 DEF fe_sub, fe_add
  <1> HIDE DEF d, m, minus
  <1>6. d \in Elements /\ Value(d) = Value(f) + Value(minus)
    BY <1>1, <1>4, <1>5, ValueAdd
  <1>7. h \in Elements /\ Value(h) = Value(d) + Value(m)
    BY <1>3, <1>6, ValueAdd
  <1>8. Value(h) = (Value(f) - Value(g)) + n * Prime
    <2>1. Value(f) \in Int /\ Value(g) \in Int /\ n * Prime \in Int
      BY <1>1, <1>2, ValueType, PowerFacts
    <2>2. (-1) * Value(g) = -Value(g)
      BY <2>1
    <2> DEFINE a == Value(f)
               b == Value(g)
               p == n * Prime
    <2>3. a \in Int /\ b \in Int /\ p \in Int /\ Value(minus) = -b /\ Value(d) = a + Value(minus) /\ Value(h) = Value(d) + p
      BY <1>3, <1>4, <1>6, <1>7, <2>1, <2>2
    <2> HIDE DEF a, b, p, h
    <2>4. Value(h) = (a - b) + p
      BY <2>3
    <2>5. QED
      BY <2>4 DEF a, b, p
  <1> HIDE DEF h
  <1>9. ASSUME \A i \in Limbs : h[i] \in -((11 * LimbRadix(i)) \div 10) .. (11 * LimbRadix(i)) \div 10
        PROVE  Convertible(h)
    <2>1. \A r \in Nat : \A x \in -((11 * r) \div 10) .. (11 * r) \div 10 : 10 * x \in -(11 * r) .. 11 * r
      OBVIOUS
    <2>2. QED
      BY <1>9, <2>1, RadixType DEF Convertible
  <1>10. QED
    BY <1>1, <1>2, <1>7, <1>8, <1>9 DEF h, d, m

\* fe_tobytes, on every input the specification calls it with, answers as
\* FieldCanonical says: it writes the one representative below the modulus, and
\* fe_isnegative and fe_isnonzero speak of that one.
THEOREM FieldAlwaysCanonical == Spec => []FieldCanonical
  <1>1. Init => FieldCanonical
    BY DEF Init, NoCall, FieldCanonical
  <1>2. FieldCanonical /\ [Next]_call => FieldCanonical'
    <2> SUFFICES ASSUME FieldCanonical, [Next]_call
                 PROVE  FieldCanonical'
      OBVIOUS
    <2>1. CASE FieldToBytes
      <3>1. PICK f \in FieldElements(90, 100), g \in {fe_0, fe_1, fe_neg(fe_1)}, n \in {-1, 0, 1} :
              LET h == fe_add(fe_sub(f, g), Modulus(n))
              IN  /\ \A i \in Limbs : h[i] \in -((11 * LimbRadix(i)) \div 10) .. (11 * LimbRadix(i)) \div 10
                  /\ Did("fe_tobytes", <<f, g, h>>,
                         [limbs |-> Canonical(h), neg |-> fe_isnegative(h), nonzero |-> fe_isnonzero(h)])
        BY <2>1 DEF FieldToBytes
      <3> DEFINE h == fe_add(fe_sub(f, g), Modulus(n))
                 c == Canonical(h)
      <3>2. call' = [fn |-> "fe_tobytes", in |-> <<f, g, h>>,
                     out |-> [limbs |-> c, neg |-> fe_isnegative(h), nonzero |-> fe_isnonzero(h)]]
        BY <3>1 DEF Did
      <3>3. /\ f \in Elements /\ g \in Elements /\ h \in Elements /\ Convertible(h)
            /\ Value(h) = (Value(f) - Value(g)) + n * Prime
        BY <3>1, ConvertedInputs
      <3> HIDE DEF h
      <3>4. /\ c \in Elements /\ Congruent(Value(h), Value(c))
            /\ \A i \in Limbs : c[i] \in 0 .. LimbRadix(i) - 1
            /\ \E i \in Limbs : c[i] < LimbRadix(i) - (IF i = 0 THEN 19 ELSE 1)
        BY <3>3, TobytesCorrect
      <3>5. fe_isnegative(h) = c[0] % 2 /\ (fe_isnonzero(h) <=> \E i \in Limbs : c[i] # 0)
        BY DEF fe_isnegative, fe_isnonzero
      <3> HIDE DEF c
      <3>6. IsCanonical(c)
        BY <3>4 DEF IsCanonical
      <3>7. fe_isnonzero(h) <=> c # fe_0
        BY <3>4, <3>5 DEF Elements, fe_0
      <3>8. Residue(c) = (Residue(f) - Residue(g)) % Check
        <4> DEFINE a == Value(f)
                   b == Value(g)
                   v == Value(h)
                   w == Value(c)
                   x == a - b
        <4>1. a \in Int /\ b \in Int /\ v \in Int /\ w \in Int /\ x \in Int
          BY <3>3, <3>4, ValueType
        <4>2. Residue(f) = a % Check /\ Residue(g) = b % Check /\ Residue(c) = w % Check
          BY <3>3, <3>4, ResidueIsMod
        <4>3. v = x + n * Prime /\ n \in Int /\ Congruent(v, w)
          BY <3>3, <3>4
        <4>4. ((a % Check) - (b % Check)) % Check = x % Check
          <5> HIDE DEF a, b
          <5>1. QED
            BY <4>1, CheckType, ModDifference
        <4> HIDE DEF a, b, v, w, x
        <4>5. v % Check = w % Check
          BY <4>1, <4>3, CongruentResidue
        <4>6. v % Check = x % Check
          <5>1. Congruent(v, x)
            BY <4>3 DEF Congruent
          <5>2. QED
            BY <4>1, <5>1, CongruentResidue
        <4>7. QED
          BY <4>2, <4>4, <4>5, <4>6
      <3>9. QED
        BY <3>2, <3>5, <3>6, <3>7, <3>8 DEF FieldCanonical
    <2>2. CASE UNCHANGED call
      BY <2>2 DEF FieldCanonical
    <2>3. CASE Next /\ ~ FieldToBytes
      <3>1. call'.fn # "fe_tobytes"
        BY <2>3, Calls DEF Next
      <3>2. QED
        BY <3>1 DEF FieldCanonical
    <2>4. QED
      BY <2>1, <2>2, <2>3
  <1>3. QED
    BY <1>1, <1>2, PTL DEF Spec
=============================================================================
