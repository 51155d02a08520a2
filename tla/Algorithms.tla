----------------------------- MODULE Algorithms -----------------------------
(***************************************************************************)
(* The pure algorithms of the repository, each called on bounded inputs    *)
(* and compared with a reference definition.  A step calls one function    *)
(* and leaves its input and output in `call`; Return makes room for the    *)
(* next call.  Each property speaks of the calls of one family.            *)
(***************************************************************************)
EXTENDS Field25519, Scalars, Edwards, Sha3, DeviceTree, Traps, Measurement

VARIABLE call

NoCall == [fn |-> "none", in |-> <<>>, out |-> <<>>]

Idle == call.fn = "none"
Did(fn, in, out) == call' = [fn |-> fn, in |-> in, out |-> out]

\* Values for the constants of the small instances.
MCScDigits == <<41, 29, 40, -61, 8, -42>>
MCBase == <<14, 27>>

(***************************************************************************)
(* Field elements: the extreme limbs the preconditions of fe.c allow       *)
(* (1.65 times the width for a product, 1.1 times for a conversion), single *)
(* limbs, and mixtures.                                                    *)
(***************************************************************************)
CONSTANT Seeds

ASSUME SeedsAssumption == Seeds \subseteq Nat

Spread(seed, i, m) == (seed * seed * 37 + seed * (i + 1) * 131 + i * i * 73) % m

FieldElements(num, den) ==
  LET most(i)    == (num * LimbRadix(i)) \div den
      signed(s)  == [i \in Limbs |-> s[i % 2] * most(i)]
      single(k)  == [i \in Limbs |-> IF i = k THEN most(i) ELSE 0]
      mixed(n)   == [i \in Limbs |-> Spread(n, i, 2 * most(i) + 1) - most(i)]
  IN  {signed(s) : s \in [{0, 1} -> {-1, 0, 1}]} \cup {single(k) : k \in Limbs}
        \cup {mixed(n) : n \in Seeds}

FieldMul ==
  /\ Idle
  /\ \E f \in FieldElements(165, 100), g \in FieldElements(165, 100) :
        Did("fe_mul", <<f, g>>, fe_mul(f, g))

FieldSquare ==
  /\ Idle
  /\ \E f \in FieldElements(165, 100) : 
        Did("fe_sq", f, [sq |-> fe_sq(f), sq2 |-> fe_sq2(f), mul |-> fe_mul(f, f)])

FieldScale ==
  /\ Idle
  /\ \E f \in FieldElements(110, 100) : Did("fe_mul121666", f, fe_mul121666(f))

\* The modulus is added once more or once less to what is converted.
FieldToBytes ==
  /\ Idle
  /\ \E f \in FieldElements(90, 100), g \in {fe_0, fe_1, fe_neg(fe_1)}, n \in {-1, 0, 1} :
        LET h == fe_add(fe_sub(f, g), Modulus(n))
        IN  /\ \A i \in Limbs : h[i] \in -((11 * LimbRadix(i)) \div 10) .. (11 * LimbRadix(i)) \div 10
            /\ Did("fe_tobytes", <<f, g, h>>,
                   [limbs |-> Canonical(h), neg |-> fe_isnegative(h), nonzero |-> fe_isnonzero(h)])

FieldSelect ==
  /\ Idle
  /\ \E x \in SUBSET (0 .. 2), y \in SUBSET (0 .. 2), b \in {0, 1}, k \in Limbs :
        LET f == [i \in Limbs |-> IF i = k THEN x ELSE {0}]
            g == [i \in Limbs |-> IF i = k THEN y ELSE {1, 2}]
        IN  Did("fe_cswap", <<f, g, b>>,
                [cmov |-> fe_cmov(f, g, b, 0 .. 2), cswap |-> fe_cswap(f, g, b, 0 .. 2)])

FieldBytes ==
  /\ Idle
  /\ \E b \in 0 .. 255 : Did("fe_frombytes", b, LoadBits({b}))

FieldChains ==
  /\ Idle
  /\ \/ Did("fe_invert", <<>>, Exponent(fe_invert))
     \/ Did("fe_pow22523", <<>>, Exponent(fe_pow22523))

(***************************************************************************)
(* Scalars: 24 limbs for sc_reduce, of which the last is wider, 12 for     *)
(* sc_muladd.                                                              *)
(***************************************************************************)
ScalarLimbs(n, wide) ==
  LET most(i)  == 2^(ScBits + (IF i = n - 1 THEN wide ELSE 0)) - 1
      signed(s) == [i \in ScLimbs |-> IF i < n THEN s[i % 2] * most(i) ELSE 0]
      single(k) == [i \in ScLimbs |-> IF i = k THEN most(i) ELSE 0]
      mixed(k)  == [i \in ScLimbs |-> IF i < n THEN Spread(k, i, most(i) + 1) ELSE 0]
  IN  {signed(s) : s \in [{0, 1} -> {0, 1}]} \cup {single(k) : k \in 0 .. n - 1}
        \cup {mixed(k) : k \in Seeds}

ScalarReduce ==
  /\ Idle
  /\ \E s \in ScalarLimbs(24, 3) : Did("sc_reduce", s, sc_reduce(s))

ScalarMulAdd ==
  /\ Idle
  /\ \E a \in ScalarLimbs(12, 0), b \in ScalarLimbs(12, 4) :
        \E c \in {a, b} : Did("sc_muladd", <<a, b, c>>, sc_muladd(a, b, c))

ScalarBytes ==
  /\ Idle
  /\ \E b \in 0 .. 511, n \in {12, 24} :
       Did("sc_load", <<b, n>>, ScLoadBits({b}, n))

(***************************************************************************)
(* Points, with two denominators; scalars below half of what fits.         *)
(***************************************************************************)
Denominators == {1, 5}
SomeScalars == 0 .. 40 \cup {Spread(n, 3, 2^(4 * Digits - 1)) : n \in 1 .. 200}
                 \cup {2^(4 * Digits - 1) - n : n \in 1 .. 9}

GroupAdd ==
  /\ Idle
  /\ \E p \in Points, q \in Points, z \in Denominators :
        LET r == Extended(p, z)
            c == ge_p3_to_cached(Extended(q, (z * 7) % P))
        IN  Did("ge_add", <<p, q>>,
                [add |-> ge_p1p1_to_p3(ge_add(r, c)), sub |-> ge_p1p1_to_p3(ge_sub(r, c)),
                 dbl |-> ge_p1p1_to_p3(ge_p3_dbl(r))])

GroupMixedAdd ==
  /\ Idle
  /\ \E p \in Points, n \in 0 .. BaseOrder - 1, z \in Denominators :
        LET r == Extended(p, z)
        IN  Did("ge_madd", <<p, AffineMul(n, Base)>>,
                [add |-> ge_p1p1_to_p3(ge_madd(r, Precomp(n))),
                 sub |-> ge_p1p1_to_p3(ge_msub(r, Precomp(n))),
                 dbl |-> ge_p1p1_to_p3(ge_p3_dbl(r))])

BaseMul ==
  /\ Idle
  /\ \E a \in SomeScalars :
       Did("ge_scalarmult_base", a, [e |-> SignedDigits(a), h |-> ge_scalarmult_base(a)])

DoubleMul ==
  /\ Idle
  /\ \E a \in SomeScalars, q \in {AffineMul(3, Base), <<0, P - 1>>}, b \in {0, 1, 11, 2000} :
        a < 2^(SlideBits - 3) /\
        Did("ge_double_scalarmult_vartime", <<a, q, b>>,
            [slide |-> slide(a), r |-> ge_double_scalarmult_vartime(a, Extended(q, 5), b)])

Decode ==
  /\ Idle
  /\ \E y \in Fe, sign \in {0, 1} :
       Did("ge_frombytes_negate_vartime", [y |-> y, sign |-> sign],
           ge_frombytes_negate_vartime([y |-> y, sign |-> sign]))

Sign ==
  /\ Idle
  /\ \E k \in {8 * n + 3 : n \in 0 .. 9}, r \in 0 .. 15, h \in 0 .. 15 :
        LET key == ed25519_create_keypair(k)
        IN  Did("ed25519_sign", <<key, h>>, ed25519_sign(key, r, h))

(***************************************************************************)
(* Hashing: single bits in a few positions, dense states, every round; and *)
(* messages of up to two blocks and a byte given in up to three pieces.    *)
(***************************************************************************)
BlockSize == 3

KeccakStates ==
  {[n \in 0 .. 24 |-> IF n = lane THEN {bit} ELSE {}] : lane \in 0 .. 24, bit \in {0, 63}}
    \cup {[n \in 0 .. 24 |-> {b \in 0 .. 63 : Spread(seed, 64 * n + b, 1009) % 2 = 0}] : seed \in Seeds}

Keccak ==
  /\ Idle
  /\ \/ \E st \in KeccakStates : Did("keccakf", <<st, 1>>, KeccakRound(st, 1))
     \/ \E r \in 1 .. 24 : LET st == [n \in 0 .. 24 |-> {}]
                           IN  Did("keccakf", <<st, r>>, KeccakRound(st, r))

Message(n) == [i \in 1 .. n |-> {i}]

Hash ==
  /\ Idle
  /\ \E n \in 0 .. 2 * BlockSize + 1 : \E a \in 0 .. n : \E b \in a .. n :
        LET m == Message(n)
            c == sha3_update(sha3_init(BlockSize), SubSeq(m, 1, a))
            d == sha3_update(c, SubSeq(m, a + 1, b))
        IN  Did("sha3", <<n, a, b>>, sha3_final(sha3_update(d, SubSeq(m, b + 1, n))))

(***************************************************************************)
(* Device trees, from descriptions of boards: the harts in the order of    *)
(* their cpu nodes (a hart number, a phandle, a status), the wiring of the *)
(* plic, the ranges of memory, and whether the cpus come first.            *)
(***************************************************************************)
Cells(name, cells) == <<Lexeme("prop", name, cells, <<>>)>>
Strs(name, strs)   == <<Lexeme("prop", name, <<>>, strs)>>
NodeLex(name, body) == <<Lexeme("begin", name, <<>>, <<>>)>> \o body \o <<Lexeme("end", "", <<>>, <<>>)>>

CpuNode(h) ==
  NodeLex("cpu", Strs("device_type", <<"cpu">>) \o Cells("reg", <<h.id>>) \o Strs("status", <<h.status>>)
                   \o NodeLex("intc", Cells("#interrupt-cells", <<1>>) \o Cells("interrupt-controller", <<>>)
                                        \o Cells("phandle", <<h.phandle>>)))

CpusNode(board) ==
  NodeLex("cpus", Cells("#address-cells", <<1>>) \o Cells("#size-cells", <<0>>)
                    \o FlattenSeq([k \in DOMAIN board.harts |-> CpuNode(board.harts[k])]))

MemoryNode(board) == NodeLex("memory", Strs("device_type", <<"memory">>) \o Cells("reg", board.memory))

ClintNode(board) ==
  NodeLex("clint", Strs("compatible", <<"other", "riscv,clint0">>)
    \o Cells("interrupts-extended",
             FlattenSeq([k \in DOMAIN board.harts |-> <<board.harts[k].phandle, 3, board.harts[k].phandle, 7>>]))
    \o Cells("reg", <<2, 0>>))

PlicNode(board) ==
  NodeLex("plic", Strs("compatible", <<"riscv,plic0">>) \o Cells("interrupts-extended", FlattenSeq(board.wires))
    \o Cells("interrupt-controller", <<>>) \o Cells("reg", <<1, 4>>) \o Cells("riscv,ndev", <<3>>))

DebugNode == NodeLex("debug", Strs("compatible", <<"riscv,debug-013">>) \o NodeLex("sub", <<>>))

UartNode(reg) == NodeLex("uart", Strs("compatible", <<"sifive,uart0">>) \o Cells("reg", reg))

\* `hidden` leaves out what the operating system must not see.
Tree(board, hidden) ==
  NodeLex("", Cells("#address-cells", <<2>>) \o Cells("#size-cells", <<1>>)
    \o (IF board.cpusFirst THEN CpusNode(board) \o <<FDT_NOP>> ELSE <<>>)
    \o MemoryNode(board)
    \o NodeLex("soc", Cells("#address-cells", <<2>>) \o Cells("#size-cells", <<1>>)
         \o (IF hidden THEN <<>> ELSE DebugNode \o ClintNode(board))
         \o UartNode(<<3, 1>>) \o PlicNode(board) \o UartNode(<<3, 5>>))
    \o (IF board.cpusFirst THEN <<>> ELSE CpusNode(board)))
  \o <<Lexeme("finish", "", <<>>, <<>>)>>

Boards ==
  [harts     : {<<[id |-> q[1], phandle |-> pa, status |-> s], [id |-> q[2], phandle |-> 9 - pa, status |-> "okay"]>> :
                  q \in {q \in (0 .. 2) \X (0 .. 2) : q[1] # q[2]}, pa \in {4, 5}, s \in {"okay", "disabled"}},
   wires     : {<<<<4, 11>>, <<4, 9>>, <<5, 11>>, <<5, 9>>>>, <<<<5, 9>>, <<7, 11>>, <<4, 9>>>>},
   memory    : {<<0, 2, 4, 1, 0, 7>>, <<1, 0, 3>>},
   cpusFirst : BOOLEAN]

QueryTree ==
  /\ Idle
  /\ \E board \in Boards :
        LET tree  == Tree(board, FALSE)
            harts == query_harts(tree, 0)
        IN  Did("init_first_hart", board,
                [harts |-> harts, mem |-> query_mem(tree), uart |-> query_uart(tree),
                 clint |-> query_clint(tree, harts.scan.phandles),
                 plic |-> query_plic(tree, harts.scan.phandles)])

FilterTree ==
  /\ Idle
  /\ \E board \in Boards, mask \in SUBSET (0 .. 2) :
        Did("filter_dtb", <<board, mask>>, filter_dtb(Tree(board, FALSE), mask))

(***************************************************************************)
(* Traps: every cause, from the operating system and from an enclave; the  *)
(* instruction trapped on matters to the causes that emulate it.           *)
(***************************************************************************)
SomeRegs == {0, SP, A0}

Instructions(cause, regs) ==
  CASE cause = 2 -> [op : {"system"}, csr : {"time", "other"}, rm : 0 .. 7, rs1 : {0, 3}, rd : regs,
                     counteren : BOOLEAN] \cup [op : {"other"}]
    [] cause = 4 -> [op : {"lw", "ld", "lwu", "lh", "lhu", "flw"}, rd : regs]
    [] cause = 6 -> [op : {"sw", "sd", "sh", "fsw"}, rs2 : regs]
    [] OTHER     -> [op : {"other"}]

TrapEvents == [enclave : BOOLEAN, interrupt : BOOLEAN, cause : 0 .. 15]

Trap ==
  /\ Idle
  /\ \E e \in TrapEvents, mpp \in {PrvU, PrvS}, sie \in {0, 1} :
        /\ e.interrupt => e.cause < 12
        /\ ~ e.interrupt => (e.cause = 8 => mpp = PrvU) /\ (e.cause = 9 => mpp = PrvS)
        /\ \E insn \in Instructions(e.cause, SomeRegs) :
             Did("trap", <<e, insn, TrapState(mpp, sie)>>, HandleTrap(e, insn, TrapState(mpp, sie)))

(***************************************************************************)
(* Measurements: an enclave is initialised over whatever its metadata page *)
(* held, given up to two tables, pages or threads, and finalised.  A page  *)
(* may hold what looks like an operation.                                  *)
(***************************************************************************)
StaleMeasurement == [block |-> [f \in Fields |-> 9], hash |-> <<[ZeroBlock EXCEPT !.opcode = "final"]>>]

BuildSteps ==
  [op : {"table"}, addr : {0, 1}, acl : {2}, level : {0, 1}]
    \cup [op : {"page"}, addr : {0, 1}, acl : {2},
          contents : {[i \in 1 .. PageBlocks |-> [ZeroBlock EXCEPT !.opcode = o]] : o \in {"page", "final"}}]
    \cup [op : {"thread"}, pc : {0, 3}, stack : {4}, faultPc : {5}, faultStack : {0, 6}]

MeasureEnclave ==
  /\ Idle
  /\ \E first \in [op : {"init"}, base : {7}, mask : {8}, mailboxes : {0, 1}, debug : {0, 1}],
        middle \in SeqOf(BuildSteps, 2) :
        LET ops == <<first>> \o middle \o <<[op |-> "final"]>>
        IN  Did("measure", ops, FoldLeft(Measure, StaleMeasurement, ops).hash)

Return == ~ Idle /\ call' = NoCall

Init == call = NoCall

Next ==  \/ Trap \/ MeasureEnclave
          \/ FieldMul \/ FieldSquare \/ FieldScale \/ FieldToBytes \/ FieldSelect \/ FieldBytes \/ FieldChains
          \/ ScalarReduce \/ ScalarMulAdd \/ ScalarBytes
          \/ GroupAdd \/ GroupMixedAdd \/ BaseMul \/ DoubleMul \/ Decode \/ Sign
          \/ Keccak \/ Hash
          \/ QueryTree \/ FilterTree
          \/ Return

Spec == Init /\ [][Next]_call

\* The last carries go into limbs 1 and 5, which may exceed half a limb by Slack
\* (less than a hundredth of a limb with the code's sizes).
Slack == 1200
ProductReduced(h) ==
  \A i \in Limbs : LET most == Half(i) + (IF i \in {1, 5} THEN Slack ELSE 0)
                   IN  h[i] \in -most .. most

\* fe_mul, fe_sq, fe_sq2 and fe_mul121666 multiply modulo the prime for every
\* input within the bounds their comments allow, the squarings agree with the
\* product, and the carries leave limbs no wider than half a limb (and the slack),
\* so that a result may be the input of the next product.  fe_cmov and fe_cswap
\* select whole elements although they select limb by limb with a mask.
FieldOpsCorrect ==
  /\ call.fn = "fe_mul" =>
       /\ Residue(call.out) = (Residue(call.in[1]) * Residue(call.in[2])) % Check
       /\ ProductReduced(call.out)
  /\ call.fn = "fe_sq" =>
       /\ call.out.sq = call.out.mul
       /\ Residue(call.out.sq2) = (2 * Residue(call.out.mul)) % Check
       /\ ProductReduced(call.out.sq2)
  /\ call.fn = "fe_mul121666" =>
       Residue(call.out) = ((121666 % Check) * Residue(call.in)) % Check
  /\ call.fn = "fe_cswap" =>
       LET f == call.in[1]
           g == call.in[2]
       IN  /\ call.out.cmov = (IF call.in[3] = 1 THEN g ELSE f)
           /\ call.out.cswap = (IF call.in[3] = 1 THEN <<g, f>> ELSE <<f, g>>)

\* The limbs of a value in 0 .. modulus - 1.
IsCanonical(h) ==
  /\ \A i \in Limbs : h[i] \in 0 .. LimbRadix(i) - 1
  /\ \E i \in Limbs : h[i] < LimbRadix(i) - (IF i = 0 THEN 19 ELSE 1)

\* fe_tobytes, from any representation within its bounds, writes the one value
\* below the modulus that is congruent to it: the estimated quotient q is never off
\* by one, not even next to a multiple of the modulus.  fe_isnegative and
\* fe_isnonzero, which go through it, answer for that value.
FieldCanonical ==
  call.fn = "fe_tobytes" =>
    LET f == call.in[1]
        g == call.in[2]
    IN  /\ IsCanonical(call.out.limbs)
        /\ Residue(call.out.limbs) = (Residue(f) - Residue(g)) % Check
        /\ call.out.nonzero <=> call.out.limbs # fe_0
        /\ call.out.neg = call.out.limbs[0] % 2

\* Each bit of the 32 bytes (64 for sc_reduce) that fe_frombytes, sc_reduce and
\* sc_muladd load arrives in exactly one limb at its own weight (bit 255 of a field
\* element is ignored), and fe_tobytes and the scalar stores write a limb's bit back
\* to where it came from: no shift, mask or byte index is wrong.
LimbLayouts ==
  /\ call.fn = "fe_frombytes" =>
       /\ \A x \in call.out : LimbOffset[x[1] + 1] + x[2] = call.in
       /\ Cardinality(call.out) = (IF call.in = 255 THEN 0 ELSE 1)
       /\ \A k \in Limbs : \A i \in 0 .. (IF k % 2 = 0 THEN 25 ELSE 24) :
            LimbOffset[k + 1] + i = call.in => StoreBits(StoreTable, {<<k, i>>}) = {call.in}
  /\ call.fn = "sc_load" =>
       LET b == call.in[1]
           n == call.in[2]
       IN  /\ \A x \in call.out : 21 * x[1] + x[2] = b
           /\ Cardinality(call.out) = (IF b < (IF n = 12 THEN 256 ELSE 512) THEN 1 ELSE 0)
           /\ \A k \in 0 .. 11 : \A i \in 0 .. 20 :
                21 * k + i = b => StoreBits(ScStoreTable, {<<k, i>>}) = {b}

\* The addition chains of fe_invert and fe_pow22523 raise to 2^255 - 21 and to
\* 2^252 - 3: the exponents are given by the set of their bits.
FieldChainsCorrect ==
  /\ call.fn = "fe_invert" => call.out = (0 .. 254) \ {2, 4}
  /\ call.fn = "fe_pow22523" => call.out = (0 .. 251) \ {1}

\* The limbs of a value in 0 .. modulus - 1: none negative or too wide, and less
\* than the modulus, whose limbs are the negated digits and one in limb 12.
ScCanonical(s) ==
  LET minus == [i \in ScLimbs |-> CASE i \in 0 .. 5 -> s[i] + ScDigits[i + 1]
                                    [] i = 12       -> s[i] - 1
                                    [] OTHER        -> s[i]]
  IN  /\ \A i \in ScLimbs : s[i] \in 0 .. (IF i = 11 THEN 2^ScBits ELSE IF i < 11 THEN 2^ScBits - 1 ELSE 0)
      /\ FoldLeft(ScFloor, minus, Upto(0, 11))[12] < 0

\* sc_reduce and sc_muladd give the representative below the group order of the
\* value itself, respectively of a*b + c, whatever way the carries run: no limb is
\* negative or too wide after the last fold, and the residue is kept.
ScalarsReduced ==
  /\ call.fn = "sc_reduce" =>
       ScCanonical(call.out) /\ ScResidue(call.out) = ScResidue(call.in)
  /\ call.fn = "sc_muladd" =>
       /\ ScCanonical(call.out)
       /\ ScResidue(call.out) = (ScResidue(call.in[1]) * ScResidue(call.in[2]) + ScResidue(call.in[3])) % ScCheck

\* A ge_p3 that stands for the affine point q.
Represents(r, q) ==
  /\ r.Z # 0
  /\ Affine(r) = q
  /\ (r.X * r.Y) % P = (r.Z * r.T) % P

\* ge_add, ge_sub, ge_madd, ge_msub and ge_p3_dbl, followed by ge_p1p1_to_p3,
\* compute the group law of the curve on every pair of points and denominators, the
\* doubled, neutral and small-order points included, and keep X*Y = Z*T.
GroupLaw ==
  call.fn \in {"ge_add", "ge_madd"} =>
    LET p == call.in[1]
        q == call.in[2]
    IN  /\ Represents(call.out.add, AffineAdd(p, q))
        /\ Represents(call.out.sub, AffineAdd(p, AffineNeg(q)))
        /\ Represents(call.out.dbl, AffineAdd(p, p))

\* ge_scalarmult_base (signed digits of radix 16, even positions after odd) and
\* ge_double_scalarmult_vartime (sliding windows) compute the multiples they are
\* named for; every digit stays inside its table.
ScalarMultCorrect ==
  /\ call.fn = "ge_scalarmult_base" =>
       /\ \A i \in DOMAIN call.out.e : call.out.e[i] \in -8 .. 8
       /\ Represents(call.out.h, AffineMul(call.in % BaseOrder, Base))
  /\ call.fn = "ge_double_scalarmult_vartime" =>
       LET a == call.in[1]
           q == call.in[2]
           b == call.in[3]
       IN  /\ \A i \in DOMAIN call.out.slide :
                call.out.slide[i] = 0 \/ (call.out.slide[i] % 2 = 1 /\ call.out.slide[i] \in -15 .. 15)
           /\ Affine(call.out.r) = AffineAdd(AffineMul(a % (8 * BaseOrder), q), AffineMul(b % BaseOrder, Base))

\* ge_frombytes_negate_vartime accepts exactly the encodings of points and
\* returns the negated point; and a signature made by ed25519_sign with a key of
\* ed25519_create_keypair satisfies the verification equation R = S*B - h*A.
SignaturesVerify ==
  /\ call.fn = "ge_frombytes_negate_vartime" =>
       LET points == {q \in Points : q[2] = call.in.y}
       IN  /\ call.out.ok <=> points # {}
           /\ \A q \in points : IsNegative(q[1]) = call.in.sign =>
                                  Represents(call.out.h, AffineNeg(q))
  /\ call.fn = "ed25519_sign" =>
       LET key == call.in[1]
           minusA == ge_frombytes_negate_vartime(key.public).h
           r == ge_double_scalarmult_vartime(ScReduce(call.in[2]), minusA, call.out.S)
       IN  /\ call.out.S \in 0 .. BaseOrder - 1
           /\ [y |-> Affine(r)[2], sign |-> IsNegative(Affine(r)[1])] = call.out.R

\* The round of FIPS 202, on the set of the bits <<x, y, z>> that are 1.
Odd(bits) == Cardinality({i \in DOMAIN bits : bits[i]}) % 2 = 1

StateBits == (0 .. 4) \X (0 .. 4) \X (0 .. 63)

RhoLane[t \in 0 .. 23] ==
  IF t = 0 THEN <<1, 0>>
  ELSE LET q == RhoLane[t - 1] IN <<q[2], (2 * q[1] + 3 * q[2]) % 5>>

RhoOffsets ==
  [q \in (0 .. 4) \X (0 .. 4) |->
     IF q = <<0, 0>> THEN 0
     ELSE LET t == CHOOSE t \in 0 .. 23 : RhoLane[t] = q IN (((t + 1) * (t + 2)) \div 2) % 64]

Lfsr[t \in 0 .. 168] ==
  IF t = 0 THEN {0}
  ELSE LET r == {i + 1 : i \in Lfsr[t - 1]}
       IN  IF 8 \in r THEN Differ(r \ {8}, {0, 4, 5, 6}) ELSE r

RoundConstants == [r \in 1 .. 24 |-> {2^j - 1 : j \in {j \in 0 .. 5 : 0 \in Lfsr[j + 7 * (r - 1)]}}
                                       \cup {63 : j \in {j \in {6} : 0 \in Lfsr[j + 7 * (r - 1)]}}]

FipsRound(bits, r) ==
  LET parity == {q \in (0 .. 4) \X (0 .. 63) : Odd([y \in 0 .. 4 |-> <<q[1], y, q[2]>> \in bits])}
      theta  == {q \in StateBits : Odd(<<q \in bits, <<(q[1] + 4) % 5, q[3]>> \in parity,
                                         <<(q[1] + 1) % 5, (q[3] + 63) % 64>> \in parity>>)}
      rho    == {<<q[1], q[2], (q[3] + RhoOffsets[q[1], q[2]]) % 64>> : q \in theta}
      pi     == {q \in StateBits : <<(q[1] + 3 * q[2]) % 5, q[1], q[3]>> \in rho}
      chi    == {q \in StateBits : Odd(<<q \in pi, /\ <<(q[1] + 1) % 5, q[2], q[3]>> \notin pi
                                                   /\ <<(q[1] + 2) % 5, q[2], q[3]>> \in pi>>)}
  IN  Differ(chi, {<<0, 0, z>> : z \in RoundConstants[r]})

BitsOf(st) == UNION {{<<n % 5, n \div 5, z>> : z \in st[n]} : n \in 0 .. 24}

\* The blocks of a padded message of n bytes.
PaddedBlocks(n) ==
  [k \in 1 .. (n \div BlockSize) + 1 |->
     [i \in 0 .. BlockSize - 1 |->
        LET at == (k - 1) * BlockSize + i
        IN  (IF at < n THEN {at + 1} ELSE {})
              \cup (IF at = n THEN {PadFirst} ELSE {})
              \cup (IF at = BlockSize * ((n \div BlockSize) + 1) - 1 THEN {PadLast} ELSE {})]]

\* A round of sha3_keccakf, which permutes the lanes in place, is the round of
\* FIPS 202 with its constants derived from their definitions; and however a
\* message is cut into sha3_update calls, the blocks that reach the permutation are
\* those of the message, padded exactly once, at block boundaries too.
HashMatchesFips ==
  /\ call.fn = "keccakf" => BitsOf(call.out) = FipsRound(BitsOf(call.in[1]), call.in[2])
  /\ call.fn = "sha3" => call.out = PaddedBlocks(call.in[1])

\* What init_first_hart learns from a device tree is the board: memory, console,
\* the harts that fit, and for each hart the clint and plic entries wired to its own
\* interrupt controller, whatever the order of nodes, hart numbers and phandles.
DeviceTreeQueried ==
  call.fn = "init_first_hart" =>
    LET board == call.in
        out   == call.out
        harts == {board.harts[k] : k \in DOMAIN board.harts}
        known == {h \in harts : h.id < NumHarts}
        wired(h, irq) == {k \in DOMAIN board.wires : board.wires[k] = <<h.phandle, irq>>}
    IN  /\ out.harts.ok /\ out.mem.ok /\ out.clint.ok /\ out.plic.ok
        /\ out.harts.scan.mask = {h.id : h \in known}
        /\ out.mem.scan.size = (IF board.memory[1] = 1 THEN 3 ELSE 7)
        /\ out.uart.scan.uart = 3 * Radix + 1
        /\ \A h \in known :
             /\ out.harts.scan.phandles[h.id] = h.phandle
             /\ board.harts[out.clint.scan.ipi[h.id] + 1] = h
             /\ \A irq \in {IRQ_M_EXT, IRQ_S_EXT} :
                  IF wired(h, irq) = {} THEN out.plic.scan.ie[h.id, irq] = -1
                  ELSE out.plic.scan.ie[h.id, irq] + 1 \in wired(h, irq)

\* What the operating system should be shown of a board.
Shown(board, mask) ==
  [board EXCEPT
     !.harts = [k \in DOMAIN @ |-> IF @[k].id \in mask /\ @[k].status = "okay"
                                     THEN [@[k] EXCEPT !.status = "masked"] ELSE @[k]],
     !.wires = [k \in DOMAIN @ |-> IF @[k][2] = IRQ_M_EXT THEN <<@[k][1], -1>> ELSE @[k]]]

\* filter_dtb shows the operating system the same tree without the clint and the
\* debug module, with the masked harts disabled and the machine-mode plic wires cut:
\* no sibling or descendant is lost or left, and the tree keeps its size.
DeviceTreeFiltered ==
  call.fn = "filter_dtb" =>
    LET lexemes(tree) == SelectSeq(tree, LAMBDA l : l.kind # "nop")
    IN  /\ lexemes(call.out) = lexemes(Tree(Shown(call.in[1], call.in[2]), TRUE))
        /\ Len(call.out) = Len(Tree(call.in[1], FALSE))

\* Handled in C by the monitor or passed on to the supervisor from there.
FromC(e) == ~ e.enclave /\ ~ e.interrupt /\ e.cause \in {1, 2, 4, 5, 6, 7}

\* The instructions the monitor performs in place of the hart.
Emulated(e, insn, m) ==
  /\ FromC(e)
  /\ \/ e.cause = 4 /\ insn.op # "flw"
     \/ e.cause = 6 /\ insn.op # "fsw"
     \/ /\ e.cause = 2 /\ insn.op = "system" /\ insn.csr = "time"
        /\ insn.rs1 = 0 /\ insn.rm \in {2, 3, 6, 7}
        /\ m.mpp = PrvS \/ insn.counteren

Width(op) == CASE op \in {"ld", "sd"} -> 8 [] op \in {"lw", "lwu", "sw"} -> 4 [] OTHER -> 2
Expected(op) == IF op = "system" THEN TimeValue ELSE LoadedValue(Width(op), op \in {"lw", "lh"})

\* How a trap taken in state m ends, in state n.
Resumes(e, insn, m, n) ==
  LET same(but) == \A r \in Regs \ but : n.x[r] = m.x[r]
      ecall     == ~ e.interrupt /\ e.cause = (IF e.enclave THEN 8 ELSE 9)
      machine   == ~ e.enclave /\ e.interrupt /\ e.cause \in {3, 7}
  IN  /\ n.mscratch = FramePtr
      /\ CASE ecall -> n.mepc = Mepc + 4 /\ same({A0}) /\ n.x[A0] = Retval /\ n.mpp = m.mpp
           [] machine -> n.mepc = Mepc /\ same(IF e.cause = 3 THEN {A0} ELSE {}) /\ n.mpp = m.mpp
           [] Emulated(e, insn, m) ->
                /\ n.mepc = Mepc + 4 /\ n.mpp = m.mpp /\ n.sie = m.sie
                /\ CASE e.cause = 6 -> /\ same({})
                                       /\ insn.rs2 # SP => n.stored = <<m.x[insn.rs2], Width(insn.op)>>
                     [] OTHER -> /\ same({insn.rd} \ {0, SP})
                                 /\ insn.rd \notin {0, SP} => n.x[insn.rd] = Expected(insn.op)
           [] OTHER ->
                /\ n.mepc = Stvec /\ n.sepc = Mepc /\ n.scause = e.cause
                /\ n.spp = m.mpp /\ n.spie = m.sie /\ n.sie = 0
                /\ n.mpp = (IF FromC(e) THEN m.mpp ELSE PrvS)
                /\ same(IF FromC(e) THEN {SP} ELSE {})

\* A trap ends in one of four ways, and in each the interrupted registers survive
\* the frame: a call answers in a0, an interrupt of the monitor's returns to where
\* it was, an emulated load, store or read of time has exactly its own effect, and
\* everything else enters the supervisor's handler with the trap's cause, address
\* and privilege and with interrupts off.  The exceptions named here are the code's:
\* handle_mipi loses a0, what passes through redirect_trap_to_s loses sp and keeps
\* mPP, and an emulated instruction cannot use sp.
TrapsResume == call.fn = "trap" => Resumes(call.in[1], call.in[2], call.in[3], call.out)

\* Reads the operations back from the blocks of a measurement.
Operations(hash) ==
  LET read[k \in 1 .. Len(hash) + 1] ==
        IF k > Len(hash) THEN <<>>
        ELSE LET b == hash[k]
             IN  CASE b.opcode = "init"   -> <<[op |-> "init", base |-> b.ptr1, mask |-> b.ptr2,
                                                mailboxes |-> b.size1, debug |-> b.size2]>> \o read[k + 1]
                   [] b.opcode = "table"  -> <<[op |-> "table", addr |-> b.ptr1, acl |-> b.ptr2,
                                                level |-> b.size1]>> \o read[k + 1]
                   [] b.opcode = "page"   -> <<[op |-> "page", addr |-> b.ptr1, acl |-> b.ptr2,
                                                contents |-> SubSeq(hash, k + 1, k + PageBlocks)]>>
                                               \o read[k + PageBlocks + 1]
                   [] b.opcode = "thread" -> <<[op |-> "thread", pc |-> b.ptr1, stack |-> b.ptr2,
                                                faultPc |-> b.ptr3, faultStack |-> b.ptr4]>> \o read[k + 1]
                   [] b.opcode = "final"  -> <<[op |-> "final"]>> \o read[k + 1]
  IN  read[1]

\* The blocks hashed for an enclave can be read back as the very sequence of
\* operations that built it, and the blocks of an operation depend on nothing that
\* was measured before it or was left in the metadata page: enclaves built alike
\* measure alike, and enclaves built differently hash different blocks.
MeasurementFaithful ==
  call.fn = "measure" =>
    /\ Operations(call.out) = call.in
    /\ call.out = FlattenSeq([k \in DOMAIN call.in |->
                                Measure([block |-> ZeroBlock, hash |-> <<>>], call.in[k]).hash])
=============================================================================
