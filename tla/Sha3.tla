-------------------------------- MODULE Sha3 --------------------------------
(***************************************************************************)
(* SHA-3 as src/common/sha3/sha3.c computes it.                            *)
(*                                                                         *)
(* The permutation is modelled at full size on the set of the bits that    *)
(* are 1, a bit being <<lane, position>> with lane 0 .. 24 and position    *)
(* 0 .. 63; a round is the code's, step by step.  The sponge is modelled   *)
(* over an abstract permutation: the context keeps the blocks permuted so  *)
(* far and the bytes xored into the current one.                           *)
(***************************************************************************)
EXTENDS Integers, Sequences, FiniteSets, SequencesExt

LaneCount == 25
LaneBits == 64

\* keccakf_rndc, each constant as the positions of its bits.
keccakf_rndc ==
  << {0}, {1, 7, 15}, {1, 3, 7, 15, 63}, {15, 31, 63}, {0, 1, 3, 7, 15}, {0, 31},
     {0, 7, 15, 31, 63}, {0, 3, 15, 63}, {1, 3, 7}, {3, 7}, {0, 3, 15, 31}, {1, 3, 31},
     {0, 1, 3, 7, 15, 31}, {0, 1, 3, 7, 63}, {0, 3, 7, 15, 63}, {0, 1, 15, 63}, {1, 15, 63},
     {7, 63}, {1, 3, 15}, {1, 3, 31, 63}, {0, 7, 15, 31, 63}, {7, 15, 63}, {0, 31},
     {3, 15, 31, 63} >>

keccakf_rotc ==
  << 1, 3, 6, 10, 15, 21, 28, 36, 45, 55, 2, 14, 27, 41, 56, 8, 25, 43, 62, 18, 39, 61, 20, 44 >>

keccakf_piln ==
  << 10, 7, 11, 17, 18, 3, 5, 16, 8, 21, 24, 4, 15, 23, 19, 13, 12, 2, 20, 14, 22, 9, 6, 1 >>

\* A lane is the set of its bits; the state gives each lane its set.
Differ(a, b) == (a \ b) \cup (b \ a)
ROTL64(lane, n) == {(b + n) % LaneBits : b \in lane}

Theta(st) ==
  LET column(i) == FoldLeft(LAMBDA t, j : Differ(t, st[i + j]), {}, <<0, 5, 10, 15, 20>>)
      bc == <<column(0), column(1), column(2), column(3), column(4)>>
  IN  [n \in 0 .. 24 |->
         LET i == n % 5
         IN  Differ(st[n], Differ(bc[((i + 4) % 5) + 1], ROTL64(bc[((i + 1) % 5) + 1], 1)))]

\* The lane that is moved is read after it was overwritten.
RhoPiInPlace(st) ==
  FoldLeft(LAMBDA acc, i : [t  |-> ROTL64(acc.t, keccakf_rotc[i]),
                            st |-> [acc.st EXCEPT ![keccakf_piln[i]] = ROTL64(acc.t, keccakf_rotc[i])]],
           [t |-> st[1], st |-> st], [n \in 1 .. 24 |-> n]).st

\* One lane after the other is replaced by the rotated previous one.
RhoPi(st) ==
  FoldLeft(LAMBDA acc, i : [t  |-> acc.st[keccakf_piln[i]],
                            st |-> [acc.st EXCEPT ![keccakf_piln[i]] = ROTL64(acc.t, keccakf_rotc[i])]],
           [t |-> st[1], st |-> st], [n \in 1 .. 24 |-> n]).st

Chi(st) ==
  [n \in 0 .. 24 |->
     LET row == n - (n % 5)
     IN  Differ(st[n], st[row + ((n + 2) % 5)] \ st[row + ((n + 1) % 5)])]

Iota(st, r) == [st EXCEPT ![0] = Differ(@, keccakf_rndc[r])]

\* One round of sha3_keccakf; r counts from 1.
KeccakRound(st, r) == Iota(Chi(RhoPi(Theta(st))), r)

(***************************************************************************)
(* The sponge.  Bytes are sets of abstract bits, so that xor is Differ.    *)
(***************************************************************************)
sha3_init(rsiz) == [pt |-> 0, rsiz |-> rsiz, block |-> [i \in 0 .. rsiz - 1 |-> {}], done |-> <<>>]

\* sha3_keccakf: what was xored in since the last time becomes part of the state.
Permuted(c) ==
  [c EXCEPT !.done = Append(@, c.block), !.block = [i \in 0 .. c.rsiz - 1 |-> {}]]

\* The block is permuted when the next byte needs the room, not when it is full.
AbsorbByteLate(c, byte) ==
  LET room == IF c.pt >= c.rsiz - 1 THEN [Permuted(c) EXCEPT !.pt = 0] ELSE c
  IN  [room EXCEPT !.block[room.pt] = Differ(@, byte), !.pt = @ + 1]

AbsorbByte(c, byte) ==
  LET xored == [c EXCEPT !.block[c.pt] = Differ(@, byte), !.pt = @ + 1]
  IN  IF xored.pt >= c.rsiz THEN [Permuted(xored) EXCEPT !.pt = 0] ELSE xored

sha3_update(c, data) == FoldLeft(AbsorbByte, c, data)

\* The padding 0x06 and 0x80, as abstract bits that no data byte has.
PadFirst == -1
PadLast == -2

sha3_final(c) ==
  Permuted([c EXCEPT !.block[c.pt] = Differ(@, {PadFirst}),
                     !.block[c.rsiz - 1] = Differ(@, {PadLast})]).done
=============================================================================
