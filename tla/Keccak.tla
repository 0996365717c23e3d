------------------------------- MODULE Keccak -------------------------------
(***************************************************************************)
(* The hash of addresses, block templates and signatures                   *)
(* (base/crypto/keccak.cpp), at its real size: the sponge that takes a     *)
(* message block by block, and the rounds of the permutation, which work   *)
(* in place.  A lane of 64 bits is the set of the bits that are set, a     *)
(* byte likewise.                                                          *)
(***************************************************************************)
EXTENDS Integers, FiniteSets, SequencesExt

CONSTANTS Messages,     \* sequences of bytes
          MdLens,       \* lengths of digests: 32, or 200 for the whole state
          Known         \* pairs of a message and its digest of 32 bytes

KeccakAssumption ==
    /\ \A m \in Messages : \A i \in DOMAIN m : m[i] \subseteq 0..7
    /\ MdLens \subseteq 28..200

VARIABLES msg, mdlen,
          at,         \* bytes absorbed
          phase,      \* "absorb", "rounds", "last" (rounds after the last block), "done"
          round,
          st,         \* the lanes
          ref         \* the lanes by the definition of Keccak

vars == <<msg, mdlen, at, phase, round, st, ref>>

Rounds == 24
Bits == 0..63
Lanes == 0..24
Xor(a, b) == (a \ b) \cup (b \ a)
Not(a) == Bits \ a
Rotl(a, n) == {(i + n) % 64 : i \in a}
Fold(F(_, _), s, seq) == FoldLeft(F, s, seq)
\* In place: a lane is written, the others stay
Put(s, i, lane) == [s EXCEPT ![i] = lane]

-----------------------------------------------------------------------------
(* keccakf *)

\* keccakf_rndc
RoundConstants ==
    << {0}, {1,7,15}, {1,3,7,15,63}, {15,31,63},
      {0,1,3,7,15}, {0,31}, {0,7,15,31,63}, {0,3,15,63},
      {1,3,7}, {3,7}, {0,3,15,31}, {1,3,31},
      {0,1,3,7,15,31}, {0,1,3,7,63}, {0,3,7,15,63}, {0,1,15,63},
      {1,15,63}, {7,63}, {1,3,15}, {1,3,31,63},
      {0,7,15,31,63}, {7,15,63}, {0,31}, {3,15,31,63} >>

Theta(s) ==
    LET bc == [x \in 0..4 |-> Xor(Xor(Xor(Xor(s[x], s[x + 5]), s[x + 10]), s[x + 15]), s[x + 20])]
        t == [x \in 0..4 |-> Xor(bc[(x + 4) % 5], Rotl(bc[(x + 1) % 5], 1))]
    IN [i \in Lanes |-> Xor(s[i], t[i % 5])]

\* The assignments of Rho Pi in their order: to, from, by.  The last one takes
\* the lane 1 as it was before the first
Moves ==
    << <<1,6,44>>, <<6,9,20>>, <<9,22,61>>, <<22,14,39>>, <<14,20,18>>, <<20,2,62>>,
      <<2,12,43>>, <<12,13,25>>, <<13,19,8>>, <<19,23,56>>, <<23,15,41>>, <<15,4,27>>,
      <<4,24,14>>, <<24,21,2>>, <<21,8,55>>, <<8,16,45>>, <<16,5,36>>, <<5,3,28>>,
      <<3,18,21>>, <<18,17,15>>, <<17,11,10>>, <<11,7,6>>, <<7,10,3>>, <<10,1,1>> >>

\* Bug: the lane that the first assignment overwrites is not kept
BugRhoPi(s) == Fold(LAMBDA a, m: Put(a, m[1], Rotl(a[m[2]], m[3])), s, Moves)

RhoPi(s) ==
    Fold(LAMBDA a, m: Put(a, m[1], Rotl(IF m[2] = 1 THEN s[1] ELSE a[m[2]], m[3])), s, Moves)

\* A row of Chi, in place but for its first two lanes
ChiRow(s, j) ==
    LET From(a, k) == IF k > 4 THEN s[j + k - 5] ELSE a[j + k]
    IN Fold(LAMBDA a, i: Put(a, j + i, Xor(a[j + i], Not(From(a, i + 1)) \cap From(a, i + 2))),
            s, <<0, 1, 2, 3, 4>>)
Chi(s) == Fold(ChiRow, s, <<0, 5, 10, 15, 20>>)

Iota(s, r) == Put(s, 0, Xor(s[0], RoundConstants[r + 1]))

\* A round of keccakf
KeccakRound(s, r) == Iota(Chi(RhoPi(Theta(s))), r)

-----------------------------------------------------------------------------
(* keccak *)

\* rsiz: the bytes of a block
Rate == IF mdlen = 200 THEN 136 ELSE 200 - 2 * mdlen
Left == Len(msg) - at

Zero == [i \in Lanes |-> {}]
\* A block of bytes read as 64-bit words
Words(block) ==
    [i \in Lanes |-> IF 8 * i < Len(block)
                     THEN UNION {{8 * j + b : b \in block[8 * i + j + 1]} : j \in 0..7} ELSE {}]
Into(s, block) == LET w == Words(block) IN [i \in Lanes |-> Xor(s[i], w[i])]

\* temp: what is left, a one, zeroes, and the last bit
Temp ==
    LET bytes == SubSeq(msg, at + 1, Len(msg)) \o <<{0}>>
        temp == bytes \o [i \in 1..(Rate - Len(bytes)) |-> {}]
    IN [temp EXCEPT ![Rate] = @ \cup {7}]

-----------------------------------------------------------------------------
(* The definition: a state of five by five lanes, the lane (x, y) at x + 5 y *)

\* Where the lane (1, 0) goes when (x, y) becomes (y, 2 x + 3 y) again and again
Walk[t \in 0..23] == IF t = 0 THEN <<1, 0>> ELSE LET w == Walk[t - 1] IN <<w[2], (2 * w[1] + 3 * w[2]) % 5>>
Offset ==
    [i \in Lanes |-> IF i = 0 THEN 0
                     ELSE LET t == CHOOSE k \in 0..23 : Walk[k] = <<i % 5, i \div 5>>
                          IN (((t + 1) * (t + 2)) \div 2) % 64]

\* The register whose output the round constants are made of
Lfsr[t \in 0..167] ==
    IF t = 0 THEN {0}
    ELSE LET up == {b + 1 : b \in Lfsr[t - 1]}
         IN IF 8 \in up THEN Xor(up \ {8}, {0, 4, 5, 6}) ELSE up
Constants ==
    [r \in 0..(Rounds - 1) |-> {2^j - 1 : j \in {k \in 0..5 : 0 \in Lfsr[k + 7 * r]}}
                               \cup IF 0 \in Lfsr[6 + 7 * r] THEN {63} ELSE {}]

Column(s, x) == Xor(Xor(Xor(Xor(s[x], s[x + 5]), s[x + 10]), s[x + 15]), s[x + 20])
DefinedRound(s, r) ==
    LET c == [x \in 0..4 |-> Column(s, x)]
        a == [i \in Lanes |-> Xor(s[i], Xor(c[(i + 4) % 5], Rotl(c[(i + 1) % 5], 1)))]
        \* (y, 2x + 3y) has the lane (x, y): x is the column X + 3 Y of the target (X, Y)
        From(i) == LET x == ((i % 5) + 3 * (i \div 5)) % 5 IN x + 5 * (i % 5)
        b == [i \in Lanes |-> Rotl(a[From(i)], Offset[From(i)])]
        At(x, y) == b[(x % 5) + 5 * y]
    IN [i \in Lanes |->
          LET x == i % 5
              y == i \div 5
              v == Xor(At(x, y), Not(At(x + 1, y)) \cap At(x + 2, y))
          IN IF i = 0 THEN Xor(v, Constants[r]) ELSE v]

\* The whole message padded, then cut into blocks
Padded ==
    LET zeroes == (Rate - ((Len(msg) + 1) % Rate)) % Rate
        all == msg \o <<{0}>> \o [i \in 1..zeroes |-> {}]
    IN [all EXCEPT ![Len(all)] = @ \cup {7}]
BlockAt(n) == SubSeq(Padded, n + 1, n + Rate)

-----------------------------------------------------------------------------
Init ==
    /\ msg \in Messages /\ mdlen \in MdLens
    /\ at = 0 /\ round = 0
    /\ phase = "absorb"
    /\ st = Zero /\ ref = Zero

\* inlen >= rsiz
Whole == Left >= Rate

Absorb ==
    /\ phase = "absorb" /\ Whole
    /\ st' = Into(st, SubSeq(msg, at + 1, at + Rate))
    /\ ref' = Into(ref, BlockAt(at))
    /\ at' = at + Rate
    /\ phase' = "rounds" /\ round' = 0
    /\ UNCHANGED <<msg, mdlen>>

LastBlock ==
    /\ phase = "absorb" /\ ~Whole
    /\ st' = Into(st, Temp)
    /\ ref' = Into(ref, BlockAt(at))
    /\ at' = Len(msg)
    /\ phase' = "last" /\ round' = 0
    /\ UNCHANGED <<msg, mdlen>>

Permute ==
    /\ phase \in {"rounds", "last"} /\ round < Rounds
    /\ st' = KeccakRound(st, round)
    /\ ref' = DefinedRound(ref, round)
    /\ round' = round + 1
    /\ phase' = IF round' < Rounds THEN phase ELSE IF phase = "last" THEN "done" ELSE "absorb"
    /\ UNCHANGED <<msg, mdlen, at>>

Next == Absorb \/ LastBlock \/ Permute
Spec == Init /\ [][Next]_vars

-----------------------------------------------------------------------------
\* The first bytes of the state
Digest == [k \in 1..(IF mdlen < 32 THEN mdlen ELSE 32) |->
              {b \in 0..7 : 8 * ((k - 1) % 8) + b \in st[(k - 1) \div 8]}]

\* The temporary block has room for what is left and a byte of padding
TypeOK ==
    /\ at \in 0..Len(msg) /\ round \in 0..Rounds
    /\ phase \in {"absorb", "rounds", "last", "done"}
    /\ DOMAIN st = Lanes /\ \A i \in Lanes : st[i] \subseteq Bits
    /\ Rate % 8 = 0 /\ Rate <= 144
    /\ phase = "absorb" /\ ~Whole => Len(Temp) = Rate

\* After every block and every round the lanes are those of the definition, of
\* which the code has worked out the rotations, the order and the constants
AsDefined == st = ref

\* The digests of known messages
DigestKnown ==
    phase = "done" /\ mdlen = 32 => \A k \in Known : k[1] = msg => Digest = k[2]
=============================================================================
