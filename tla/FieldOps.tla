------------------------------ MODULE FieldOps ------------------------------
(***************************************************************************)
(* The arithmetic of coordinates (crypto-ops.c, fe_): numbers modulo       *)
(* 2^255 - 19 as ten signed limbs that stand at every 25.5 bits, so that   *)
(* even limbs have A bits, 26, and odd ones one less.  Sums are left as    *)
(* they are; a product is carried, along two chains at once, the last limb *)
(* into the first times 19.  What the functions take and return is bounded *)
(* in multiples of what a product is bounded by: one for a product, two    *)
(* for a sum of two, and three is the most that may be multiplied.         *)
(*                                                                         *)
(* The chains start at the first limb and at the one before the middle, so *)
(* there are 2*H + 2 limbs: H is 4.                                        *)
(*                                                                         *)
(* The two powers of a coordinate (fe_invert, fe_divpowm1) are long chains *)
(* of squares and products, most of them in loops whose counts must all be *)
(* right.  Here a register of theirs holds the exponents of what was       *)
(* given, u and v, as remainders by enough numbers to know them: the       *)
(* numbers' product is above every exponent, so these are at their real    *)
(* size.                                                                   *)
(***************************************************************************)
EXTENDS Integers, FiniteSets, Sequences

Lists == INSTANCE SequencesExt

CONSTANTS A,        \* bits of a limb at an even place: 26
          H,        \* where the second chain starts: 4
          C,        \* the prime is so much below the power of two: 19
          Slack,    \* what a product's odd limb may exceed its bits by: 0.01*2^24
          Word,     \* bits of an integer, without its sign: 63
          HalfWord, \* ... of half one: 31
          Moduli,   \* divisors of the prime's stand-in: congruence is checked by them
          Cuts,     \* the bits at which the parts read from bytes begin: 0, 32, 56, ..
          Left,     \* bound: first operands of products, limbs in halves of the bound
          Right,    \* ... and second ones
          Near,     \* bound: limbs to write as bytes, the prime and its neighbours
          Texts,    \* bound: parts of a number read from bytes
          RealBits, \* a power's exponents are of the prime 2^RealBits - RealC:
          RealC,    \* ... 255 and 19
          Bases     \* ... by numbers without a common divisor

n == 2 * H + 2
Places == 0..(n - 1)
Bits(i) == IF i % 2 = 0 THEN A ELSE A - 1
At(i)   == (i * (2 * A - 1) + 1) \div 2       \* the bit a limb begins at
T == At(n)

Unit(i)     == 2 ^ (Bits(i) - 1) + Slack * (IF i % 2 = 0 THEN 2 ELSE 1)
InRange(x, m) == \A i \in Places : x[i] >= -m * Unit(i) /\ x[i] <= m * Unit(i)

FieldAssumption == /\ {A, H, C, Slack, Word, HalfWord} \subseteq Nat \ {0} /\ H > 1
                   /\ Moduli \subseteq Nat \ {0} /\ DOMAIN Cuts = 0..n /\ Cuts[n] = T
                   /\ \A i \in Places : Cuts[i] >= At(i) /\ Cuts[i] < Cuts[i + 1]
                   /\ \A x \in Left \cup Right : x \in [Places -> -2..2]
                   /\ RealBits \in Nat /\ RealC \in Nat /\ RealBits > 3
                   /\ Bases \subseteq 2..46340 /\ \A m \in Bases : \A d \in 2..250 : m % d # 0
                   /\ \A x \in Texts \cup Near : DOMAIN x = Places /\ (x \in Near => InRange(x, 2))

VARIABLES op,   \* "add", "sub", "neg", "mul", "sq", "sq2", "tobytes", "frombytes", "invert", "divpow"
          f, g, \* the operands; of a power, f is what its registers hold
          h,    \* the limbs of the result
          pc,   \* "load", "chain", "carry", "odd", "even", "floor", "done", "refused"
          k     \* carries of a product, or steps of a power, that have been done

vars == <<op, f, g, h, pc, k>>

Products == {"mul", "sq", "sq2"}
Chains   == {"invert", "divpow"}

(* Operands at so many units, halved by the numbers that are given.        *)
Scaled(x, m) == [i \in Places |-> (x[i] * m * Unit(i)) \div 2]
Zero == [i \in Places |-> 0]

(* The exponents of u and v, modulo each number.                           *)
Exponents(x, y) == [m \in Bases |-> <<x % m, y % m>>]

Init == /\ pc = "load" /\ k = 0 /\ h = Zero
        /\ \/ op \in Chains /\ g = Zero /\ f = [u |-> Exponents(1, 0), v |-> Exponents(0, 1)]
           \/ op = "mul" /\ \E x \in Left, y \in Right : f = Scaled(x, 3) /\ g = Scaled(y, 3)
           \/ op \in {"add", "sub"} /\ \E x \in Left, y \in Right : f = Scaled(x, 1) /\ g = Scaled(y, 2)
           \/ op \in {"sq", "sq2"} /\ g = Zero /\ \E x \in Left : f = Scaled(x, 3)
           \/ op = "neg" /\ g = Zero /\ \E x \in Left : f = Scaled(x, 1)
           \/ op = "tobytes" /\ g = Zero /\ (f \in Near \/ \E x \in Left : f = Scaled(x, 2))
           \/ op = "frombytes" /\ g = Zero /\ f \in Texts

---------------------------------------------------------------------------
(* The sum of x over the places.                                           *)
Sum(x) == LET sum[i \in Places] == IF i = 0 THEN x[0] ELSE sum[i - 1] + x[i] IN sum[n - 1]

(* Two odd limbs begin half a bit late each: their product counts double.  *)
Odd(i, j) == IF i % 2 = 1 /\ j % 2 = 1 THEN 2 ELSE 1

(* What goes past the last limb comes in at the first, times C.            *)
Wrap(i, j) == IF i + j >= n THEN C ELSE 1

(* The integers that are multiplied, the factors at the one they are put   *)
(* at by the code: 2 at the first, C at the second.                        *)
Column(x, y, i) == Sum([j \in Places |-> LET l == (i - j) % n IN (Odd(j, l) * x[j]) * (Wrap(j, l) * y[l])])
Multiplied(x, y) == [i \in Places |-> Column(x, y, i)]

(* fe_sq: every product of two limbs is computed once.                     *)
Half(x, i) == Sum([j \in Places |-> LET l == (i - j) % n
                                    IN  IF j > l THEN 0
                                        ELSE (IF j < l THEN 2 ELSE 1) * Odd(j, l) * Wrap(j, l) * x[j] * x[l]])
Squared(x) == [i \in Places |-> Half(x, i)]

Load == /\ pc = "load" /\ UNCHANGED <<op, f, g, k>>
        /\ CASE op = "add" -> pc' = "done" /\ h' = [i \in Places |-> f[i] + g[i]]
             [] op = "sub" -> pc' = "done" /\ h' = [i \in Places |-> f[i] - g[i]]
             [] op = "neg" -> pc' = "done" /\ h' = [i \in Places |-> -f[i]]
             [] op = "mul" -> pc' = "carry" /\ h' = Multiplied(f, g)
             [] op = "sq"  -> pc' = "carry" /\ h' = Squared(f)
             [] op = "sq2" -> pc' = "carry" /\ h' = [i \in Places |-> 2 * Squared(f)[i]]
             [] op \in Chains -> pc' = "chain" /\ h' = h
             [] OTHER -> FALSE

---------------------------------------------------------------------------
Rounded(x, i) == (x + 2 ^ (Bits(i) - 1)) \div 2 ^ Bits(i)

(* One carry; the last limb's is C times as much at the first.             *)
CarryAt(x, i) == LET out == Rounded(x[i], i)
                 IN  [x EXCEPT ![i] = @ - out * 2 ^ Bits(i),
                               ![(i + 1) % n] = @ + out * (IF i = n - 1 THEN C ELSE 1)]

(* The carries of a product: the chains from 0 and from H step by step, so *)
(* that H carries twice, then the last limb, then the first once more.     *)
Last == H + 2

CarryBoth  == /\ pc = "carry" /\ k <= H
              /\ h' = CarryAt(CarryAt(h, k), H + k)
              /\ k' = k + 1 /\ pc' = (IF k = Last THEN "done" ELSE "carry") /\ UNCHANGED <<op, f, g>>
CarryClose == /\ pc = "carry" /\ k > H
              /\ h' = CarryAt(h, IF k = H + 1 THEN n - 1 ELSE 0)
              /\ k' = k + 1 /\ pc' = (IF k = Last THEN "done" ELSE "carry") /\ UNCHANGED <<op, f, g>>

---------------------------------------------------------------------------

(* fe_tobytes: how often the prime goes into the number, from the last     *)
(* limb and then all of them, and the number without that.                 *)
Quotient(x) ==
    LET q[i \in -1..(n - 1)] == IF i = -1 THEN (C * x[n - 1] + 2 ^ (Bits(n - 1) - 1)) \div 2 ^ Bits(n - 1)
                                ELSE (x[i] + q[i - 1]) \div 2 ^ Bits(i)
    IN  q[n - 1]

ToBytes == /\ pc = "load" /\ op = "tobytes" /\ pc' = "floor"
           /\ h' = [f EXCEPT ![0] = @ + C * Quotient(f)]
           /\ UNCHANGED <<op, f, g, k>>

FloorAll == /\ pc = "floor" /\ pc' = "done"
            /\ LET out[i \in Places] == (h[i] + (IF i = 0 THEN 0 ELSE out[i - 1])) \div 2 ^ Bits(i)
               IN  h' = [i \in Places |-> h[i] + (IF i = 0 THEN 0 ELSE out[i - 1]) - out[i] * 2 ^ Bits(i)]
            /\ UNCHANGED <<op, f, g, k>>

---------------------------------------------------------------------------
(* ge_frombytes_vartime: a number that is no remainder is refused.         *)
Full(i) == 2 ^ (Cuts[i + 1] - Cuts[i]) - 1

NoRemainder(x) == (\A i \in Places \ {0} : x[i] = Full(i)) /\ x[0] >= Full(0) - C + 1

FromBytes == /\ pc = "load" /\ op = "frombytes" /\ UNCHANGED <<op, f, g, k>>
             /\ IF NoRemainder(f) THEN pc' = "refused" /\ UNCHANGED h
                ELSE pc' = "odd" /\ h' = CarryAt([i \in Places |-> f[i] * 2 ^ (Cuts[i] - At(i))], n - 1)

(* Limbs of one kind carry, no two of them neighbours.                     *)
CarryEach(x, from) == [i \in Places |-> x[i] - (IF i \in from THEN Rounded(x[i], i) * 2 ^ Bits(i) ELSE 0)
                                             + (IF i - 1 \in from THEN Rounded(x[i - 1], i - 1) ELSE 0)]

OddPass  == /\ pc = "odd" /\ pc' = "even" /\ UNCHANGED <<op, f, g, k>>
            /\ h' = CarryEach(h, {i \in Places : i % 2 = 1 /\ i < n - 1})
EvenPass == /\ pc = "even" /\ pc' = "done" /\ UNCHANGED <<op, f, g, k>>
            /\ h' = CarryEach(h, {i \in Places : i % 2 = 0})

---------------------------------------------------------------------------
(* One instruction: what is multiplied and where it goes; and a loop of    *)
(* squares in one register.                                                *)
Mul(d, a, b) == << [d |-> d, a |-> a, b |-> b] >>
Sq(d, a)     == Mul(d, a, a)
Loop(d, m)   == [i \in 1..m |-> Sq(d, d)[1]]

Invert == Lists!FlattenSeq(
    << Sq("t0", "u"), Sq("t1", "t0"), Sq("t1", "t1"), Mul("t1", "u", "t1"), Mul("t0", "t0", "t1"),
       Sq("t2", "t0"), Mul("t1", "t1", "t2"),
       Sq("t2", "t1"), Loop("t2", 4), Mul("t1", "t2", "t1"),
       Sq("t2", "t1"), Loop("t2", 9), Mul("t2", "t2", "t1"),
       Sq("t3", "t2"), Loop("t3", 19), Mul("t2", "t3", "t2"),
       Sq("t2", "t2"), Loop("t2", 9), Mul("t1", "t2", "t1"),
       Sq("t2", "t1"), Loop("t2", 49), Mul("t2", "t2", "t1"),
       Sq("t3", "t2"), Loop("t3", 99), Mul("t2", "t3", "t2"),
       Sq("t2", "t2"), Loop("t2", 49), Mul("t1", "t2", "t1"),
       Sq("t1", "t1"), Loop("t1", 4), Mul("out", "t1", "t0") >>)

DivPow == Lists!FlattenSeq(
    << Sq("v3", "v"), Mul("v3", "v3", "v"), Sq("uv7", "v3"), Mul("uv7", "uv7", "v"), Mul("uv7", "uv7", "u"),
       Sq("t0", "uv7"), Sq("t1", "t0"), Sq("t1", "t1"), Mul("t1", "uv7", "t1"), Mul("t0", "t0", "t1"),
       Sq("t0", "t0"), Mul("t0", "t1", "t0"),
       Sq("t1", "t0"), Loop("t1", 4), Mul("t0", "t1", "t0"),
       Sq("t1", "t0"), Loop("t1", 9), Mul("t1", "t1", "t0"),
       Sq("t2", "t1"), Loop("t2", 19), Mul("t1", "t2", "t1"), Loop("t1", 10), Mul("t0", "t1", "t0"),
       Sq("t1", "t0"), Loop("t1", 49), Mul("t1", "t1", "t0"),
       Sq("t2", "t1"), Loop("t2", 99), Mul("t1", "t2", "t1"), Loop("t1", 50), Mul("t0", "t1", "t0"),
       Sq("t0", "t0"), Sq("t0", "t0"), Mul("t0", "t0", "uv7"),
       Mul("t0", "t0", "v3"), Mul("out", "t0", "u") >>)

Program == IF op = "invert" THEN Invert ELSE DivPow

Added(x, y) == [m \in Bases |-> <<(x[m][1] + y[m][1]) % m, (x[m][2] + y[m][2]) % m>>]

Instruction == /\ pc = "chain"
               /\ LET s == Program[k + 1]
                  IN  /\ {s.a, s.b} \subseteq DOMAIN f
                      /\ f' = [x \in DOMAIN f \cup {s.d} |-> IF x = s.d THEN Added(f[s.a], f[s.b]) ELSE f[x]]
               /\ k' = k + 1 /\ pc' = (IF k + 1 = Len(Program) THEN "done" ELSE "chain")
               /\ UNCHANGED <<op, g, h>>

Ended == pc \in {"done", "refused"} /\ UNCHANGED vars

Next == Load \/ Instruction \/ CarryBoth \/ CarryClose \/ ToBytes \/ FloorAll \/ FromBytes \/ OddPass \/ EvenPass \/ Ended
Spec == Init /\ [][Next]_vars

---------------------------------------------------------------------------
Registers == {"u", "v", "v3", "uv7", "t0", "t1", "t2", "t3", "out"}

TypeOK == /\ op \in Products \cup Chains \cup {"add", "sub", "neg", "tobytes", "frombytes"}
          /\ IF op \in Chains THEN DOMAIN f \subseteq Registers /\ \A x \in DOMAIN f : f[x] \in [Bases -> Nat \X Nat]
             ELSE f \in [Places -> Int]
          /\ g \in [Places -> Int] /\ h \in [Places -> Int]
          /\ pc \in {"load", "chain", "carry", "odd", "even", "floor", "done", "refused"}
          /\ k \in 0..(IF op \in Chains THEN Len(Program) ELSE H + 3)

(* The number that limbs stand for, modulo m; the halves of the place that *)
(* an odd limb begins late are in At.                                      *)
Powers == [m \in Moduli |-> [e \in 0..T |-> LET p[d \in 0..e] == IF d = 0 THEN 1 % m ELSE (2 * p[d - 1]) % m IN p[e]]]
Value(x, m) == Sum([i \in Places |-> ((x[i] % m) * Powers[m][At(i)]) % m]) % m
LoadedValue(x, m) == Sum([i \in Places |-> ((x[i] % m) * Powers[m][Cuts[i]]) % m]) % m

Want(m) == CASE op = "add" -> Value(f, m) + Value(g, m)
             [] op = "sub" -> Value(f, m) - Value(g, m)
             [] op = "neg" -> -Value(f, m)
             [] op = "mul" -> Value(f, m) * Value(g, m)
             [] op = "sq"  -> Value(f, m) * Value(f, m)
             [] op = "sq2" -> ((2 * Value(f, m)) % m) * Value(f, m)
             [] op = "tobytes" -> Value(f, m)
             [] OTHER -> LoadedValue(f, m)

(* No step changes the number the limbs stand for, modulo the prime (but   *)
(* fe_tobytes', between the two that go together).                         *)
ValueKept == op \notin Chains /\ pc \notin {"load", "floor", "refused"} =>
                \A m \in Moduli : (Value(h, m) - Want(m)) % m = 0

(* Operands of three units never overflow: not a factor, which has half an *)
(* integer, and not a sum of products.                                     *)
Fits == pc \notin {"load", "refused"} =>
          /\ op \in Products =>
               \A i \in Places : \A x \in {f[i], g[i]} :
                 (C * x) * (IF op # "mul" /\ i % 2 = 1 THEN 2 ELSE 1) \in -(2 ^ HalfWord)..(2 ^ HalfWord)
          /\ \A i \in Places : h[i] \in -(2 ^ Word)..(2 ^ Word)

(* A product, and what was read from bytes, has one unit: it can be added  *)
(* to two others and multiplied without a carry.                           *)
OneUnit == pc = "done" /\ (op \in Products \/ op = "frombytes") => InRange(h, 1)

(* What is written as bytes is the remainder itself: limbs in their bits,  *)
(* and not the prime or more.                                              *)
Remainder == pc = "done" /\ op = "tobytes" =>
               /\ \A i \in Places : h[i] \in 0..(2 ^ Bits(i) - 1)
               /\ \E i \in Places \ {0} : h[i] < 2 ^ Bits(i) - 1
                  \/ h[0] < 2 ^ A - C

(* 2^e modulo m, from its half.                                            *)
Two == [m \in Bases |-> LET p[e \in 0..RealBits] ==
                               IF e = 0 THEN 1
                               ELSE (((p[e \div 2] * p[e \div 2]) % m) * (IF e % 2 = 1 THEN 2 ELSE 1)) % m
                         IN  p]

(* At the end the inverse has the exponent P - 2, and the quotient's root  *)
(* u v^3 (u v^7)^((P-5)/8).                                                *)
PowerExact ==
    op \in Chains /\ pc = "done" =>
      \A m \in Bases :
        LET e == Two[m][RealBits - 3] - (RealC + 5) \div 8
        IN  f["out"][m] = IF op = "invert" THEN <<(Two[m][RealBits] - RealC - 2) % m, 0>>
                          ELSE <<(1 + e) % m, (3 + 7 * e) % m>>

(* No register is read before it was written, and what was given is kept.  *)
WrittenFirst ==
    op \in Chains => /\ pc = "chain" => {Program[k + 1].a, Program[k + 1].b} \subseteq DOMAIN f
                     /\ f["u"] = Exponents(1, 0) /\ f["v"] = Exponents(0, 1)

(* One number has one text: what is read is below the prime.               *)
OneText == op = "frombytes" /\ pc \notin {"load", "refused"} =>
             \/ \E i \in Places \ {0} : f[i] < 2 ^ (Cuts[i + 1] - Cuts[i]) - 1
             \/ f[0] < 2 ^ Cuts[1] - C
=============================================================================
