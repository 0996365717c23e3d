----------------------------- MODULE ScalarOps -----------------------------
(***************************************************************************)
(* The arithmetic of scalars that keys and signatures of blocks are made   *)
(* of (crypto-ops.c): sums, differences and products modulo the order      *)
(*    l = 2^(W*N) + 27742317777372353535851937790883648493                 *)
(* of the base point, computed on limbs of W bits: 21, and N of them, 12,  *)
(* or 2*N for what has not been reduced.  2^(W*N) is congruent to a number *)
(* of N/2 signed limbs, the digits Mu; a limb past the N-th is taken away  *)
(* by adding Mu times it further down (a fold), and between folds carries  *)
(* keep the limbs small.  Values are numbers here and not rows of bytes;   *)
(* the top limb of a value takes the bits that the limbs have no room for. *)
(***************************************************************************)
EXTENDS Integers

CONSTANTS W,      \* bits of a limb: 21
          N,      \* limbs of a reduced value: 12
          Mu,     \* 2^(W*N) is congruent to the number with these limbs
          X,      \* bits that a value of 32 bytes has beyond W*N: 4
          Word,   \* bits of an integer, without its sign: 63
          V,      \* bits of the words sc_check compares: 32
          Wide,   \* bound: values of 64 bytes to reduce
          Narrow, \* bound: values of 32 bytes to reduce and to check
          Scalars \* bound: operands

D == N \div 2
B == 2 ^ W

(* The sum of f over 0..n.                                                 *)
SumTo(f, n) == LET sum[i \in 0..n] == IF i = 0 THEN f[0] ELSE sum[i - 1] + f[i] IN sum[n]

L == 2 ^ (W * N) - SumTo([j \in 0..(D - 1) |-> Mu[j + 1] * 2 ^ (W * j)], D - 1)

ScalarsAssumption == /\ {W, N, X, Word, V} \subseteq Nat \ {0} /\ N % 2 = 0
                     /\ DOMAIN Mu = 1..D /\ \A j \in 1..D : Mu[j] \in -(B \div 2)..(B \div 2)
                     /\ (W * N + X) % V = 0
                     /\ Wide \subseteq 0..(2 ^ (2 * (W * N + X)) - 1)
                     /\ Narrow \subseteq 0..(2 ^ (W * N + X) - 1) /\ Scalars \subseteq Narrow

Places == 0..(2 * N - 1)

VARIABLES op,   \* the function that was called
          a, b, c, \* its operands
          s,    \* the limbs
          pc    \* the pass that is next, "done" after the last

vars == <<op, a, b, c, s, pc>>

Ops == {"reduce", "reduce32", "add", "sub", "mul", "muladd", "mulsub"}

TypeOK == /\ op \in Ops /\ (a \in Wide \/ a \in Narrow) /\ \A x \in {b, c} : x = 0 \/ x \in Scalars
          /\ s \in [Places -> Int]
          /\ pc \in {"load", "all", "high", "mid", "fold", "low", "top", "floor", "last", "least", "done"}

Init == /\ op \in Ops /\ pc = "load" /\ s = [i \in Places |-> 0]
        /\ \/ op = "reduce" /\ a \in Wide /\ b = 0 /\ c = 0
           \/ op = "reduce32" /\ a \in Narrow /\ b = 0 /\ c = 0
           \/ op \in {"add", "sub", "mul"} /\ a \in Scalars /\ b \in Scalars /\ c = 0
           \/ op \in {"muladd", "mulsub"} /\ a \in Scalars /\ b \in Scalars /\ c \in Scalars

---------------------------------------------------------------------------
(* The limbs of a value, the last of n unmasked.                           *)
Limbs(x, n) == [i \in Places |-> IF i < n - 1 THEN (x \div 2 ^ (W * i)) % B
                                 ELSE IF i = n - 1 THEN x \div 2 ^ (W * i) ELSE 0]

Column(x, y, i) == SumTo([j \in 0..(N - 1) |-> IF i - j \in 0..(N - 1) THEN x[j] * y[i - j] ELSE 0], N - 1)
Product(x, y)   == [i \in Places |-> Column(x, y, i)]

Plus(x, y)  == [i \in Places |-> x[i] + y[i]]
Minus(x, y) == [i \in Places |-> x[i] - y[i]]

Loads(limbs, first) == pc = "load" /\ s' = limbs /\ pc' = first /\ UNCHANGED <<op, a, b, c>>

Reduce   == op = "reduce"   /\ Loads(Limbs(a, 2 * N), "high")
Reduce32 == op = "reduce32" /\ Loads(Limbs(a, N), "low")
Add      == op = "add"      /\ Loads(Plus(Limbs(a, N), Limbs(b, N)), "low")
Sub      == op = "sub"      /\ Loads(Minus(Limbs(a, N), Limbs(b, N)), "low")
Mul      == op = "mul"      /\ Loads(Product(Limbs(a, N), Limbs(b, N)), "all")
MulAdd   == op = "muladd"   /\ Loads(Plus(Limbs(c, N), Product(Limbs(a, N), Limbs(b, N))), "all")
MulSub   == op = "mulsub"   /\ Loads(Minus(Limbs(c, N), Product(Limbs(a, N), Limbs(b, N))), "all")

---------------------------------------------------------------------------

(* The carry of a limb, to the nearest.                                    *)
Rounded(x) == (x + B \div 2) \div B

(* Carries out of some limbs, no two of them neighbours, so that the order *)
(* is of no matter.                                                        *)
CarryOut(x, from) == [i \in Places |-> x[i] - (IF i \in from THEN Rounded(x[i]) * B ELSE 0)
                                            + (IF i - 1 \in from THEN Rounded(x[i - 1]) ELSE 0)]

\* bug: the limbs stay as they are
CarryNot(x, lo, hi) == x

(* First those at even places, then those at odd ones.                     *)
Carry(x, lo, hi) == CarryOut(CarryOut(x, {i \in lo..hi : (i - lo) % 2 = 0}), {i \in lo..hi : (i - lo) % 2 = 1})

(* The limbs from one place to another, past the N-th, are folded.         *)
Fold(x, lo, hi) ==
    [i \in Places |-> IF i \in lo..hi THEN 0
                      ELSE x[i] + SumTo([j \in 0..(D - 1) |-> IF i - j + N \in lo..hi THEN x[i - j + N] * Mu[j + 1]
                                                              ELSE 0], D - 1)]

(* Carries to the lower one, from the first limb up to one of them.        *)
Floor(x, hi) == LET out[i \in 0..hi] == (x[i] + (IF i = 0 THEN 0 ELSE out[i - 1])) \div B
                IN  [i \in Places |-> x[i] - (IF i <= hi THEN out[i] * B ELSE 0)
                                           + (IF i - 1 \in 0..hi THEN out[i - 1] ELSE 0)]

Pass(at, to, limbs) == pc = at /\ pc' = to /\ s' = limbs /\ UNCHANGED <<op, a, b, c>>

CarryAll  == Pass("all", "high", Carry(s, 0, 2 * N - 2))
FoldHigh  == Pass("high", "mid", Fold(s, N + D, 2 * N - 1))
CarryMid  == Pass("mid", "fold", Carry(s, D, N + D - 2))
FoldMid   == Pass("fold", "low", Fold(s, N, N + D - 1))
CarryLow  == Pass("low", "top", Carry(s, 0, N - 1))
FoldTop   == Pass("top", "floor", Fold(s, N, N))
FloorAll  == Pass("floor", "last", Floor(s, N - 1))
FoldLast  == Pass("last", "least", Fold(s, N, N))
FloorLast == Pass("least", "done", Floor(s, N - 2))

(* What is left above the N-th limb is folded and the carries are brought  *)
(* down, twice.                                                            *)
Settle == FoldTop \/ FloorAll \/ FoldLast \/ FloorLast
Finish == CarryLow \/ Settle

Done == pc = "done" /\ UNCHANGED vars

(* The number that the bytes written from the limbs name.                  *)
Written == SumTo([i \in Places |-> s[i] * 2 ^ (W * i)], N - 1)

Next == \/ Reduce \/ Reduce32 \/ Add \/ Sub \/ Mul \/ MulAdd \/ MulSub
        \/ CarryAll \/ FoldHigh \/ CarryMid \/ FoldMid \/ Finish
        \/ Done
Spec == Init /\ [][Next]_vars

---------------------------------------------------------------------------
Value(x) == SumTo([i \in Places |-> x[i] * (2 ^ (W * i) % L)], 2 * N - 1)

Want == CASE op \in {"reduce", "reduce32"} -> a
          [] op = "add" -> a + b
          [] op = "sub" -> a - b
          [] op = "mul" -> (a % L) * (b % L)
          [] op = "muladd" -> (a % L) * (b % L) + c
          [] op = "mulsub" -> c - (a % L) * (b % L)

(* No pass changes what the limbs stand for, modulo the order.             *)
ValueKept == pc # "load" => (Value(s) - Want) % L = 0

(* No limb outgrows an integer in any pass.                                *)
LimbsFit == \A i \in Places : s[i] > -(2 ^ Word) /\ s[i] < 2 ^ Word

(* What comes out is the remainder itself, its limbs whole: the bytes that *)
(* are written name one number below the order.                            *)
Canonical == pc = "done" => /\ \A i \in Places : s[i] \in (IF i < N - 1 THEN 0..(B - 1)
                                                          ELSE IF i = N - 1 THEN 0..B ELSE {0})
                            /\ Written < L

---------------------------------------------------------------------------
(* sc_check: the words of a value are compared with those of the order,    *)
(* the signs weighted.  A sum below zero refuses.                          *)
TopWord == (W * N + X) \div V - 1
Words   == 0..TopWord
WordOf(x, j) == (x \div 2 ^ (V * j)) % 2 ^ V
Signum(x) == IF x > 0 THEN 1 ELSE IF x < 0 THEN -1 ELSE 0

Check(x) == SumTo([j \in Words |-> Signum(WordOf(L, j) - WordOf(x, j)) * 2 ^ j], TopWord) >= 0

(* What sc_check passes is below the order, or the order itself: of all    *)
(* the values that are no remainders it is the one that gets through.      *)
CheckExact == a \in Narrow => (Check(a) <=> a <= L)

(* A result always passes.                                                 *)
ResultPasses == pc = "done" => Check(Written)
=============================================================================
