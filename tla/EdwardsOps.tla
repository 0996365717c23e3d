----------------------------- MODULE EdwardsOps -----------------------------
(***************************************************************************)
(* Points of the curve -x^2 + y^2 = 1 + D x^2 y^2 (crypto-ops.c, ge_):     *)
(* multiples of points by scalars, points as text and back.  The forms of  *)
(* a point are those of the code: X, Y, Z of ge_p2, with T = XY/Z of       *)
(* ge_p3, two quotients of ge_p1p1, and what is ready to be added          *)
(* (ge_cached; ge_precomp, which has no Z, for it is 1).                   *)
(*                                                                         *)
(* A coordinate is a number modulo P and how many units its limbs may have *)
(* grown to (FieldOps): a product has one, a sum as many as its operands,  *)
(* and more than three must not be multiplied.                             *)
(*                                                                         *)
(* The contents of the tables in crypto-ops-data.c are the multiples they  *)
(* are meant to be: that is assumed here, not checked.                     *)
(***************************************************************************)
EXTENDS Integers, Sequences, FiniteSets

CONSTANTS P,        \* 2^255 - 19; remains 5 modulo 8
          D,        \* of the curve; not a square
          MA,       \* of the same curve in Montgomery's form: 486662
          Inverse,  \* modulo P, and 0 of 0
          Points,   \* of the curve
          Table,    \* their multiples
          Base,     \* the base point
          Bytes,    \* bytes of a scalar: 32
          Scalars,  \* bound: what ge_scalarmult_base is called with
          Multiples,\* bound: what ge_scalarmult is, <<scalar, point>>
          Combos,   \* bound: what the sums of multiples are, sequences of them
          Addends   \* bound: points that are added to a multiple of Base

Field == 0..(P - 1)
Power(x, e) == LET p[k \in 0..e] == IF k = 0 THEN 1 ELSE (p[k - 1] * x) % P IN p[e]
Root(x) == CHOOSE y \in Field : (y * y) % P = x % P

(* The affine points, and the group they are.                              *)
OnCurve(p) == (p[2] * p[2] - p[1] * p[1] - 1 - ((((D * p[1] * p[1]) % P) * p[2]) % P) * p[2]) % P = 0
Neutral == <<0, 1>>
Add(p, q) == LET t == (((D * p[1] * p[2]) % P) * ((q[1] * q[2]) % P)) % P
             IN  << ((p[1] * q[2] + p[2] * q[1]) * Inverse[(1 + t) % P]) % P,
                    ((p[2] * q[2] + p[1] * q[1]) * Inverse[(1 - t) % P]) % P >>
Order == Cardinality(Points)
Times(k, p) == Table[p][k % Order]

N == 2 * Bytes            \* digits of four bits

EdwardsAssumption ==
  /\ Inverse[0] = 0 /\ \A x \in Field \ {0} : Inverse[x] \in Field /\ (x * Inverse[x]) % P = 1
  /\ Points = {p \in Field \X Field : OnCurve(p)}
  /\ \A p \in Points : /\ Table[p][0] = Neutral
                       /\ \A k \in 1..(Order - 1) : Table[p][k] = Add(Table[p][k - 1], p)
  /\ {P, D, MA, Bytes} \subseteq Nat /\ P % 8 = 5 /\ \A x \in 2..(P - 1) : P % x # 0
  /\ \A x \in Field : (x * x - D) % P # 0 /\ \E y \in Field \ {0} : (y * y - 2 * MA * (MA + 2)) % P = 0
  /\ (D * (MA + 2) + MA - 2) % P = 0 /\ Base \in Points \ {Neutral} /\ Addends \subseteq Points
  /\ Scalars \subseteq 0..(2 ^ (8 * Bytes - 1) - 1)
  /\ \A m \in Multiples : m[1] \in 0..(2 ^ (8 * Bytes - 1) - 1) /\ m[2] \in Points
  /\ \A c \in Combos : \A j \in 1..Len(c) : c[j][1] \in 0..(2 ^ (8 * Bytes - 3) - 1) /\ c[j][2] \in Points

VARIABLES op,     \* "base", "mult", "combo", "tables", "text", "hash"
          terms,  \* scalars and points of which the sum is wanted
          pc, i,  \* where the operation is
          e,      \* digits of each scalar
          carry,  \* into the next digit
          tab,    \* multiples of each point, ready to be added
          r,      \* the point, in one of its forms
          text    \* a point as bytes: y, and whether x is odd

vars == <<op, terms, pc, i, e, carry, tab, r, text>>

---------------------------------------------------------------------------
One  == [v |-> 1, u |-> 1]
Nil  == [v |-> 0, u |-> 1]
Fe(x) == [v |-> x % P, u |-> 1]
TooWide == 99

FeAdd(f, g) == [v |-> (f.v + g.v) % P, u |-> f.u + g.u]
FeSub(f, g) == [v |-> (f.v - g.v) % P, u |-> f.u + g.u]
FeMul(f, g) == [v |-> (f.v * g.v) % P, u |-> IF f.u <= 3 /\ g.u <= 3 THEN 1 ELSE TooWide]
FeSq(f)     == FeMul(f, f)
FeSq2(f)    == [FeSq(f) EXCEPT !.v = (2 * @) % P]

FeNeg(f)    == [f EXCEPT !.v = (-@) % P]
FeInvert(f) == FeMul([f EXCEPT !.v = Inverse[@]], One)

---------------------------------------------------------------------------
(* ge_p1p1_to_p2, ge_p1p1_to_p3.                                           *)
ToP2(p) == [X |-> FeMul(p.X, p.T), Y |-> FeMul(p.Y, p.Z), Z |-> FeMul(p.Z, p.T)]
ToP3(p) == [X |-> FeMul(p.X, p.T), Y |-> FeMul(p.Y, p.Z), Z |-> FeMul(p.Z, p.T), T |-> FeMul(p.X, p.Y)]

P2Neutral == [X |-> Nil, Y |-> One, Z |-> One]
P3Neutral == [X |-> Nil, Y |-> One, Z |-> One, T |-> Nil]
P3(p)     == [X |-> Fe(p[1]), Y |-> Fe(p[2]), Z |-> One, T |-> Fe(p[1] * p[2])]

Dbl(p) == LET xx == FeSq(p.X)  yy == FeSq(p.Y)
              t0 == FeSq(FeAdd(p.X, p.Y))
              Y  == FeAdd(yy, xx)  Z == FeSub(yy, xx)
          IN  [X |-> FeSub(t0, Y), Y |-> Y, Z |-> Z, T |-> FeSub(FeSq2(p.Z), Z)]

Cached(p)  == [plus |-> FeAdd(p.Y, p.X), minus |-> FeSub(p.Y, p.X), Z |-> p.Z, t2d |-> FeMul(p.T, Fe(2 * D))]
Precomp(p) == [plus |-> Fe(p[2] + p[1]), minus |-> Fe(p[2] - p[1]), t2d |-> Fe(2 * D * ((p[1] * p[2]) % P))]
CachedNeutral  == [plus |-> One, minus |-> One, Z |-> One, t2d |-> Nil]
PrecompNeutral == [plus |-> One, minus |-> One, t2d |-> Nil]

Negated(q) == [q EXCEPT !.plus = q.minus, !.minus = q.plus, !.t2d = FeNeg(@)]

(* ge_add and ge_madd: the product of the Zs, twice.                       *)
TwiceZ(p, q) == LET z == IF "Z" \in DOMAIN q THEN FeMul(p.Z, q.Z) ELSE p.Z IN FeAdd(z, z)

Plus(p, q)  == LET a == FeMul(FeAdd(p.Y, p.X), q.plus)
                   b == FeMul(FeSub(p.Y, p.X), q.minus)
                   c == FeMul(q.t2d, p.T)
               IN  [X |-> FeSub(a, b), Y |-> FeAdd(a, b), Z |-> FeAdd(TwiceZ(p, q), c), T |-> FeSub(TwiceZ(p, q), c)]
(* ge_sub, ge_msub.                                                        *)
Minus(p, q) == LET a == FeMul(FeAdd(p.Y, p.X), q.minus)
                   b == FeMul(FeSub(p.Y, p.X), q.plus)
                   c == FeMul(q.t2d, p.T)
               IN  [X |-> FeSub(a, b), Y |-> FeAdd(a, b), Z |-> FeSub(TwiceZ(p, q), c), T |-> FeAdd(TwiceZ(p, q), c)]

(* Twice, as often; the last in the form that is asked for.                *)
Dbls(p, k) == LET d[j \in 1..k] == Dbl(IF j = 1 THEN p ELSE ToP2(d[j - 1])) IN d[k]

---------------------------------------------------------------------------
Nibbles(a) == [j \in 0..(N - 1) |-> (a \div 16 ^ j) % 16]
Bits(a)    == [j \in 0..(8 * Bytes - 1) |-> (a \div 2 ^ j) % 2]

Start(o, ts, p, digits) == /\ op = o /\ terms = ts /\ pc = p /\ e = digits
                           /\ i = 0 /\ carry = 0 /\ tab = <<>> /\ r = P3Neutral

Init == \/ text = <<0, 0>> /\ \E a \in Scalars : Start("base", << <<a, Base>> >>, "recode", <<Nibbles(a)>>)
        \/ text = <<0, 0>> /\ \E m \in Multiples : Start("mult", <<m>>, "recode", <<Nibbles(m[1])>>)
        \/ text = <<0, 0>> /\ \E c \in Combos, o \in {"combo", "tables"} :
               Start(o, c, "recode", [j \in 1..Len(c) |-> Bits(c[j][1])])
        \/ text \in Field \X {0, 1} /\ Start("text", <<>>, "written", <<>>)
        \/ text \in Field \X {0} /\ Start("hash", <<>>, "hash", <<>>)

CarryOf(x) == (x + 8) \div 16
Summed     == op \in {"combo", "tables"}

(* ge_scalarmult_base: one digit after the other, and the last takes what  *)
(* is left.                                                                *)
RecodeBase == /\ op = "base" /\ pc = "recode"
              /\ LET x == e[1][i] + carry
                 IN  IF i < N - 1
                     THEN /\ carry' = CarryOf(x) /\ e' = [e EXCEPT ![1][i] = x - 16 * CarryOf(x)]
                          /\ i' = i + 1 /\ UNCHANGED pc
                     ELSE /\ e' = [e EXCEPT ![1][i] = x]
                          /\ carry' = 0 /\ i' = 1 /\ pc' = "odd"
              /\ UNCHANGED <<op, terms, tab, r, text>>

(* ge_scalarmult: byte by byte; the last digit of all is not carried.      *)
RecodeMult == /\ op = "mult" /\ pc = "recode"
              /\ LET x == carry + e[1][2 * i] + 16 * e[1][2 * i + 1]
                     y == CarryOf(x)
                     z == IF i < Bytes - 1 THEN CarryOf(y) ELSE 0
                 IN  e' = [e EXCEPT ![1][2 * i] = x - 16 * y, ![1][2 * i + 1] = y - 16 * z] /\ carry' = z
              /\ IF i < Bytes - 1 THEN i' = i + 1 /\ UNCHANGED pc ELSE i' = 0 /\ pc' = "table"
              /\ UNCHANGED <<op, terms, tab, r, text>>

(* One is added at place k: ones turn to zeros up to the first zero.       *)
Ripple(d, k) == LET free == {j \in DOMAIN d : j >= k /\ d[j] = 0}
                    top  == IF free = {} THEN Len(d) ELSE CHOOSE j \in free : \A l \in free : j <= l
                IN  [j \in DOMAIN d |-> IF j < k \/ j > top THEN d[j] ELSE IF j = top THEN 1 ELSE 0]

(* slide: the digit at place k takes in the next six bits, as far as it    *)
(* stays within 15, or goes below and carries.                             *)
SlideAt(d, k) ==
    LET last == 8 * Bytes - 1
        s[b \in 0..6] ==
          IF b = 0 THEN [d |-> d, on |-> d[k] # 0]
          ELSE LET was == s[b - 1]
                   x   == IF k + b <= last THEN was.d[k + b] * 2 ^ b ELSE 0
               IN  IF ~was.on \/ x = 0 THEN was
                   ELSE IF was.d[k] + x <= 15 THEN [was EXCEPT !.d[k] = @ + x, !.d[k + b] = 0]
                   ELSE IF was.d[k] - x >= -15 THEN [was EXCEPT !.d = Ripple([@ EXCEPT ![k] = @ - x], k + b)]
                   ELSE [was EXCEPT !.on = FALSE]
    IN  s[6].d

RecodeSlide == /\ Summed /\ pc = "recode"
               /\ e' = [t \in DOMAIN e |-> SlideAt(e[t], i)]
               /\ IF i < 8 * Bytes - 1 THEN i' = i + 1 /\ UNCHANGED pc ELSE i' = 0 /\ pc' = "table"
               /\ UNCHANGED <<op, terms, carry, tab, r, text>>

---------------------------------------------------------------------------
(* One of eight is taken without a branch: each is moved over what is      *)
(* there if its number is that of the digit, and then its negative if the  *)
(* digit is below zero.  The bits are those of a byte.                     *)
Equal(a, b)   == IF a % 256 = b % 256 THEN 1 ELSE 0
Negative(x)   == IF x < 0 THEN 1 ELSE 0
Cmov(f, g, b) == IF b = 1 THEN g ELSE f
Taken(none, eight, x) ==
    LET t[k \in 0..8] == IF k = 0 THEN none ELSE Cmov(t[k - 1], eight[k], Equal(x - 2 * Negative(x) * x, k))
    IN  Cmov(t[8], Negated(t[8]), Negative(x))

(* ge_scalarmult_base: ge_base[pos] holds the first eight multiples of     *)
(* 256^pos times the base point.                                           *)
GeBase(pos, x) == Precomp(Times(x * 256 ^ pos, Base))
Select(pos, x) == Taken(PrecompNeutral, [k \in 1..8 |-> GeBase(pos, k)], x)

OddDigit  == /\ pc = "odd" /\ r' = ToP3(Plus(r, Select(i \div 2, e[1][i])))
             /\ i' = i + 2 /\ pc' = (IF i + 2 >= N THEN "shift" ELSE "odd")
             /\ UNCHANGED <<op, terms, e, carry, tab, text>>
Shift     == /\ pc = "shift" /\ r' = ToP3(Dbls(r, 4)) /\ i' = 0 /\ pc' = "even"
             /\ UNCHANGED <<op, terms, e, carry, tab, text>>
EvenDigit == /\ pc = "even" /\ r' = ToP3(Plus(r, Select(i \div 2, e[1][i])))
             /\ i' = i + 2 /\ pc' = (IF i + 2 >= N THEN "done" ELSE "even")
             /\ UNCHANGED <<op, terms, e, carry, tab, text>>

(* ge_scalarmult: one to eight times A.                                    *)
FirstEight(p) == LET c[k \in 1..8] == IF k = 1 THEN Cached(p) ELSE Cached(ToP3(Plus(p, c[k - 1]))) IN c
(* ge_dsm_precomp: A, 3A, .. 15A; and ge_Bi, the same of the base point.   *)
OddEight(p)   == LET two == ToP3(Dbl(p))
                     c[k \in 0..7] == IF k = 0 THEN Cached(p) ELSE Cached(ToP3(Plus(two, c[k - 1])))
                 IN  c
GeBi == [k \in 0..7 |-> Precomp(Times(2 * k + 1, Base))]

Tables == /\ pc = "table" /\ pc' = "loop" /\ r' = P2Neutral
          /\ tab' = [t \in DOMAIN terms |-> IF op = "mult" THEN FirstEight(P3(terms[t][2]))
                                            ELSE IF op = "combo" /\ terms[t][2] = Base THEN GeBi ELSE OddEight(P3(terms[t][2]))]
          /\ i' = (IF op = "mult" THEN N - 1
                   ELSE LET used == {j \in 0..(8 * Bytes - 1) : \E t \in DOMAIN e : e[t][j] # 0}
                        IN  IF used = {} THEN -1 ELSE CHOOSE j \in used : \A l \in used : l <= j)
          /\ UNCHANGED <<op, terms, e, carry, text>>

(* ge_scalarmult: sixteen times what is there, and a digit.                *)
FourMore == Plus(ToP3(Dbls(r, 4)), Taken(CachedNeutral, tab[1], e[1][i]))

FourBits   == /\ pc = "loop" /\ op = "mult" /\ i >= 0 /\ r' = ToP2(FourMore)
              /\ i' = i - 1 /\ UNCHANGED <<op, terms, pc, e, carry, tab, text>>
(* ge_scalarmult_p3: the last one is left in the form with T.              *)
FourBitsP3 == /\ pc = "loop" /\ op = "mult" /\ i = 0 /\ r' = ToP3(FourMore)
              /\ i' = i - 1 /\ UNCHANGED <<op, terms, pc, e, carry, tab, text>>

(* One digit of each of the scalars, of which any may have none.           *)
OneMore == LET sum[t \in 0..Len(terms)] ==
                 IF t = 0 THEN Dbl(r)
                 ELSE IF e[t][i] > 0 THEN Plus(ToP3(sum[t - 1]), tab[t][e[t][i] \div 2])
                 ELSE IF e[t][i] < 0 THEN Minus(ToP3(sum[t - 1]), tab[t][(-e[t][i]) \div 2])
                 ELSE sum[t - 1]
           IN  sum[Len(terms)]

(* The sums with the base point, and those whose tables are all given      *)
(* (_precomp_).  The _p3 forms write their result with the last digit: of  *)
(* scalars that are all 0 none, and it is what it was.                     *)
Digit(o)   == pc = "loop" /\ op = o /\ i' = i - 1 /\ UNCHANGED <<op, terms, pc, e, carry, tab, text>>
OneBit     == Digit("combo")  /\ i >= 0 /\ r' = ToP2(OneMore)
OneBitP3   == Digit("combo")  /\ i = 0  /\ r' = ToP3(OneMore)
GivenBit   == Digit("tables") /\ i >= 0 /\ r' = ToP2(OneMore)
GivenBitP3 == Digit("tables") /\ i = 0  /\ r' = ToP3(OneMore)

LoopEnd == /\ pc = "loop" /\ i < 0 /\ pc' = "done" /\ i' = 0 /\ tab' = <<>>
           /\ UNCHANGED <<op, terms, e, carry, r, text>>

(* What is done with a multiple (generate_key_derivation and               *)
(* derive_public_key): eight times it, or its sum with another point.      *)
Mul8 == /\ pc = "done" /\ op = "mult" /\ r' = ToP2(Dbls(r, 3))
        /\ terms' = [terms EXCEPT ![1][1] = 8 * @] /\ pc' = "used"
        /\ UNCHANGED <<op, i, e, carry, tab, text>>
AddPoint == /\ pc = "done" /\ op = "base" /\ pc' = "used"
            /\ \E q \in Addends : /\ r' = ToP2(Plus(P3(q), Cached(r)))
                                  /\ terms' = Append(terms, <<1, q>>)
            /\ UNCHANGED <<op, i, e, carry, tab, text>>

---------------------------------------------------------------------------
(* ge_tobytes, ge_p3_tobytes.                                              *)
ToBytes == /\ pc \in {"done", "used"} /\ op # "hash" /\ pc' = "written"
           /\ LET recip == FeInvert(r.Z)
              IN  text' = <<FeMul(r.Y, recip).v, FeMul(r.X, recip).v % 2>>
           /\ UNCHANGED <<op, terms, i, e, carry, tab, r>>

SqrtM1 == Fe(Root(-1))

(* u v^3 (u v^7)^((P-5)/8): a square root of u/v, or of it times -1 or a   *)
(* root of that, if it has one.                                            *)
DivPow(u, v) == LET v3  == FeMul(FeSq(v), v)
                    uv7 == FeMul(FeMul(FeSq(v3), v), u)
                IN  FeMul(FeMul([uv7 EXCEPT !.v = Power(@, (P - 5) \div 8), !.u = 1], v3), u)

(* The root, or it times that of -1; none if neither is one.               *)
RootOf(u, v, x) == LET vxx == FeMul(FeSq(x), v)
                   IN  IF FeSub(vxx, u).v = 0 THEN {x}
                       ELSE IF FeAdd(vxx, u).v = 0 THEN {FeMul(x, SqrtM1)} ELSE {}

(* ge_frombytes_vartime (y is below P: FieldOps).                          *)
FromBytes == /\ pc = "written"
             /\ LET y  == Fe(text[1])
                    yy == FeSq(y)
                    u  == FeSub(yy, One)
                    v  == FeAdd(FeMul(yy, Fe(D)), One)
                    xs == {x \in RootOf(u, v, DivPow(u, v)) : x.v # 0 \/ text[2] = 0}
                IN  \/ xs = {} /\ pc' = "refused" /\ UNCHANGED r
                    \/ \E x \in xs : LET signed == IF x.v % 2 = text[2] THEN x ELSE FeNeg(x)
                                     IN  pc' = "read" /\ r' = [X |-> signed, Y |-> y, Z |-> One, T |-> FeMul(signed, y)]
             /\ UNCHANGED <<op, terms, i, e, carry, tab, text>>

(* ge_fromfe_frombytes_vartime: a point from any number; ok is what the    *)
(* assertions in it say.                                                   *)
Fffb1 == Fe(Root(-2 * MA * (MA + 2)))
Fffb2 == Fe(Root(2 * MA * (MA + 2)))
Fffb3 == Fe(Root(-SqrtM1.v * ((MA * (MA + 2)) % P)))
Fffb4 == Fe(Root(SqrtM1.v * ((MA * (MA + 2)) % P)))

(* By what the root is multiplied, if w/x has one.                         *)
CaseOf(w, y) == IF FeSub(w, y).v = 0 THEN Fffb2 ELSE IF FeAdd(w, y).v = 0 THEN Fffb1 ELSE Nil

Hash(u) ==
    LET v    == FeSq2(u)
        w    == FeAdd(v, One)
        x    == FeAdd(FeSq(w), FeMul(Fe(-MA * MA), v))
        root == DivPow(w, x)
        y    == FeMul(FeSq(root), x)
        even == CaseOf(w, y) # Nil
        iy   == FeMul(y, SqrtM1)
        X0   == IF even THEN FeMul(FeMul(root, CaseOf(w, y)), u)
                ELSE FeMul(root, IF FeSub(w, iy).v = 0 THEN Fffb4 ELSE Fffb3)
        z    == IF even THEN FeMul(Fe(-MA), v) ELSE Fe(-MA)
        sign == IF even THEN 0 ELSE 1
        X1   == IF X0.v % 2 # sign THEN FeNeg(X0) ELSE X0
        Z    == FeAdd(z, w)
    IN  [p  |-> [X |-> FeMul(X1, Z), Y |-> FeSub(z, w), Z |-> Z],
         ok |-> /\ even \/ FeSub(w, iy).v = 0 \/ FeAdd(w, iy).v = 0
                /\ X0.v % 2 # sign => X0.v # 0]

FromFe == /\ pc = "hash" /\ r' = Hash(Fe(text[1])).p
          /\ pc' = (IF Hash(Fe(text[1])).ok THEN "done" ELSE "aborted")
          /\ UNCHANGED <<op, terms, i, e, carry, tab, text>>

Ended == (pc \in {"read", "refused", "aborted"} \/ (pc = "done" /\ op = "hash")) /\ UNCHANGED vars

Next == RecodeBase \/ RecodeMult \/ RecodeSlide \/ OddDigit \/ Shift \/ EvenDigit \/ Tables \/ FourBits \/ FourBitsP3
        \/ OneBit \/ OneBitP3 \/ GivenBit \/ GivenBitP3
        \/ LoopEnd \/ Mul8 \/ AddPoint \/ ToBytes \/ FromBytes \/ FromFe \/ Ended
Spec == Init /\ [][Next]_vars

---------------------------------------------------------------------------
Element(f) == f.v \in Field /\ f.u \in Nat

TypeOK == /\ op \in {"base", "mult", "combo", "tables", "text", "hash"}
          /\ \A t \in DOMAIN terms : terms[t][1] \in Nat /\ terms[t][2] \in Points
          /\ pc \in {"recode", "odd", "shift", "even", "table", "loop", "done", "used", "written", "read",
                     "hash", "refused", "aborted"}
          /\ i \in -1..(8 * Bytes) /\ carry \in 0..1 /\ text \in Field \X {0, 1}
          /\ \A t \in DOMAIN e : \A j \in DOMAIN e[t] : e[t][j] \in -15..15
          /\ \A c \in DOMAIN r : Element(r[c])
          /\ \A t \in DOMAIN tab : \A k \in DOMAIN tab[t] : \A c \in DOMAIN tab[t][k] : Element(tab[t][k][c])

Sum(n, f(_)) == LET s[k \in 0..n] == IF k = 0 THEN 0 ELSE s[k - 1] + f(k - 1) IN s[n]
PointSum(n, f(_)) == LET s[k \in 0..n] == IF k = 0 THEN Neutral ELSE Add(s[k - 1], f(k)) IN s[n]

(* While a scalar is turned into signed digits its value never changes.    *)
DigitsKeep ==
    /\ op \in {"base", "mult"} /\ pc \in {"recode", "odd", "table"} =>
         Sum(N, LAMBDA j : e[1][j] * 16 ^ j) + carry * 16 ^ (IF op = "base" THEN i ELSE 2 * i) = terms[1][1]
    /\ Summed /\ pc \in {"recode", "table"} =>
         \A t \in DOMAIN terms : Sum(8 * Bytes, LAMBDA j : e[t][j] * 2 ^ j) = terms[t][1]

(* Every digit is one the tables have: at most eight, or odd and at most   *)
(* fifteen.                                                                *)
DigitsFit == pc \in {"odd", "shift", "even", "table", "loop"} =>
               \A t \in DOMAIN e : \A j \in DOMAIN e[t] :
                 IF Summed THEN e[t][j] \in {x \in -15..15 : x = 0 \/ x % 2 = 1}
                 ELSE e[t][j] \in -8..8

(* The point that the coordinates stand for.                               *)
Affine(p) == <<(p.X.v * Inverse[p.Z.v]) % P, (p.Y.v * Inverse[p.Z.v]) % P>>
Stands(p, q) == p.Z.v # 0 /\ Affine(p) = q /\ ("T" \in DOMAIN p => (p.T.v * p.Z.v - p.X.v * p.Y.v) % P = 0)

(* What the digits that are done already make.                             *)
Digits(from, upto, x) == Sum(upto, LAMBDA j : IF j % 2 = from THEN e[1][j] * 16 ^ (j - x) ELSE 0)
DoneOf(t) == IF op = "mult" THEN Sum(N, LAMBDA j : IF j > i THEN e[1][j] * 16 ^ (j - i - 1) ELSE 0)
             ELSE Sum(8 * Bytes, LAMBDA j : IF j > i THEN e[t][j] * 2 ^ (j - i - 1) ELSE 0)

(* At every step the coordinates are those of the multiples of the digits  *)
(* done so far, and in the end of the sum that was wanted.                 *)
Accumulates ==
    /\ pc = "odd"   => Stands(r, Times(Digits(1, i, 1), Base))
    /\ pc = "shift" => Stands(r, Times(Digits(1, N, 1), Base))
    /\ pc = "even"  => Stands(r, Times(Digits(1, N, 0) + Digits(0, i, 0), Base))
    /\ pc = "loop"  => Stands(r, PointSum(Len(terms), LAMBDA t : Times(DoneOf(t), terms[t][2])))
    /\ pc \in {"done", "used"} /\ op # "hash" =>
         Stands(r, PointSum(Len(terms), LAMBDA t : Times(terms[t][1], terms[t][2])))

(* No coordinate is multiplied that may have grown past three units.       *)
Multipliable == /\ \A c \in DOMAIN r : r[c].u <= 3
                /\ \A t \in DOMAIN tab : \A k \in DOMAIN tab[t] : \A c \in DOMAIN tab[t][k] : tab[t][k][c].u <= 3

(* A text is read as the one point that is written so, and refused if      *)
(* there is none; what was written by this code is always read again.      *)
TextExact == /\ pc = "read" => LET p == Affine(r)
                               IN  p \in Points /\ Stands(r, p) /\ text = <<p[2], p[1] % 2>>
             /\ pc = "read" /\ op # "text" =>
                  Affine(r) = PointSum(Len(terms), LAMBDA t : Times(terms[t][1], terms[t][2]))
             /\ pc = "refused" => \A p \in Points : text # <<p[2], p[1] % 2>>

(* Every number gives a point of the curve, and no assertion fails.        *)
HashOnCurve == op = "hash" /\ pc # "hash" => pc = "done" /\ r.Z.v # 0 /\ Affine(r) \in Points
=============================================================================
