----------------------------- MODULE LedgerProofs -----------------------------
(***************************************************************************)
(* Proofs about the books of the pool for every value of their constants:  *)
(* the ledger (PplnsLedger) and then, each as an instance with variables   *)
(* of its own, the hashrates, the loop of the daemon that keeps them, the  *)
(* files of its statistics, and the proxy that counts shares in passing.   *)
(*                                                                         *)
(* That the books balance between the runs is not inductive: during a run  *)
(* rewards are credited one by one, and money has been sent that is not    *)
(* booked yet.  LedgerInv says at every moment how far the books are off   *)
(* (Balanced), and what makes the difference go away: the payer's          *)
(* transactions match the transfers of the wallet (Matched), each wallet   *)
(* is in one of them, what is pending on the chain is watched by the run   *)
(* that sent it or its wallet is tainted (Watched), and what is to be      *)
(* booked is there (Covered).                                              *)
(***************************************************************************)
EXTENDS PplnsLedger, FiniteSetTheorems, SequenceTheorems, WellFoundedInduction, TLAPS

PartStates == {"pending", "out", "failed"}
Transfer   == [run : Nat, amount : [Users -> Nat],
               part : UNION {[P -> PartStates] : P \in SUBSET Users}]
Tx         == [pay : SUBSET Users, state : TxStates, hash : Nat, fails : 0 .. 2]

LedgerTypes ==
    /\ TypeOK
    /\ txs \in Seq(Tx) /\ transfers \in Seq(Transfer) /\ runs \in Nat /\ cur \in Nat
    /\ IsFiniteSet(unlocked)
    /\ \A i \in DOMAIN transfers : transfers[i].run <= runs

(* Where the splitter is.                                                  *)
Splitting ==
    /\ inTx \subseteq unlocked
    /\ spc # "idle" => block \in inTx
    /\ spc \in {"get", "set", "mark"} => block \notin marked
    /\ spc \in {"get", "set"} <=> payees # {}

(* Where the payer is.                                                     *)
Paying ==
    /\ ppc = "idle" => txs = <<>>
    /\ ppc # "idle" => cur \in DOMAIN txs
    /\ ppc \in {"get", "set"} <=> owed # {}
    /\ owed # {} => owed \subseteq myTx.pay /\ myTx.state = "PAIDONCHAIN"
    /\ \A k \in DOMAIN txs :
         /\ txs[k].state = "QUEUE" => txs[k].hash = 0 /\ txs[k].fails < 2
         /\ txs[k].state \in {"PENDING", "PAIDONCHAIN", "SUCCESS"} => txs[k].hash > 0
         /\ txs[k].state = "PAIDONCHAIN" => k = cur /\ owed # {}

(* What the payer knows of its transactions is what the wallet did.        *)
Matched ==
    /\ \A k \in DOMAIN txs : txs[k].hash > 0 =>
         /\ txs[k].hash \in DOMAIN transfers
         /\ transfers[txs[k].hash].run = runs
         /\ transfers[txs[k].hash].amount = amount
         /\ DOMAIN transfers[txs[k].hash].part = txs[k].pay
         /\ txs[k].state \in {"PAIDONCHAIN", "SUCCESS"} =>
              \A u \in txs[k].pay : transfers[txs[k].hash].part[u] = "out"
    /\ ppc # "idle" =>
         \A i \in DOMAIN transfers : transfers[i].run = runs => \E k \in DOMAIN txs : txs[k].hash = i

(* What is not yet mined is watched by a run, or its wallet is tainted.    *)
Watched ==
    \A i \in DOMAIN transfers : \A u \in DOMAIN transfers[i].part :
        transfers[i].part[u] = "pending" =>
            \/ u \in tainted
            \/ \E k \in DOMAIN txs : txs[k].hash = i

ToBook(k, u) == /\ txs[k].state # "SUCCESS"
                /\ k = cur /\ owed # {} => u \in owed

(* What will be booked is there, and each process knows of the balance it  *)
(* is about to write what keeps it from being too low.                     *)
Covered ==
    /\ NeverOverdrawn
    /\ \A k \in DOMAIN txs : \A u \in txs[k].pay : ToBook(k, u) => amount[u] <= balance[u]
    /\ spc = "set" => balance[CHOOSE v \in payees : TRUE] <= seen
    /\ ppc = "set" => LET w == CHOOSE v \in owed : TRUE
                      IN  amount[w] <= curBal /\ curBal <= balance[w]

(* The books at any moment: with what the splitter has credited of its     *)
(* block, and what the payer has sent and not yet booked.                  *)
Credit(u) == IF spc \in {"get", "set", "mark"} /\ u \notin payees THEN Reward(block, u) ELSE 0
Debt(u)   == IF u \in Unbooked THEN amount[u] ELSE 0
Balanced  == \A u \in Users \ tainted :
                balance[u] = Earned(u) - Paid(u) + Credit(u) + Debt(u)

LedgerInv == /\ LedgerTypes /\ Splitting /\ Paying /\ BatchesPartition /\ Matched /\ OneTransferPerRun
             /\ Watched /\ Covered /\ Balanced
-----------------------------------------------------------------------------
(* Sums, sorting and batches.                                              *)

(* A set of naturals that is not empty has a least element.                *)
LEMMA LeastNat ==
    ASSUME NEW S \in SUBSET Nat, S # {}
    PROVE  \E x \in S : \A y \in S : x <= y
<1> DEFINE Less == {p \in Nat \X Nat : p[1] < p[2]}
<1>1. IsWellFoundedOn(Less, Nat)
  BY NatLessThanWellFounded, Zenon DEF OpToRel
<1>2. PICK x \in S : \A y \in S : <<y, x>> \notin Less
  <2> HIDE DEF Less
  <2> QED
    BY <1>1, WFMin
<1>3. ASSUME NEW y \in S, y < x PROVE FALSE
  <2>1. <<y, x>> \in Less
    BY <1>3
  <2> QED
    BY <1>2, <2>1
<1> QED
  BY <1>3

(* Induction over the naturals, as a set that is closed.                   *)
LEMMA Counting ==
    ASSUME NEW S \in SUBSET Nat, 0 \in S, \A n \in S : n + 1 \in S
    PROVE  S = Nat
<1> DEFINE T == Nat \ S
<1> SUFFICES ASSUME T # {} PROVE FALSE
  OBVIOUS
<1>1. PICK x \in T : \A y \in T : x <= y
  <2>1. T \in SUBSET Nat
    OBVIOUS
  <2> HIDE DEF T
  <2> QED
    BY <2>1, LeastNat
<1>2. x \in Nat /\ x # 0 /\ x - 1 \notin T
  BY <1>1
<1>3. x - 1 \in S /\ (x - 1) + 1 = x
  BY <1>2
<1> QED
  BY <1>3

(* What \div returns.                                                      *)
LEMMA Division ==
    ASSUME NEW x \in Nat, NEW y \in Nat, y > 0
    PROVE  /\ x \div y \in Nat
           /\ y * (x \div y) <= x
           /\ x < y * (x \div y) + y
OBVIOUS

(* There are as many transactions as payments of BatchSize fill.           *)
LEMMA BatchCount ==
    ASSUME LedgerAssumption, NEW n \in Nat, n > 0
    PROVE  /\ NumBatches(n) \in Nat /\ NumBatches(n) >= 1
           /\ NumBatches(n) * BatchSize >= n /\ NumBatches(n) * BatchSize <= n + BatchSize - 1
<1> DEFINE B == BatchSize
           N == NumBatches(n)
<1>1. B \in Nat /\ B > 1 /\ n + B - 1 \in Nat
  BY DEF LedgerAssumption
<1>2. N \in Nat /\ B * N <= n + B - 1 /\ n + B - 1 < B * N + B
  <2>1. N = (n + B - 1) \div B
    BY DEF NumBatches
  <2> HIDE DEF N, B
  <2> QED
    BY <1>1, <2>1, Division
<1> HIDE DEF N, B
<1>3. N # 0
  BY <1>1, <1>2
<1>4. N * B = B * N /\ B * N \in Nat
  BY <1>1, <1>2
<1>5. N \in Nat /\ N >= 1 /\ N * B >= n /\ N * B <= n + B - 1
  BY <1>1, <1>2, <1>3, <1>4
<1> QED
  BY <1>5 DEF N, B

(* What is taken from the end by the transactions before, in order, and    *)
(* never what one of them takes from the front.                            *)
LEMMA LeftEnds ==
    ASSUME LedgerAssumption, NEW n \in Nat, n > 0, NEW k \in 1 .. NumBatches(n)
    PROVE  /\ LastLeft(n, k) \in Int /\ LastLeft(n, k) <= n /\ k <= n
           /\ LastLeft(n, k + 1) = LastLeft(n, k) - (BatchSize - 1)
           /\ LastLeft(n, 1) = n
           /\ \A j \in 1 .. k - 1 : LastLeft(n, k) <= LastLeft(n, j + 1) /\ k <= LastLeft(n, j + 1)
           /\ LastLeft(n, NumBatches(n) + 1) <= NumBatches(n)
<1> DEFINE N == NumBatches(n)
           B == BatchSize
           D == B - 1
           L(i) == LastLeft(n, i)
<1>1. /\ N \in Nat /\ N >= 1 /\ N * B >= n /\ N * B <= n + B - 1
      /\ B \in Nat /\ B > 1 /\ D \in Nat /\ D >= 1
  BY BatchCount DEF LedgerAssumption
<1>2. \A i \in Nat : L(i) = n - (i - 1) * D
  BY DEF LastLeft
<1>3. k \in Nat /\ k >= 1 /\ k <= N
  BY <1>1
<1> HIDE DEF N, B, L
<1>4. L(k) \in Int /\ L(k) <= n /\ L(1) = n
  <2>1. (k - 1) * D \in Nat /\ (1 - 1) * D = 0
    BY <1>1, <1>3
  <2> HIDE DEF D
  <2> QED
    BY <1>2, <1>3, <2>1
<1>5. L(k + 1) = L(k) - D
  <2>1. (k + 1 - 1) * D = (k - 1) * D + D /\ (k - 1) * D \in Int
    BY <1>1, <1>3
  <2>2. k + 1 \in Nat /\ D \in Nat
    BY <1>1, <1>3
  <2> HIDE DEF D
  <2> QED
    BY <1>2, <1>3, <2>1, <2>2
<1>6. k + (k - 1) * D <= n
  <2>1. (k - 1) * D = k * B - k - B + 1
    BY <1>1, <1>3
  <2>2. k * B <= N * B /\ k * B \in Nat /\ N * B \in Nat
    BY <1>1, <1>3
  <2> HIDE DEF D
  <2> QED
    BY <1>1, <1>3, <2>1, <2>2
<1>7. k <= n
  <2>1. (k - 1) * D \in Nat
    BY <1>1, <1>3
  <2> QED
    BY <1>3, <1>6, <2>1
<1>8. ASSUME NEW j \in 1 .. k - 1
      PROVE  L(k) <= L(j + 1) /\ k <= L(j + 1)
  <2>1. j * D <= (k - 1) * D /\ j * D \in Nat /\ (k - 1) * D \in Nat
    BY <1>1, <1>3
  <2>2. L(j + 1) = n - j * D /\ L(k) = n - (k - 1) * D
    <3>1. j + 1 \in Nat /\ (j + 1) - 1 = j /\ k \in Nat
      BY <1>3
    <3> HIDE DEF D
    <3> QED
      BY <1>2, <3>1
  <2> HIDE DEF D
  <2> QED
    BY <1>3, <1>6, <2>1, <2>2
<1>9. L(N + 1) <= N
  <2>1. N * D = N * B - N /\ N * B \in Nat
    BY <1>1
  <2>2. L(N + 1) = n - N * D
    <3>1. N + 1 \in Nat /\ (N + 1) - 1 = N
      BY <1>1
    <3> HIDE DEF D
    <3> QED
      BY <1>2, <3>1
  <2> HIDE DEF D
  <2> QED
    BY <1>1, <2>1, <2>2
<1> QED
  BY <1>4, <1>5, <1>7, <1>8, <1>9 DEF N, B, L

IsSorted(q, P, a) == /\ q \in [1 .. Cardinality(P) -> P]
                     /\ \A i, k \in DOMAIN q : i # k => q[i] # q[k]
                     /\ \A i, k \in DOMAIN q : i < k => a[q[i]] >= a[q[k]]

(* Wallets can be sorted, so that Sorted is one of the orders it may be.   *)
LEMMA SortedIs ==
    ASSUME NEW P, IsFiniteSet(P), NEW a, \A u \in P : a[u] \in Nat
    PROVE  IsSorted(Sorted(P, a), P, a)
<1> DEFINE Good == {n \in Nat : \A Q \in SUBSET P : Cardinality(Q) = n => \E q : IsSorted(q, Q, a)}
<1>0. \A Q \in SUBSET P : IsFiniteSet(Q) /\ Cardinality(Q) \in Nat
  BY FS_Subset, FS_CardinalityType
<1>1. 0 \in Good
  <2> SUFFICES ASSUME NEW Q \in SUBSET P, Cardinality(Q) = 0 PROVE \E q : IsSorted(q, Q, a)
    OBVIOUS
  <2> DEFINE q == [i \in 1 .. 0 |-> a]
  <2>1. IsSorted(q, Q, a)
    BY DEF IsSorted
  <2> QED
    BY <2>1
<1>2. ASSUME NEW n \in Good PROVE n + 1 \in Good
  <2> SUFFICES ASSUME NEW Q \in SUBSET P, Cardinality(Q) = n + 1 PROVE \E q : IsSorted(q, Q, a)
    OBVIOUS
  <2>1. Q # {} /\ n \in Nat
    BY FS_EmptySet
  <2>2. PICK x \in {a[u] : u \in Q} : \A y \in {a[u] : u \in Q} : x <= y
    <3>1. {a[u] : u \in Q} \in SUBSET Nat /\ {a[u] : u \in Q} # {}
      BY <2>1
    <3> QED
      BY <3>1, LeastNat
  <2>3. PICK m \in Q : \A u \in Q : a[m] <= a[u]
    BY <2>2
  <2>4. Cardinality(Q \ {m}) = n /\ Q \ {m} \in SUBSET P
    BY <1>0, <2>1, FS_RemoveElement
  <2>5. PICK r : IsSorted(r, Q \ {m}, a)
    BY <2>4
  <2> DEFINE q == [i \in 1 .. n + 1 |-> IF i = n + 1 THEN m ELSE r[i]]
  <2>6. /\ DOMAIN r = 1 .. n /\ \A i \in 1 .. n : r[i] \in Q \ {m}
        /\ \A i, k \in 1 .. n : i # k => r[i] # r[k]
        /\ \A i, k \in 1 .. n : i < k => a[r[i]] >= a[r[k]]
    BY <2>4, <2>5 DEF IsSorted
  <2>7. DOMAIN q = 1 .. n + 1 /\ q \in [1 .. n + 1 -> Q]
    BY <2>1, <2>6
  <2>8. ASSUME NEW i \in 1 .. n + 1, NEW k \in 1 .. n + 1
        PROVE  /\ i # k => q[i] # q[k]
               /\ i < k => a[q[i]] >= a[q[k]]
    <3>1. /\ i = n + 1 => q[i] = m
          /\ k = n + 1 => q[k] = m
          /\ i # n + 1 => q[i] = r[i] /\ i \in 1 .. n
          /\ k # n + 1 => q[k] = r[k] /\ k \in 1 .. n
      BY <2>1
    <3> HIDE DEF q
    <3>2. i # k => q[i] # q[k]
      BY <2>1, <2>6, <3>1
    <3>3. i < k => i # n + 1
      BY <2>1
    <3>4. ASSUME i < k PROVE a[q[i]] >= a[q[k]]
      <4>1. CASE k = n + 1
        <5>1. q[i] \in Q /\ q[k] = m
          BY <2>6, <3>1, <3>3, <3>4, <4>1
        <5>2. a[q[i]] \in Nat /\ a[m] \in Nat /\ a[m] <= a[q[i]]
          BY <2>3, <5>1
        <5> QED
          BY <5>1, <5>2
      <4>2. CASE k # n + 1
        BY <2>6, <3>1, <3>3, <3>4, <4>2
      <4> QED
        BY <4>1, <4>2
    <3> QED
      BY <3>2, <3>4
  <2>9. IsSorted(q, Q, a)
    <3> HIDE DEF q
    <3> QED
      BY <2>7, <2>8 DEF IsSorted
  <2> QED
    BY <2>9
<1>3. Good = Nat
  <2> HIDE DEF Good
  <2>1. Good \in SUBSET Nat
    BY DEF Good
  <2> QED
    BY <1>1, <1>2, <2>1, Counting
<1>4. \E q : IsSorted(q, P, a)
  BY <1>0, <1>3
<1>5. \E q \in [1 .. Cardinality(P) -> P] : IsSorted(q, P, a)
  BY <1>4 DEF IsSorted
<1> QED
  BY <1>5, ZenonT(60) DEF Sorted, IsSorted

(* The transactions of a sorted list divide its wallets among them, and    *)
(* none of them is empty or larger than BatchSize.                         *)
LEMMA BatchesDivide ==
    ASSUME LedgerAssumption, NEW P, IsFiniteSet(P), P # {},
           NEW a, NEW q, IsSorted(q, P, a)
    PROVE  LET n == Cardinality(P)
               N == NumBatches(n)
           IN  /\ N \in Nat /\ N >= 1
               /\ UNION {Batch(q, k) : k \in 1 .. N} = P
               /\ \A k \in 1 .. N : Cardinality(Batch(q, k)) \in 1 .. BatchSize
               /\ \A j, k \in 1 .. N : j # k => Batch(q, j) \intersect Batch(q, k) = {}
<1> DEFINE n == Cardinality(P)
           N == NumBatches(n)
           L(i) == LastLeft(n, i)
           Idx(k) == {k} \union {i \in k + 1 .. n : L(k + 1) < i /\ i <= L(k)}
<1>1. n \in Nat /\ n > 0
  BY FS_CardinalityType, FS_EmptySet
<1>2. /\ DOMAIN q = 1 .. n /\ \A i \in 1 .. n : q[i] \in P
      /\ \A i, k \in 1 .. n : i # k => q[i] # q[k]
      /\ Len(q) = n
  <2>1. q \in [1 .. n -> P]
    BY DEF IsSorted
  <2>2. q \in Seq(P) /\ Len(q) = n
    BY <1>1, <2>1
  <2> QED
    BY <2>1, <2>2 DEF IsSorted
<1>3. \A u \in P : \E i \in 1 .. n : q[i] = u
  <2>1. q \in Injection(1 .. n, P)
    BY <1>2 DEF IsSorted, Injection, IsInjective
  <2>2. IsFiniteSet(1 .. n) /\ Cardinality(1 .. n) = n
    BY <1>1, FS_Interval
  <2>3. q \in Surjection(1 .. n, P)
    BY <2>1, <2>2, FS_Injection
  <2> QED
    BY <2>3 DEF Surjection
<1>4. N \in Nat /\ N >= 1
  BY <1>1, BatchCount
<1>5. ASSUME NEW k \in 1 .. N
      PROVE  /\ L(k) \in Int /\ L(k) <= n /\ k <= n
             /\ L(k + 1) = L(k) - (BatchSize - 1)
             /\ L(1) = n /\ L(N + 1) <= N
             /\ \A j \in 1 .. k - 1 : L(k) <= L(j + 1) /\ k <= L(j + 1)
  BY <1>1, <1>4, LeftEnds
<1> HIDE DEF L, N, n
<1>6. ASSUME NEW k \in 1 .. N
      PROVE  Batch(q, k) = {q[i] : i \in Idx(k)} /\ Idx(k) \subseteq 1 .. n /\ k \in Idx(k)
  <2>1. Batch(q, k) = {q[k]} \union {q[i] : i \in {i \in k + 1 .. n : L(k + 1) < i /\ i <= L(k)}}
    BY <1>2 DEF Batch, L
  <2>2. Batch(q, k) = {q[i] : i \in Idx(k)}
    BY <2>1
  <2>3. k \in 1 .. n
    BY <1>1, <1>4, <1>5
  <2> QED
    BY <2>2, <2>3, <1>1, <1>4
<1>7. ASSUME NEW j \in 1 .. N, NEW k \in 1 .. N, j < k
      PROVE  Idx(j) \intersect Idx(k) = {}
  <2>1. j \in 1 .. k - 1 /\ j \in Nat /\ k \in Nat /\ n \in Nat
    BY <1>1, <1>4, <1>7
  <2>2. L(k) <= L(j + 1) /\ k <= L(j + 1) /\ L(k) \in Int /\ L(j) \in Int
    BY <2>1, <1>5
  <2>3. L(j + 1) \in Int /\ L(k + 1) \in Int
    BY <1>5, <2>2 DEF LedgerAssumption
  <2> QED
    BY <2>1, <2>2, <2>3, <1>7
<1>8. ASSUME NEW i \in 1 .. n PROVE \E k \in 1 .. N : i \in Idx(k)
  <2>1. CASE i <= N
    BY <1>1, <1>4, <2>1
  <2>2. CASE i > N
    <3> DEFINE T == {k \in 1 .. N : L(k + 1) < i}
    <3>1. N \in T
      <4>1. L(N) \in Int /\ L(N + 1) <= N /\ L(N + 1) \in Int
        BY <1>4, <1>5 DEF LedgerAssumption
      <4> QED
        BY <1>1, <1>4, <4>1, <2>2
    <3>2. PICK k \in T : \A j \in T : k <= j
      <4>1. T \in SUBSET Nat /\ T # {}
        BY <3>1
      <4> HIDE DEF T
      <4> QED
        BY <4>1, LeastNat
    <3>3. k \in 1 .. N /\ L(k + 1) < i /\ L(k) \in Int
      BY <3>2, <1>5
    <3>4. i <= L(k)
      <4>1. CASE k = 1
        BY <4>1, <1>5, <3>3, <1>1
      <4>2. CASE k # 1
        <5>1. k - 1 \in 1 .. N /\ (k - 1) + 1 = k /\ ~(k <= k - 1)
          BY <3>3, <4>2, <1>4
        <5>2. k - 1 \notin T
          BY <3>2, <5>1
        <5>3. ~(L(k) < i)
          BY <5>1, <5>2
        <5> QED
          BY <5>3, <3>3, <1>1
      <4> QED
        BY <4>1, <4>2
    <3>5. i \in k + 1 .. n
      BY <2>2, <3>3, <1>1, <1>4
    <3> QED
      BY <3>3, <3>4, <3>5
  <2> QED
    BY <2>1, <2>2, <1>1, <1>4
<1>9. ASSUME NEW k \in 1 .. N PROVE Cardinality(Batch(q, k)) \in 1 .. BatchSize
  <2> DEFINE J == L(k + 1) + 1 .. L(k)
  <2>1. L(k) \in Int /\ L(k + 1) \in Int /\ L(k + 1) = L(k) - (BatchSize - 1)
        /\ BatchSize \in Nat /\ BatchSize > 1
    BY <1>5 DEF LedgerAssumption
  <2>2. IsFiniteSet(J) /\ Cardinality(J) = BatchSize - 1
    <3> DEFINE x == L(k + 1) + 1
               y == L(k)
    <3>1. x \in Int /\ y \in Int /\ y = x + BatchSize - 2
      BY <2>1
    <3> HIDE DEF x, y
    <3>2. IsFiniteSet(x .. y) /\ Cardinality(x .. y) = IF x > y THEN 0 ELSE y - x + 1
      BY <3>1, FS_Interval
    <3>3. IsFiniteSet(x .. y) /\ Cardinality(x .. y) = BatchSize - 1
      BY <2>1, <3>1, <3>2
    <3> QED
      BY <3>3 DEF x, y
  <2>3. IsFiniteSet(J \union {k}) /\ Cardinality(J \union {k}) <= BatchSize
    <3> HIDE DEF J
    <3>1. /\ IsFiniteSet(J \union {k})
          /\ Cardinality(J \union {k}) = IF k \in J THEN Cardinality(J) ELSE Cardinality(J) + 1
      BY <2>2, FS_AddElement
    <3> QED
      BY <2>1, <2>2, <3>1
  <2>4. Idx(k) \in SUBSET (J \union {k})
    BY <2>1, <1>4
  <2>5. IsFiniteSet(Idx(k)) /\ Cardinality(Idx(k)) <= BatchSize /\ Cardinality(Idx(k)) \in Nat
    <3> HIDE DEF J, Idx
    <3>1. IsFiniteSet(Idx(k)) /\ Cardinality(Idx(k)) <= Cardinality(J \union {k})
      BY <2>3, <2>4, FS_Subset
    <3> QED
      BY <2>1, <2>3, <3>1, FS_CardinalityType
  <2> DEFINE f == [i \in Idx(k) |-> q[i]]
  <2>6. f \in Surjection(Idx(k), Batch(q, k))
    BY <1>6 DEF Surjection
  <2>7. IsFiniteSet(Batch(q, k)) /\ Cardinality(Batch(q, k)) <= Cardinality(Idx(k))
    <3> HIDE DEF f, Idx
    <3> QED
      BY <2>5, <2>6, FS_Surjection
  <2>8. Batch(q, k) # {}
    BY <1>6
  <2>9. Cardinality(Batch(q, k)) \in Nat /\ Cardinality(Batch(q, k)) # 0
    BY <2>7, <2>8, FS_CardinalityType, FS_EmptySet
  <2> QED
    <3> HIDE DEF Idx
    <3> QED
      BY <2>1, <2>5, <2>7, <2>9
<1>10. ASSUME NEW j \in 1 .. N, NEW k \in 1 .. N, j # k
       PROVE  Batch(q, j) \intersect Batch(q, k) = {}
  <2>1. j < k \/ k < j
    BY <1>4, <1>10
  <2>2. Idx(j) \intersect Idx(k) = {}
    <3>1. ASSUME j < k PROVE Idx(j) \intersect Idx(k) = {}
      BY <1>7, <3>1
    <3>2. ASSUME k < j PROVE Idx(k) \intersect Idx(j) = {}
      BY <1>7, <3>2
    <3> HIDE DEF Idx
    <3> QED
      BY <2>1, <3>1, <3>2
  <2> HIDE DEF Idx
  <2>3. Idx(j) \subseteq 1 .. n /\ Idx(k) \subseteq 1 .. n
    BY <1>6
  <2> QED
    BY <1>2, <1>6, <2>2, <2>3
<1>11. UNION {Batch(q, k) : k \in 1 .. N} = P
  <2>1. ASSUME NEW u \in P PROVE \E k \in 1 .. N : u \in Batch(q, k)
    <3>1. PICK i \in 1 .. n : q[i] = u
      BY <1>3
    <3>2. PICK k \in 1 .. N : i \in Idx(k)
      BY <1>8
    <3> HIDE DEF Idx
    <3> QED
      BY <3>1, <3>2, <1>6
  <2>2. ASSUME NEW k \in 1 .. N PROVE Batch(q, k) \subseteq P
    <3> HIDE DEF Idx
    <3> QED
      BY <1>2, <1>6
  <2> QED
    BY <2>1, <2>2
<1> QED
  BY <1>4, <1>9, <1>10, <1>11 DEF N, n

(* What SumFunctionOnSet computes for the sets below one.                  *)
SumStep(f, s, g) == IF s = {} THEN 0
                    ELSE LET x == CHOOSE y \in s : TRUE IN f[x] + g[s \ {x}]
IsSum(g, f, S) == g = [s \in SUBSET S |-> SumStep(f, s, g)]

(* There is such a function over each finite set.                          *)
LEMMA SumThereIs ==
    ASSUME NEW f, NEW S, IsFiniteSet(S)
    PROVE  \E g : IsSum(g, f, S)
<1> DEFINE Small(n) == {s \in SUBSET S : Cardinality(s) <= n}
           Good == {n \in Nat : \E g : /\ DOMAIN g = Small(n)
                                       /\ \A s \in Small(n) : g[s] = SumStep(f, s, g)}
<1>0. \A s \in SUBSET S : IsFiniteSet(s) /\ Cardinality(s) \in Nat
  BY FS_Subset, FS_CardinalityType
<1>1. 0 \in Good
  <2> DEFINE g == [s \in Small(0) |-> 0]
  <2>1. \A s \in Small(0) : s = {}
    <3> SUFFICES ASSUME NEW s \in Small(0) PROVE s = {}
      OBVIOUS
    <3>1. Cardinality(s) = 0 /\ IsFiniteSet(s)
      BY <1>0
    <3> QED
      BY <3>1, FS_EmptySet
  <2>2. DOMAIN g = Small(0) /\ \A s \in Small(0) : g[s] = SumStep(f, s, g)
    BY <2>1 DEF SumStep
  <2> HIDE DEF g
  <2> QED
    BY <2>2
<1>2. ASSUME NEW n \in Good PROVE n + 1 \in Good
  <2>1. PICK g : DOMAIN g = Small(n) /\ \A s \in Small(n) : g[s] = SumStep(f, s, g)
    OBVIOUS
  <2> DEFINE h == [s \in Small(n + 1) |-> SumStep(f, s, g)]
  <2>2. ASSUME NEW s \in Small(n) PROVE s \in Small(n + 1) /\ h[s] = g[s]
    <3>1. Cardinality(s) \in Nat /\ n \in Nat
      BY <1>0
    <3> QED
      BY <2>1, <3>1
  <2>3. ASSUME NEW s \in Small(n + 1), s # {}, NEW x \in s PROVE s \ {x} \in Small(n)
    <3>1. IsFiniteSet(s) /\ Cardinality(s) \in Nat /\ n \in Nat
      BY <1>0
    <3>2. Cardinality(s \ {x}) = Cardinality(s) - 1
      BY <3>1, FS_RemoveElement
    <3> QED
      BY <3>1, <3>2
  <2>4. ASSUME NEW s \in Small(n + 1) PROVE h[s] = SumStep(f, s, h)
    <3>1. h[s] = SumStep(f, s, g)
      OBVIOUS
    <3>2. CASE s = {}
      BY <3>1, <3>2 DEF SumStep
    <3>3. CASE s # {}
      <4> DEFINE x == CHOOSE y \in s : TRUE
      <4>1. x \in s
        BY <3>3
      <4>2. s \ {x} \in Small(n)
        BY <2>3, <3>3, <4>1
      <4>3. h[s \ {x}] = g[s \ {x}]
        BY <2>2, <4>2
      <4> HIDE DEF h
      <4> QED
        BY <3>1, <4>3 DEF SumStep
    <3> QED
      BY <3>2, <3>3
  <2>5. DOMAIN h = Small(n + 1)
    OBVIOUS
  <2>6. n + 1 \in Nat
    OBVIOUS
  <2> HIDE DEF h
  <2> QED
    BY <2>4, <2>5, <2>6
<1>3. Good = Nat
  <2> HIDE DEF Good
  <2>1. Good \in SUBSET Nat
    BY DEF Good
  <2> QED
    BY <1>1, <1>2, <2>1, Counting
<1>4. Cardinality(S) \in Good /\ Small(Cardinality(S)) = SUBSET S
  BY <1>3, FS_Subset, FS_CardinalityType
<1>5. PICK g : /\ DOMAIN g = SUBSET S
               /\ \A s \in SUBSET S : g[s] = SumStep(f, s, g)
  BY <1>4
<1> DEFINE h == [s \in SUBSET S |-> g[s]]
<1>6. ASSUME NEW s \in SUBSET S PROVE SumStep(f, s, g) = SumStep(f, s, h)
  BY DEF SumStep
<1>7. h = [s \in SUBSET S |-> SumStep(f, s, h)]
  <2>1. \A s \in SUBSET S : g[s] = SumStep(f, s, h)
    BY <1>5, <1>6
  <2> QED
    BY <2>1
<1> QED
  <2> HIDE DEF h
  <2> QED
    BY <1>7 DEF IsSum

SumOver(f, S) == (CHOOSE g : IsSum(g, f, S))[S]

(* The library's sum is the value of a function on the subsets.            *)
LEMMA SumIs == \A f, S : SumFunctionOnSet(f, S) = SumOver(f, S)
BY DEF SumFunctionOnSet, FoldFunctionOnSet, MapThenFoldSet, SumOver, IsSum, SumStep

(* Two functions that agree on a set have the same sums over its subsets.  *)
LEMMA SumsAgree ==
    ASSUME NEW f, NEW S, NEW g, NEW h, NEW R, NEW e, IsFiniteSet(R),
           R \subseteq S, IsSum(g, f, S), NEW Q, R \subseteq Q, IsSum(h, e, Q),
           \A x \in R : f[x] = e[x]
    PROVE  g[R] = h[R]
<1> DEFINE Good == {n \in Nat : \A s \in SUBSET R : Cardinality(s) <= n => g[s] = h[s]}
<1>0. \A s \in SUBSET R : IsFiniteSet(s) /\ Cardinality(s) \in Nat
  BY FS_Subset, FS_CardinalityType
<1>1. ASSUME NEW s \in SUBSET R
      PROVE  g[s] = SumStep(f, s, g) /\ h[s] = SumStep(e, s, h)
  BY DEF IsSum
<1>2. 0 \in Good
  <2> SUFFICES ASSUME NEW s \in SUBSET R, Cardinality(s) <= 0 PROVE g[s] = h[s]
    OBVIOUS
  <2>1. Cardinality(s) = 0 /\ IsFiniteSet(s)
    BY <1>0
  <2>2. s = {}
    BY <2>1, FS_EmptySet
  <2> QED
    BY <1>1, <2>2 DEF SumStep
<1>3. ASSUME NEW n \in Good PROVE n + 1 \in Good
  <2> SUFFICES ASSUME NEW s \in SUBSET R, Cardinality(s) <= n + 1 PROVE g[s] = h[s]
    OBVIOUS
  <2>1. CASE s = {}
    BY <1>1, <2>1 DEF SumStep
  <2>2. CASE s # {}
    <3> DEFINE x == CHOOSE y \in s : TRUE
    <3>1. x \in s /\ s \ {x} \in SUBSET R /\ x \in R
      BY <2>2
    <3>2. Cardinality(s \ {x}) = Cardinality(s) - 1 /\ Cardinality(s) \in Nat
      BY <1>0, <3>1, FS_RemoveElement
    <3>3. Cardinality(s \ {x}) <= n
      BY <3>2
    <3>4. g[s \ {x}] = h[s \ {x}]
      BY <3>1, <3>3
    <3>5. g[s] = f[x] + g[s \ {x}] /\ h[s] = e[x] + h[s \ {x}]
      BY <1>1, <2>2 DEF SumStep
    <3> QED
      BY <3>1, <3>4, <3>5
  <2> QED
    BY <2>1, <2>2
<1>4. Good = Nat
  <2> HIDE DEF Good
  <2>1. Good \in SUBSET Nat
    BY DEF Good
  <2> QED
    BY <1>2, <1>3, <2>1, Counting
<1>5. Cardinality(R) \in Good
  BY <1>0, <1>4
<1> QED
  BY <1>0, <1>5

(* A sum depends on the values in its set only.                            *)
LEMMA SumSame ==
    ASSUME NEW S, IsFiniteSet(S), NEW f, NEW e, \A x \in S : f[x] = e[x]
    PROVE  SumFunctionOnSet(f, S) = SumFunctionOnSet(e, S)
<1> DEFINE G == CHOOSE g : IsSum(g, f, S)
           E == CHOOSE g : IsSum(g, e, S)
<1>1. IsSum(G, f, S) /\ IsSum(E, e, S)
  BY SumThereIs
<1>2. SumFunctionOnSet(f, S) = G[S] /\ SumFunctionOnSet(e, S) = E[S]
  BY SumIs DEF SumOver
<1> HIDE DEF G, E
<1>3. S \subseteq S
  OBVIOUS
<1>4. G[S] = E[S]
  BY <1>1, <1>3, SumsAgree
<1> QED
  BY <1>2, <1>4

(* The sum over no elements.                                               *)
LEMMA SumEmpty == \A f : SumFunctionOnSet(f, {}) = 0
<1> SUFFICES ASSUME NEW f PROVE SumFunctionOnSet(f, {}) = 0
  OBVIOUS
<1>1. IsSum(CHOOSE g : IsSum(g, f, {}), f, {})
  BY SumThereIs, FS_EmptySet
<1> QED
  BY <1>1, SumIs DEF SumOver, IsSum, SumStep

(* The sum is an integer, and each element can be taken out of it.         *)
LEMMA SumRemove ==
    ASSUME NEW S, IsFiniteSet(S), NEW f, \A x \in S : f[x] \in Int
    PROVE  /\ SumFunctionOnSet(f, S) \in Int
           /\ \A x \in S : SumFunctionOnSet(f, S) = f[x] + SumFunctionOnSet(f, S \ {x})
<1>1. PICK g : IsSum(g, f, S)
  BY SumThereIs
<1>2. ASSUME NEW s \in SUBSET S
      PROVE  g[s] = SumFunctionOnSet(f, s)
  <2>1. IsFiniteSet(s)
    BY FS_Subset
  <2> DEFINE H == CHOOSE h : IsSum(h, f, s)
  <2>2. IsSum(H, f, s)
    BY <2>1, SumThereIs
  <2>3. SumFunctionOnSet(f, s) = H[s]
    BY SumIs DEF SumOver
  <2> HIDE DEF H
  <2>4. s \subseteq S /\ s \subseteq s /\ \A x \in s : f[x] = f[x]
    OBVIOUS
  <2>5. g[s] = H[s]
    BY <1>1, <2>1, <2>2, <2>4, SumsAgree
  <2> QED
    BY <2>3, <2>5
<1> DEFINE Good == {n \in Nat : \A s \in SUBSET S : Cardinality(s) <= n =>
                      g[s] \in Int /\ \A x \in s : g[s] = f[x] + g[s \ {x}]}
<1>0. \A s \in SUBSET S : IsFiniteSet(s) /\ Cardinality(s) \in Nat
  BY FS_Subset, FS_CardinalityType
<1>3. \A s \in SUBSET S : g[s] = SumStep(f, s, g)
  BY <1>1 DEF IsSum
<1>7. g[{}] = 0
  BY <1>3 DEF SumStep
<1>4. 0 \in Good
  <2> SUFFICES ASSUME NEW s \in SUBSET S, Cardinality(s) <= 0
               PROVE  g[s] \in Int /\ \A x \in s : g[s] = f[x] + g[s \ {x}]
    OBVIOUS
  <2>1. Cardinality(s) = 0 /\ IsFiniteSet(s)
    BY <1>0
  <2>2. s = {}
    BY <2>1, FS_EmptySet
  <2> HIDE DEF Good
  <2> QED
    BY <1>7, <2>2
<1>5. ASSUME NEW n \in Good PROVE n + 1 \in Good
  <2> SUFFICES ASSUME NEW s \in SUBSET S, Cardinality(s) <= n + 1
               PROVE  g[s] \in Int /\ \A x \in s : g[s] = f[x] + g[s \ {x}]
    OBVIOUS
  <2>1. CASE s = {}
    <3> HIDE DEF Good
    <3> QED
      BY <1>7, <2>1
  <2>2. CASE s # {}
    <3> DEFINE y == CHOOSE z \in s : TRUE
    <3>1. y \in s /\ g[s] = f[y] + g[s \ {y}]
      BY <1>3, <2>2 DEF SumStep
    <3>2. ASSUME NEW x \in s
          PROVE  /\ s \ {x} \in SUBSET S
                 /\ Cardinality(s \ {x}) <= n
      <4>1. Cardinality(s \ {x}) = Cardinality(s) - 1 /\ Cardinality(s) \in Nat
        BY <1>0, FS_RemoveElement
      <4> QED
        BY <4>1
    <3>3. ASSUME NEW x \in s
          PROVE  /\ g[s \ {x}] \in Int
                 /\ \A z \in s \ {x} : g[s \ {x}] = f[z] + g[(s \ {x}) \ {z}]
                 /\ f[x] \in Int
      BY <3>2
    <3> HIDE DEF y
    <3>4. g[s] \in Int
      BY <3>1, <3>3
    <3>5. ASSUME NEW x \in s PROVE g[s] = f[x] + g[s \ {x}]
      <4>1. CASE x = y
        BY <3>1, <4>1
      <4>2. CASE x # y
        <5>1. g[s \ {y}] = f[x] + g[(s \ {y}) \ {x}]
          BY <3>1, <3>3, <4>2
        <5>2. g[s \ {x}] = f[y] + g[(s \ {x}) \ {y}]
          BY <3>1, <3>3, <4>2
        <5>3. (s \ {x}) \ {y} = (s \ {y}) \ {x}
          OBVIOUS
        <5>4. g[(s \ {x}) \ {y}] \in Int
          <6>1. s \ {x} # {} /\ y \in s \ {x}
            BY <3>1, <4>2
          <6>2. Cardinality((s \ {x}) \ {y}) = Cardinality(s \ {x}) - 1
            BY <6>1, <3>2, <1>0, FS_RemoveElement
          <6>3. Cardinality((s \ {x}) \ {y}) <= n /\ (s \ {x}) \ {y} \in SUBSET S
            BY <6>2, <3>2, <1>0
          <6> QED
            BY <6>3
        <5>5. f[x] \in Int /\ f[y] \in Int
          BY <3>1, <3>3
        <5> DEFINE r == g[(s \ {y}) \ {x}]
                   a == f[x]
                   b == f[y]
        <5>6. r \in Int /\ a \in Int /\ b \in Int
          BY <5>3, <5>4, <5>5
        <5>7. g[s] = b + (a + r)
          BY <3>1, <5>1
        <5>8. g[s \ {x}] = b + r
          BY <5>2, <5>3
        <5> HIDE DEF r, a, b
        <5>9. g[s] = a + g[s \ {x}]
          BY <5>6, <5>7, <5>8
        <5> QED
          BY <5>9 DEF a
      <4> QED
        BY <4>1, <4>2
    <3> QED
      BY <3>4, <3>5
  <2> QED
    BY <2>1, <2>2
<1>6. Good = Nat
  <2> HIDE DEF Good
  <2>1. Good \in SUBSET Nat
    BY DEF Good
  <2> QED
    BY <1>4, <1>5, <2>1, Counting
<1>8. Cardinality(S) \in Good
  BY <1>0, <1>6
<1>9. g[S] \in Int /\ \A x \in S : g[S] = f[x] + g[S \ {x}]
  BY <1>0, <1>8
<1> QED
  BY <1>2, <1>9

(* An element that is added to the set adds its value.                     *)
LEMMA SumAdd ==
    ASSUME NEW S, IsFiniteSet(S), NEW f, NEW x, x \notin S, \A y \in S \union {x} : f[y] \in Int
    PROVE  SumFunctionOnSet(f, S \union {x}) = SumFunctionOnSet(f, S) + f[x]
<1>1. IsFiniteSet(S \union {x}) /\ (S \union {x}) \ {x} = S
  BY FS_AddElement
<1>2. SumFunctionOnSet(f, S \union {x}) = f[x] + SumFunctionOnSet(f, S)
  BY <1>1, SumRemove
<1>3. SumFunctionOnSet(f, S) \in Int
  BY SumRemove
<1> QED
  BY <1>2, <1>3

(* A bound that holds for each element holds for the sums.                 *)
LEMMA SumScales ==
    ASSUME NEW S, IsFiniteSet(S), NEW f, NEW e, NEW a \in Nat, NEW b \in Nat,
           \A x \in S : f[x] \in Int /\ e[x] \in Int /\ a * f[x] <= b * e[x]
    PROVE  a * SumFunctionOnSet(f, S) <= b * SumFunctionOnSet(e, S)
<1> DEFINE F(s) == SumFunctionOnSet(f, s)
           E(s) == SumFunctionOnSet(e, s)
           Good == {n \in Nat : \A s \in SUBSET S : Cardinality(s) = n => a * F(s) <= b * E(s)}
<1>0. \A s \in SUBSET S : IsFiniteSet(s) /\ Cardinality(s) \in Nat
  BY FS_Subset, FS_CardinalityType
<1>1. ASSUME NEW s \in SUBSET S
      PROVE  /\ F(s) \in Int /\ E(s) \in Int
             /\ \A x \in s : F(s) = f[x] + F(s \ {x}) /\ E(s) = e[x] + E(s \ {x})
  <2>1. IsFiniteSet(s) /\ \A x \in s : f[x] \in Int /\ e[x] \in Int
    BY <1>0
  <2>2. F(s) \in Int /\ \A x \in s : F(s) = f[x] + F(s \ {x})
    BY <2>1, SumRemove
  <2>3. E(s) \in Int /\ \A x \in s : E(s) = e[x] + E(s \ {x})
    BY <2>1, SumRemove
  <2> QED
    BY <2>2, <2>3
<1>2. F({}) = 0 /\ E({}) = 0
  BY SumEmpty
<1> HIDE DEF F, E
<1>3. 0 \in Good
  <2> SUFFICES ASSUME NEW s \in SUBSET S, Cardinality(s) = 0 PROVE a * F(s) <= b * E(s)
    OBVIOUS
  <2>1. s = {}
    BY <1>0, FS_EmptySet
  <2> QED
    BY <1>2, <2>1
<1>4. ASSUME NEW n \in Good PROVE n + 1 \in Good
  <2> SUFFICES ASSUME NEW s \in SUBSET S, Cardinality(s) = n + 1 PROVE a * F(s) <= b * E(s)
    OBVIOUS
  <2>1. n \in Nat /\ s # {}
    BY FS_EmptySet
  <2>2. PICK x \in s : TRUE
    BY <2>1
  <2>3. s \ {x} \in SUBSET S /\ Cardinality(s \ {x}) = n
    <3>1. IsFiniteSet(s) /\ s \ {x} \in SUBSET S
      BY <1>0
    <3>2. Cardinality(s \ {x}) = Cardinality(s) - 1
      BY <3>1, FS_RemoveElement
    <3> QED
      BY <2>1, <3>1, <3>2
  <2> DEFINE fx == f[x]
             ex == e[x]
             Fs == F(s \ {x})
             Es == E(s \ {x})
  <2>4. a * Fs <= b * Es /\ a * fx <= b * ex
    BY <2>3
  <2>5. fx \in Int /\ ex \in Int /\ Fs \in Int /\ Es \in Int
    BY <1>1, <2>3
  <2>6. F(s) = fx + Fs /\ E(s) = ex + Es
    BY <1>1
  <2> HIDE DEF fx, ex, Fs, Es
  <2>7. a * (fx + Fs) = a * fx + a * Fs /\ b * (ex + Es) = b * ex + b * Es
    BY <2>5
  <2>8. a * fx \in Int /\ a * Fs \in Int /\ b * ex \in Int /\ b * Es \in Int
    BY <2>5
  <2> QED
    BY <2>4, <2>6, <2>7, <2>8
<1>5. Good = Nat
  <2> HIDE DEF Good
  <2>1. Good \in SUBSET Nat
    BY DEF Good
  <2> QED
    BY <1>3, <1>4, <2>1, Counting
<1>6. a * F(S) <= b * E(S)
  BY <1>0, <1>5
<1> QED
  BY <1>6 DEF F, E

(* Sums of naturals are naturals.                                          *)
LEMMA SumNat ==
    ASSUME NEW S, IsFiniteSet(S), NEW f, \A x \in S : f[x] \in Nat
    PROVE  SumFunctionOnSet(f, S) \in Nat
<1>1. SumFunctionOnSet(f, S) \in Int
  BY SumRemove
<1>2. \A x \in S : f[x] \in Int /\ 0 * f[x] <= 1 * f[x]
  OBVIOUS
<1>3. 0 * SumFunctionOnSet(f, S) <= 1 * SumFunctionOnSet(f, S)
  BY <1>2, SumScales
<1> QED
  BY <1>1, <1>3

(* What a wallet gets for a block is its part of the work, rounded down.   *)
LEMMA RewardNat ==
    ASSUME LedgerAssumption, NEW b \in Blocks
    PROVE  /\ TotalWork(b) \in Nat
           /\ \A u \in Users : /\ Reward(b, u) \in Nat
                              /\ TotalWork(b) * Reward(b, u) <= Amount[b] * Work[b][u]
<1>1. Amount[b] \in Nat /\ \A u \in Users : Work[b][u] \in Nat
  BY DEF LedgerAssumption
<1>2. TotalWork(b) \in Nat
  BY <1>1, SumNat DEF LedgerAssumption, TotalWork
<1>3. ASSUME NEW u \in Users
      PROVE  /\ Reward(b, u) \in Nat
             /\ TotalWork(b) * Reward(b, u) <= Amount[b] * Work[b][u]
  <2> DEFINE x == Work[b][u] * Amount[b]
             y == TotalWork(b)
  <2>1. x \in Nat /\ y \in Nat /\ x = Amount[b] * Work[b][u]
    BY <1>1, <1>2
  <2>2. Reward(b, u) = IF y = 0 THEN 0 ELSE x \div y
    BY DEF Reward
  <2> HIDE DEF x, y
  <2>3. CASE y = 0
    BY <2>1, <2>2, <2>3 DEF y
  <2>4. CASE y # 0
    <3>1. x \div y \in Nat /\ y * (x \div y) <= x
      BY <2>1, <2>4, Division
    <3> QED
      BY <2>1, <2>2, <2>4, <3>1 DEF y
  <2> QED
    BY <2>3, <2>4
<1> QED
  BY <1>2, <1>3

(* What all wallets get for a block is no more than the block is worth.    *)
LEMMA RewardsFit ==
    ASSUME LedgerAssumption, NEW b \in Blocks
    PROVE  SumFunctionOnSet([u \in Users |-> Reward(b, u)], Users) <= Amount[b]
<1> DEFINE R == [u \in Users |-> Reward(b, u)]
           T == TotalWork(b)
           A == Amount[b]
           sum == SumFunctionOnSet(R, Users)
<1>1. T \in Nat /\ A \in Nat /\ IsFiniteSet(Users)
  BY RewardNat DEF LedgerAssumption
<1>2. \A u \in Users : R[u] \in Nat /\ Work[b][u] \in Nat /\ T * R[u] <= A * Work[b][u]
  BY RewardNat DEF LedgerAssumption
<1> HIDE DEF R
<1>3. sum \in Nat
  BY <1>1, <1>2, SumNat
<1>4. T * sum <= A * T
  <2>1. \A u \in Users : R[u] \in Int /\ Work[b][u] \in Int /\ T * R[u] <= A * Work[b][u]
    BY <1>2
  <2> HIDE DEF T, A
  <2>2. T * SumFunctionOnSet(R, Users) <= A * SumFunctionOnSet(Work[b], Users)
    BY <1>1, <2>1, SumScales
  <2> QED
    BY <2>2 DEF T, TotalWork
<1>5. CASE T = 0
  <2>1. \A u \in Users : R[u] = 0
    BY <1>5 DEF R, Reward
  <2>2. 1 * sum <= 0 * sum
    <3>1. \A u \in Users : R[u] \in Int /\ R[u] \in Int /\ 1 * R[u] <= 0 * R[u]
      BY <2>1
    <3> QED
      BY <1>1, <3>1, SumScales
  <2> HIDE DEF sum, A
  <2>3. sum <= A
    BY <1>1, <1>3, <2>2
  <2> QED
    BY <2>3 DEF sum, A, R
<1>6. CASE T # 0
  <2> HIDE DEF T, A, sum
  <2>1. sum <= A
    <3> SUFFICES ASSUME sum > A PROVE FALSE
      BY <1>1, <1>3
    <3>1. T * sum >= T * (A + 1) /\ T * (A + 1) = A * T + T
      BY <1>1, <1>3
    <3>2. A * T \in Nat /\ T * sum \in Nat
      BY <1>1, <1>3
    <3> QED
      BY <1>1, <1>4, <1>6, <3>1, <3>2
  <2> QED
    BY <2>1 DEF sum, A, R
<1> QED
  BY <1>5, <1>6

(* The highest of finitely many heights is one of them.                    *)
LEMMA HighestIn ==
    ASSUME NEW B, IsFiniteSet(B), B \subseteq Nat, B # {}
    PROVE  Highest(B) \in B
<1> DEFINE Good == {n \in Nat : \A C \in SUBSET B : Cardinality(C) = n /\ C # {} =>
                                   \E b \in C : \A c \in C : c <= b}
<1>0. \A C \in SUBSET B : IsFiniteSet(C) /\ Cardinality(C) \in Nat
  BY FS_Subset, FS_CardinalityType
<1>1. 0 \in Good
  BY <1>0, FS_EmptySet
<1>2. ASSUME NEW n \in Good PROVE n + 1 \in Good
  <2> SUFFICES ASSUME NEW C \in SUBSET B, Cardinality(C) = n + 1, C # {}
               PROVE  \E b \in C : \A c \in C : c <= b
    OBVIOUS
  <2>0. PICK x \in C : TRUE
    OBVIOUS
  <2>1. C \ {x} \in SUBSET B /\ Cardinality(C \ {x}) = n
    <3>1. IsFiniteSet(C) /\ C \ {x} \in SUBSET B /\ n \in Nat
      BY <1>0
    <3>2. Cardinality(C \ {x}) = Cardinality(C) - 1
      BY <3>1, FS_RemoveElement
    <3> QED
      BY <3>1, <3>2
  <2>2. CASE C \ {x} = {}
    <3>1. \A c \in C : c <= x
      BY <2>2
    <3> QED
      BY <3>1
  <2>3. CASE C \ {x} # {}
    <3>1. PICK b \in C \ {x} : \A c \in C \ {x} : c <= b
      BY <2>1, <2>3
    <3>2. b \in Nat /\ x \in Nat
      OBVIOUS
    <3>3. CASE x <= b
      <4>1. \A c \in C : c <= b
        BY <3>1, <3>3
      <4> QED
        BY <4>1
    <3>4. CASE b < x
      <4>1. \A c \in C : c <= x
        BY <3>1, <3>2, <3>4
      <4> QED
        BY <4>1
    <3> QED
      BY <3>2, <3>3, <3>4
  <2> QED
    BY <2>2, <2>3
<1>3. Good = Nat
  <2> HIDE DEF Good
  <2>1. Good \in SUBSET Nat
    BY DEF Good
  <2> QED
    BY <1>1, <1>2, <2>1, Counting
<1>4. \E b \in B : \A c \in B : c <= b
  BY <1>0, <1>3
<1> QED
  BY <1>4 DEF Highest

-----------------------------------------------------------------------------
(* The invariant, and the steps of the splitter.                           *)

(* What the types say of the payer's transactions.                         *)
LEMMA TxFields ==
    ASSUME LedgerTypes
    PROVE  /\ Len(txs) \in Nat /\ DOMAIN txs = 1 .. Len(txs)
           /\ \A k \in DOMAIN txs : /\ txs[k] \in Tx /\ txs[k].pay \subseteq Users
                                    /\ txs[k].state \in TxStates
                                    /\ txs[k].hash \in Nat /\ txs[k].fails \in 0 .. 2
                                    /\ txs[k].hash \in 0 .. Len(transfers)
<1>1. txs \in Seq(Tx)
  BY DEF LedgerTypes
<1>2. \A k \in DOMAIN txs : txs[k] \in Tx /\ txs[k].hash \in 0 .. Len(transfers)
  BY <1>1, ElementOfSeq, LenProperties DEF LedgerTypes, TypeOK
<1> QED
  BY <1>1, <1>2, LenProperties DEF Tx

(* The type of the parts of a transfer, with their domain named.           *)
LEMMA PartFields ==
    ASSUME NEW p
    PROVE  p \in UNION {[P -> PartStates] : P \in SUBSET Users} <=>
              p \in [DOMAIN p -> PartStates] /\ DOMAIN p \subseteq Users
OBVIOUS

(* What the types say of the wallet's transfers.                           *)
LEMMA TransferFields ==
    ASSUME LedgerTypes
    PROVE  /\ Len(transfers) \in Nat /\ DOMAIN transfers = 1 .. Len(transfers)
           /\ \A i \in DOMAIN transfers :
                /\ transfers[i].run \in Nat /\ transfers[i].amount \in [Users -> Nat]
                /\ transfers[i].part \in [DOMAIN transfers[i].part -> PartStates]
                /\ DOMAIN transfers[i].part \subseteq Users
                /\ transfers[i].run <= runs
<1>1. transfers \in Seq(Transfer)
  BY DEF LedgerTypes
<1>2. \A i \in DOMAIN transfers : transfers[i] \in Transfer
  BY <1>1, ElementOfSeq, LenProperties
<1>3. \A i \in DOMAIN transfers : /\ transfers[i].run \in Nat /\ transfers[i].amount \in [Users -> Nat]
        /\ transfers[i].part \in UNION {[P -> PartStates] : P \in SUBSET Users}
  BY <1>2 DEF Transfer
<1>4. \A i \in DOMAIN transfers : /\ transfers[i].part \in [DOMAIN transfers[i].part -> PartStates]
                                  /\ DOMAIN transfers[i].part \subseteq Users
  BY <1>3, PartFields
<1> QED
  BY <1>1, <1>3, <1>4, LenProperties DEF LedgerTypes

PaidIn(u) == {i \in DOMAIN transfers : u \in DOMAIN transfers[i].part /\ transfers[i].part[u] # "failed"}

(* What was earned and paid are naturals, and sums over finite sets.       *)
LEMMA SumsTyped ==
    ASSUME LedgerAssumption, LedgerTypes, NEW u \in Users
    PROVE  /\ Earned(u) \in Nat /\ Paid(u) \in Nat
           /\ IsFiniteSet(marked) /\ IsFiniteSet(DOMAIN transfers) /\ IsFiniteSet(PaidIn(u))
<1>1. IsFiniteSet(marked) /\ marked \subseteq Blocks
  BY FS_Subset DEF LedgerTypes, TypeOK
<1>2. IsFiniteSet(DOMAIN transfers)
  BY TransferFields, FS_Interval
<1>3. IsFiniteSet(PaidIn(u))
  BY <1>2, FS_Subset DEF PaidIn
<1>4. Earned(u) \in Nat
  <2> DEFINE f == [b \in Blocks |-> Reward(b, u)]
  <2>1. \A b \in marked : f[b] \in Nat
    BY <1>1, RewardNat
  <2> HIDE DEF f
  <2>2. SumFunctionOnSet(f, marked) \in Nat
    BY <1>1, <2>1, SumNat
  <2> QED
    BY <2>2 DEF Earned, f
<1>5. Paid(u) \in Nat
  <2> DEFINE f == [i \in DOMAIN transfers |-> transfers[i].amount[u]]
  <2>1. \A i \in PaidIn(u) : f[i] \in Nat
    BY TransferFields DEF PaidIn
  <2>2. Paid(u) = SumFunctionOnSet(f, PaidIn(u))
    BY DEF Paid, PaidIn
  <2> HIDE DEF f
  <2> QED
    BY <1>3, <2>1, <2>2, SumNat
<1> QED
  BY <1>1, <1>2, <1>3, <1>4, <1>5

(* The invariant holds at the start.                                       *)
LEMMA InitLedger ==
    ASSUME LedgerAssumption, Init
    PROVE  LedgerInv
<1>1. txs = <<>> /\ transfers = <<>> /\ DOMAIN txs = {} /\ DOMAIN transfers = {}
  BY DEF Init
<1>2. LedgerTypes
  BY <1>1, FS_EmptySet DEF Init, LedgerTypes, TypeOK
<1>3. Splitting /\ Paying /\ BatchesPartition /\ Matched /\ OneTransferPerRun /\ Watched
  BY <1>1 DEF Init, Splitting, Paying, BatchesPartition, Matched, OneTransferPerRun, Watched
<1>4. Covered
  BY <1>1 DEF Init, Covered, NeverOverdrawn
<1>5. Balanced
  <2> SUFFICES ASSUME NEW u \in Users PROVE balance[u] = Earned(u) - Paid(u) + Credit(u) + Debt(u)
    BY DEF Balanced
  <2>1. Credit(u) = 0 /\ balance[u] = 0
    BY DEF Init, Credit
  <2>2. Debt(u) = 0
    BY <1>1 DEF Debt, Unbooked
  <2>3. Earned(u) = 0
    BY SumEmpty DEF Init, Earned
  <2>4. Paid(u) = 0
    <3>1. PaidIn(u) = {}
      BY <1>1 DEF PaidIn
    <3> QED
      BY <3>1, SumEmpty DEF Paid, PaidIn
  <2> QED
    BY <2>1, <2>2, <2>3, <2>4
<1> QED
  BY <1>2, <1>3, <1>4, <1>5 DEF LedgerInv

(* The splitter leaves what the payer and the chain have alone.            *)
LEMMA PayerKept ==
    ASSUME LedgerInv, UNCHANGED <<payVars, transfers>>, tainted \subseteq tainted'
    PROVE  /\ Paying' /\ BatchesPartition' /\ Matched' /\ OneTransferPerRun' /\ Watched'
           /\ \A u : Paid(u)' = Paid(u) /\ Debt(u)' = Debt(u)
<1>0. UNCHANGED <<ppc, txs, amount, cur, owed, curBal, runs, transfers>>
  BY DEF payVars
<1>1. Paying'
  BY <1>0 DEF LedgerInv, Paying, myTx
<1>2. BatchesPartition'
  BY <1>0 DEF LedgerInv, BatchesPartition
<1>3. Matched'
  BY <1>0 DEF LedgerInv, Matched
<1>4. OneTransferPerRun'
  BY <1>0 DEF LedgerInv, OneTransferPerRun
<1>5. Watched'
  BY <1>0 DEF LedgerInv, Watched
<1>6. \A u : Paid(u)' = Paid(u)
  BY <1>0 DEF Paid
<1>7. Unbooked' = Unbooked
  BY <1>0 DEF Unbooked
<1>8. \A u : Debt(u)' = Debt(u)
  BY <1>0, <1>7 DEF Debt
<1> QED
  BY <1>1, <1>2, <1>3, <1>4, <1>5, <1>6, <1>8

(* The splitter is at a block the wallet reports.                          *)
LEMMA SplitterAt ==
    ASSUME LedgerAssumption, LedgerInv
    PROVE  /\ spc # "idle" => block \in unlocked /\ block \in Blocks
           /\ unlocked \subseteq Blocks /\ Blocks \subseteq Nat
           /\ \A u \in Users : Credit(u) \in Nat
           /\ \A u \in Users : spc \notin {"get", "set", "mark"} => Credit(u) = 0
<1>1. /\ spc # "idle" => block \in unlocked /\ block \in Blocks
      /\ unlocked \subseteq Blocks /\ Blocks \subseteq Nat
  BY DEF LedgerInv, LedgerTypes, TypeOK, Splitting, LedgerAssumption
<1>2. ASSUME NEW u \in Users PROVE Credit(u) \in Nat /\ (spc \notin {"get", "set", "mark"} => Credit(u) = 0)
  <2>1. CASE spc \in {"get", "set", "mark"}
    BY <1>1, <2>1, RewardNat DEF Credit
  <2>2. CASE spc \notin {"get", "set", "mark"}
    BY <2>2 DEF Credit
  <2> QED
    BY <2>1, <2>2
<1> QED
  BY <1>1, <1>2

(* The splitter goes to the highest block that is left, or ends.           *)
LEMMA SplitVisits ==
    ASSUME LedgerAssumption, LedgerInv, NEW B, B \subseteq unlocked', unlocked' = unlocked,
           inTx' = B, SplitVisit(B), payees' = {}
    PROVE  Splitting' /\ spc' \in {"idle", "check"}
<1>1. CASE B = {}
  BY <1>1 DEF SplitVisit, Splitting
<1>2. CASE B # {}
  <2>1. IsFiniteSet(B) /\ B \subseteq Nat
    BY FS_Subset, SplitterAt DEF LedgerInv, LedgerTypes
  <2>2. Highest(B) \in B
    BY <1>2, <2>1, HighestIn
  <2> QED
    BY <1>2, <2>2 DEF SplitVisit, Splitting
<1> QED
  BY <1>1, <1>2

(* The types, after a step of the splitter.                                *)
LEMMA TypesKept ==
    ASSUME LedgerInv, UNCHANGED <<payVars, transfers, unlocked>>, balance' \in [Users -> Int],
           marked' \subseteq unlocked, spc' \in {"idle", "check", "get", "set", "mark"},
           payees' \subseteq Users, tainted' \subseteq Users, seen' \in Int
    PROVE  LedgerTypes'
<1>0. UNCHANGED <<ppc, txs, amount, cur, owed, curBal, runs, transfers, unlocked>>
  BY DEF payVars
<1>1. LedgerTypes /\ TypeOK
  BY DEF LedgerInv, LedgerTypes
<1>2. TypeOK'
  BY <1>0, <1>1 DEF TypeOK
<1> QED
  BY <1>0, <1>1, <1>2 DEF LedgerTypes

(* A step of the splitter that changes no balance, and the sum of what is  *)
(* marked and what is credited of the block at hand for no sound wallet.   *)
LEMMA SplitterStep ==
    ASSUME LedgerAssumption, LedgerInv, UNCHANGED <<payVars, transfers, unlocked, balance>>,
           LedgerTypes', Splitting', tainted \subseteq tainted',
           spc' = "set" => balance[CHOOSE v \in payees' : TRUE] <= seen',
           \A u \in Users \ tainted' : (Earned(u) + Credit(u))' = Earned(u) + Credit(u)
    PROVE  LedgerInv'
<1>0. UNCHANGED <<ppc, txs, amount, cur, owed, curBal, runs, transfers, unlocked, balance>>
  BY DEF payVars
<1>1. /\ Paying' /\ BatchesPartition' /\ Matched' /\ OneTransferPerRun' /\ Watched'
      /\ \A u : Paid(u)' = Paid(u) /\ Debt(u)' = Debt(u)
  BY PayerKept
<1>2. Covered'
  BY <1>0 DEF LedgerInv, Covered, NeverOverdrawn, ToBook
<1>3. Balanced'
  <2> SUFFICES ASSUME NEW u \in Users \ tainted'
               PROVE  balance'[u] = (Earned(u) - Paid(u) + Credit(u) + Debt(u))'
    BY DEF Balanced
  <2>1. balance[u] = Earned(u) - Paid(u) + Credit(u) + Debt(u)
    BY DEF LedgerInv, Balanced
  <2> DEFINE e == Earned(u)
             c == Credit(u)
             d == Debt(u)
             p == Paid(u)
             e1 == Earned(u)'
             c1 == Credit(u)'
  <2>2. e \in Nat /\ p \in Nat /\ c \in Nat
    BY SumsTyped, SplitterAt DEF LedgerInv
  <2>3. d \in Nat
    BY DEF Debt, LedgerInv, LedgerTypes, TypeOK
  <2>4. e1 \in Nat /\ c1 \in Nat
    <3>1. Earned(u)' \in Nat
      <4>1. IsFiniteSet(marked') /\ marked' \subseteq Blocks
        BY FS_Subset DEF LedgerTypes, TypeOK
      <4> DEFINE f == [b \in Blocks |-> Reward(b, u)]
      <4>2. \A b \in marked' : f[b] \in Nat
        BY <4>1, RewardNat
      <4> HIDE DEF f
      <4>3. SumFunctionOnSet(f, marked') \in Nat
        BY <4>1, <4>2, SumNat
      <4> QED
        BY <4>3 DEF Earned, f
    <3>2. Credit(u)' \in Nat
      <4>1. CASE spc' \in {"get", "set", "mark"}
        <5>1. block' \in Blocks
          BY <4>1 DEF Splitting, LedgerTypes, TypeOK
        <5>2. Reward(block', u) \in Nat
          BY <5>1, RewardNat
        <5> QED
          BY <5>2 DEF Credit
      <4>2. CASE spc' \notin {"get", "set", "mark"}
        BY <4>2 DEF Credit
      <4> QED
        BY <4>1, <4>2
    <3> QED
      BY <3>1, <3>2
  <2>5. e1 + c1 = e + c
    OBVIOUS
  <2>6. Paid(u)' = p /\ Debt(u)' = d /\ balance'[u] = balance[u]
    BY <1>0, <1>1
  <2> HIDE DEF e, c, d, p, e1, c1
  <2>7. balance[u] = e1 - p + c1 + d
    <3>1. balance[u] = e - p + c + d
      BY <2>1 DEF e, c, d, p
    <3> QED
      BY <3>1, <2>2, <2>3, <2>4, <2>5
  <2> QED
    BY <2>6, <2>7 DEF e1, c1
<1> QED
  BY <1>1, <1>2, <1>3 DEF LedgerInv

(* What was earned changes with the marks only.                            *)
LEMMA EarnedKept ==
    ASSUME marked' = marked
    PROVE  \A u : Earned(u)' = Earned(u)
BY DEF Earned

(* A run of the splitter begins.                                           *)
LEMMA StartSplitLedger ==
    ASSUME LedgerAssumption, LedgerInv, StartSplit
    PROVE  LedgerInv'
<1>1. /\ UNCHANGED <<payVars, transfers, unlocked, balance, marked, tainted, payees, seen>>
      /\ spc = "idle" /\ inTx' = unlocked /\ SplitVisit(unlocked)
  BY DEF StartSplit
<1>2. payees = {}
  BY <1>1 DEF LedgerInv, Splitting
<1>3. Splitting' /\ spc' \in {"idle", "check"}
  BY <1>1, <1>2, SplitVisits
<1>4. LedgerTypes'
  BY <1>1, <1>3, TypesKept DEF LedgerInv, LedgerTypes, TypeOK
<1>5. \A u \in Users : Credit(u)' = 0 /\ Credit(u) = 0 /\ Earned(u)' = Earned(u)
  BY <1>1, <1>3, EarnedKept DEF Credit
<1> QED
  BY <1>1, <1>3, <1>4, <1>5, SplitterStep

(* A block that is marked is passed over, another is begun.                *)
LEMMA CheckBlockLedger ==
    ASSUME LedgerAssumption, LedgerInv, CheckBlock
    PROVE  LedgerInv'
<1>1. /\ UNCHANGED <<payVars, transfers, unlocked, balance, marked, tainted, seen>>
      /\ spc = "check"
  BY DEF CheckBlock
<1>2. payees = {} /\ block \in inTx /\ inTx \subseteq unlocked /\ block \in Blocks
  BY <1>1, SplitterAt DEF LedgerInv, Splitting
<1>3. CASE block \in marked /\ NextBlock /\ payees' = payees
  <2>1. Splitting' /\ spc' \in {"idle", "check"}
    <3>1. inTx \ {block} \subseteq unlocked'
      BY <1>1, <1>2
    <3> QED
      BY <1>1, <1>2, <1>3, <3>1, SplitVisits DEF NextBlock
  <2>2. LedgerTypes'
    BY <1>1, <1>3, <2>1, TypesKept DEF LedgerInv, LedgerTypes, TypeOK
  <2>3. \A u \in Users : Credit(u)' = 0 /\ Credit(u) = 0 /\ Earned(u)' = Earned(u)
    BY <1>1, <2>1, EarnedKept DEF Credit
  <2> QED
    BY <1>1, <2>1, <2>2, <2>3, SplitterStep
<1>4. CASE /\ block \notin marked
           /\ payees' = IF TotalWork(block) > 0 THEN Users ELSE {}
           /\ spc' = IF payees' = {} THEN "mark" ELSE "get"
           /\ UNCHANGED <<inTx, block>>
  <2>1. Splitting'
    BY <1>1, <1>2, <1>4 DEF Splitting
  <2>2. LedgerTypes'
    <3>1. payees' \subseteq Users /\ spc' \in {"mark", "get"}
      BY <1>4
    <3> QED
      BY <1>1, <3>1, TypesKept DEF LedgerInv, LedgerTypes, TypeOK
  <2>3. ASSUME NEW u \in Users PROVE Credit(u)' = 0 /\ Credit(u) = 0 /\ Earned(u)' = Earned(u)
    <3>1. Credit(u) = 0 /\ Earned(u)' = Earned(u)
      BY <1>1, EarnedKept DEF Credit
    <3>2. CASE payees' = Users
      BY <3>1, <3>2 DEF Credit
    <3>3. CASE payees' # Users
      <4>1. ~(TotalWork(block) > 0) /\ TotalWork(block) \in Nat
        BY <1>2, <1>4, <3>3, RewardNat
      <4>2. Reward(block, u) = 0
        BY <4>1 DEF Reward
      <4> QED
        BY <1>4, <3>1, <4>2 DEF Credit
    <3> QED
      BY <3>2, <3>3
  <2>4. spc' # "set"
    BY <1>4
  <2>5. \A u \in Users \ tainted' : (Earned(u) + Credit(u))' = Earned(u) + Credit(u)
    BY <2>3
  <2>6. UNCHANGED <<payVars, transfers, unlocked, balance>> /\ tainted \subseteq tainted'
    BY <1>1
  <2> QED
    BY <2>1, <2>2, <2>4, <2>5, <2>6, SplitterStep
<1> QED
  BY <1>3, <1>4 DEF CheckBlock

(* The splitter reads a balance: from now on it may be out of date.        *)
LEMMA GetBalanceLedger ==
    ASSUME LedgerAssumption, LedgerInv, NEW u \in Users, GetBalance(u)
    PROVE  LedgerInv'
<1>1. /\ UNCHANGED <<payVars, transfers, unlocked, balance, marked, tainted, payees, inTx, block>>
      /\ spc = "get" /\ spc' = "set" /\ u = CHOOSE v \in payees : TRUE
      /\ seen' = balance[u]
  BY DEF GetBalance
<1>2. LedgerTypes'
  <2>1. seen' \in Int /\ spc' \in {"set"}
    BY <1>1 DEF LedgerInv, LedgerTypes, TypeOK
  <2> QED
    BY <1>1, <2>1, TypesKept DEF LedgerInv, LedgerTypes, TypeOK
<1>3. Splitting'
  BY <1>1 DEF LedgerInv, Splitting
<1>4. \A w \in Users : Credit(w)' = Credit(w) /\ Earned(w)' = Earned(w)
  BY <1>1, EarnedKept DEF Credit
<1>5. balance[CHOOSE v \in payees' : TRUE] <= seen'
  BY <1>1 DEF LedgerInv, LedgerTypes, TypeOK
<1> QED
  BY <1>1, <1>2, <1>3, <1>4, <1>5, SplitterStep

(* The block is marked: what was credited of it counts as earned.          *)
LEMMA MarkBlockLedger ==
    ASSUME LedgerAssumption, LedgerInv, MarkBlock
    PROVE  LedgerInv'
<1>1. /\ UNCHANGED <<payVars, transfers, unlocked, balance, tainted, payees, seen>>
      /\ spc = "mark" /\ marked' = marked \union {block} /\ NextBlock
  BY DEF MarkBlock
<1>2. /\ payees = {} /\ block \in inTx /\ inTx \subseteq unlocked /\ block \in Blocks
      /\ block \notin marked /\ marked \subseteq unlocked
  BY <1>1, SplitterAt DEF LedgerInv, Splitting, LedgerTypes, TypeOK
<1>3. Splitting' /\ spc' \in {"idle", "check"}
  <2>1. inTx \ {block} \subseteq unlocked'
    BY <1>1, <1>2
  <2> QED
    BY <1>1, <1>2, <2>1, SplitVisits DEF NextBlock
<1>4. LedgerTypes'
  BY <1>1, <1>2, <1>3, TypesKept DEF LedgerInv, LedgerTypes, TypeOK
<1>5. ASSUME NEW u \in Users
      PROVE  (Earned(u) + Credit(u))' = Earned(u) + Credit(u)
  <2>1. Credit(u) = Reward(block, u) /\ Credit(u)' = 0 /\ Reward(block, u) \in Nat
    BY <1>1, <1>2, <1>3, RewardNat DEF Credit
  <2>2. Earned(u)' = Earned(u) + Reward(block, u)
    <3> DEFINE f == [b \in Blocks |-> Reward(b, u)]
    <3>1. IsFiniteSet(marked) /\ marked \subseteq Blocks
      BY SumsTyped, SplitterAt, <1>2 DEF LedgerInv
    <3>2. \A b \in marked \union {block} : f[b] \in Int
      BY <1>2, <3>1, RewardNat
    <3>3. f[block] = Reward(block, u)
      BY <1>2
    <3> HIDE DEF f
    <3>4. SumFunctionOnSet(f, marked \union {block}) = SumFunctionOnSet(f, marked) + f[block]
      BY <1>2, <3>1, <3>2, SumAdd
    <3> QED
      BY <1>1, <3>3, <3>4 DEF Earned, f
  <2>3. Earned(u) \in Nat
    BY SumsTyped DEF LedgerInv
  <2> DEFINE e == Earned(u)
             r == Reward(block, u)
  <2>4. Earned(u)' + Credit(u)' = (e + r) + 0 /\ Earned(u) + Credit(u) = e + r
    BY <2>1, <2>2
  <2>5. e \in Nat /\ r \in Nat
    BY <2>1, <2>3
  <2> HIDE DEF e, r
  <2> QED
    BY <2>4, <2>5
<1> QED
  BY <1>1, <1>3, <1>4, <1>5, SplitterStep

(* A split given up half-way taints the wallets it has credited.           *)
LEMMA AbortSplitLedger ==
    ASSUME LedgerAssumption, LedgerInv, AbortSplit
    PROVE  LedgerInv'
<1>1. /\ UNCHANGED <<payVars, transfers, unlocked, balance, marked, seen>>
      /\ spc # "idle" /\ spc' = "idle" /\ inTx' = {} /\ payees' = {}
      /\ tainted' = IF spc \in {"get", "set", "mark"}
                    THEN tainted \union {u \in Users \ payees : Reward(block, u) > 0}
                    ELSE tainted
  BY DEF AbortSplit
<1>2. Splitting'
  BY <1>1 DEF Splitting
<1>3. LedgerTypes'
  BY <1>1, TypesKept DEF LedgerInv, LedgerTypes, TypeOK
<1>4. ASSUME NEW u \in Users \ tainted'
      PROVE  Credit(u)' = 0 /\ Credit(u) = 0 /\ Earned(u)' = Earned(u)
  <2>1. Credit(u)' = 0 /\ Earned(u)' = Earned(u)
    BY <1>1, EarnedKept DEF Credit
  <2>2. CASE spc \in {"get", "set", "mark"} /\ u \notin payees
    <3>1. ~(Reward(block, u) > 0) /\ Reward(block, u) \in Nat
      BY <1>1, <2>2, SplitterAt, RewardNat
    <3> QED
      BY <2>1, <2>2, <3>1 DEF Credit
  <2>3. CASE ~(spc \in {"get", "set", "mark"} /\ u \notin payees)
    BY <2>1, <2>3 DEF Credit
  <2> QED
    BY <2>2, <2>3
<1>5. \A u \in Users \ tainted' : (Earned(u) + Credit(u))' = Earned(u) + Credit(u)
  BY <1>4
<1>6. tainted \subseteq tainted' /\ spc' # "set"
  BY <1>1
<1> QED
  BY <1>1, <1>2, <1>3, <1>5, <1>6, SplitterStep

(* A balance is written, the reward on top of the balance that was read; a *)
(* payment booked in between is lost, and taints the wallet.               *)
LEMMA SetBalanceLedger ==
    ASSUME LedgerAssumption, LedgerInv, NEW u \in Users, SetBalance(u)
    PROVE  LedgerInv'
<1> DEFINE r == Reward(block, u)
<1>1. /\ UNCHANGED <<payVars, transfers, unlocked, marked, seen, inTx, block>>
      /\ spc = "set" /\ u \in payees /\ u = CHOOSE v \in payees : TRUE
      /\ balance' = [balance EXCEPT ![u] = seen + r]
      /\ tainted' = IF balance[u] = seen THEN tainted ELSE tainted \union {u}
      /\ payees' = payees \ {u}
      /\ spc' = IF payees' = {} THEN "mark" ELSE "get"
  BY DEF SetBalance, NewBalance
<1>2. block \in Blocks /\ r \in Nat
  BY <1>1, SplitterAt, RewardNat
<1>3. /\ balance \in [Users -> Int] /\ seen \in Int /\ balance[u] <= seen
      /\ \A w \in Users : balance[w] >= 0
  BY <1>1 DEF LedgerInv, LedgerTypes, TypeOK, Covered, NeverOverdrawn
<1> HIDE DEF r
<1>4. /\ balance' \in [Users -> Int]
      /\ balance'[u] = seen + r
      /\ \A w \in Users : w # u => balance'[w] = balance[w]
      /\ \A w \in Users : balance'[w] >= balance[w] /\ balance'[w] \in Int /\ balance[w] \in Int
  <2> DEFINE x == seen + r
  <2>1. x \in Int /\ balance[u] <= x
    BY <1>2, <1>3
  <2>2. balance' = [balance EXCEPT ![u] = x]
    BY <1>1
  <2>3. x = seen + r
    OBVIOUS
  <2> HIDE DEF x
  <2>4. /\ balance' \in [Users -> Int] /\ balance'[u] = x
        /\ \A w \in Users : w # u => balance'[w] = balance[w]
    BY <1>3, <2>1, <2>2
  <2>5. ASSUME NEW w \in Users
        PROVE  balance'[w] >= balance[w] /\ balance'[w] \in Int /\ balance[w] \in Int
    <3>1. balance[w] \in Int
      BY <1>3
    <3>2. CASE w = u
      BY <2>1, <2>4, <3>1, <3>2
    <3>3. CASE w # u
      BY <2>4, <3>1, <3>3
    <3> QED
      BY <3>2, <3>3
  <2> QED
    BY <2>3, <2>4, <2>5
<1>5. LedgerTypes'
  <2>1. spc' \in {"mark", "get"} /\ payees' \subseteq Users /\ tainted' \subseteq Users
    BY <1>1 DEF LedgerInv, LedgerTypes, TypeOK
  <2> QED
    BY <1>1, <1>4, <2>1, TypesKept DEF LedgerInv, LedgerTypes, TypeOK
<1>6. Splitting'
  BY <1>1 DEF LedgerInv, Splitting
<1>7. /\ Paying' /\ BatchesPartition' /\ Matched' /\ OneTransferPerRun' /\ Watched'
      /\ \A w : Paid(w)' = Paid(w) /\ Debt(w)' = Debt(w)
  BY <1>1, PayerKept
<1>8. Covered'
  <2>0. UNCHANGED <<ppc, txs, amount, cur, owed, curBal, runs, transfers>>
    BY <1>1 DEF payVars
  <2>1. NeverOverdrawn'
    BY <1>3, <1>4 DEF NeverOverdrawn
  <2>2. ASSUME NEW k \in DOMAIN txs, NEW w \in txs[k].pay, ToBook(k, w)
        PROVE  amount[w] <= balance'[w]
    <3>1. amount[w] <= balance[w] /\ w \in Users /\ amount[w] \in Nat
      BY <2>2, TxFields DEF LedgerInv, LedgerTypes, TypeOK, Covered
    <3> QED
      BY <3>1, <1>4
  <2>3. spc' # "set"
    BY <1>1
  <2>4. ASSUME ppc = "set", NEW w, w = CHOOSE v \in owed : TRUE
        PROVE  amount[w] <= curBal /\ curBal <= balance'[w]
    <3>1. amount[w] <= curBal /\ curBal <= balance[w]
      BY <2>4 DEF LedgerInv, Covered
    <3>2. w \in Users
      BY <2>4 DEF LedgerInv, Paying, LedgerTypes, TypeOK
    <3>3. curBal \in Int
      BY DEF LedgerInv, LedgerTypes, TypeOK
    <3> QED
      BY <3>1, <3>2, <3>3, <1>4
  <2>5. \A k, w : ToBook(k, w)' <=> ToBook(k, w)
    BY <2>0 DEF ToBook
  <2> QED
    BY <2>0, <2>1, <2>2, <2>3, <2>4, <2>5 DEF Covered
<1>9. Balanced'
  <2> SUFFICES ASSUME NEW w \in Users \ tainted'
               PROVE  balance'[w] = (Earned(w) - Paid(w) + Credit(w) + Debt(w))'
    BY DEF Balanced
  <2>1. Earned(w)' = Earned(w) /\ Paid(w)' = Paid(w) /\ Debt(w)' = Debt(w)
    BY <1>1, <1>7, EarnedKept
  <2>2. w \notin tainted /\ balance[w] = Earned(w) - Paid(w) + Credit(w) + Debt(w)
    BY <1>1 DEF LedgerInv, Balanced
  <2> DEFINE e == Earned(w)
             p == Paid(w)
             d == Debt(w)
  <2>3. e \in Nat /\ p \in Nat /\ d \in Nat
    <3>1. Debt(w) \in Nat
      BY DEF Debt, LedgerInv, LedgerTypes, TypeOK
    <3> QED
      BY <3>1, SumsTyped DEF LedgerInv
  <2>4. balance'[w] = e - p + Credit(w)' + d
    <3>1. CASE w = u
      <4>1. balance[u] = seen
        BY <1>1, <3>1
      <4>2. Credit(w) = 0 /\ Credit(w)' = r
        BY <1>1, <3>1 DEF Credit, r
      <4>3. balance[w] = e - p + 0 + d
        BY <2>2, <4>2
      <4> HIDE DEF e, p, d
      <4>4. seen + r = e - p + r + d
        BY <1>2, <1>3, <2>3, <3>1, <4>1, <4>3
      <4> QED
        BY <1>4, <3>1, <4>2, <4>4
    <3>2. CASE w # u
      <4>1. Credit(w)' = Credit(w)
        BY <1>1, <3>2 DEF Credit
      <4> QED
        BY <1>4, <2>2, <3>2, <4>1
    <3> QED
      BY <3>1, <3>2
  <2> QED
    BY <2>1, <2>4
<1> QED
  BY <1>5, <1>6, <1>7, <1>8, <1>9 DEF LedgerInv

(* The wallet reports one block more.                                      *)
LEMMA UnlockLedger ==
    ASSUME LedgerAssumption, LedgerInv, NEW b \in Blocks, Unlock(b)
    PROVE  LedgerInv'
<1>1. /\ UNCHANGED <<payVars, transfers, balance, marked, tainted, splitVars>>
      /\ unlocked' = unlocked \union {b}
  BY DEF Unlock
<1>2. UNCHANGED <<ppc, txs, amount, cur, owed, curBal, runs, transfers, spc, inTx, block, payees, seen>>
  BY <1>1 DEF payVars, splitVars
<1>3. LedgerTypes'
  <2>1. LedgerTypes /\ TypeOK
    BY DEF LedgerInv, LedgerTypes
  <2>2. IsFiniteSet(unlocked')
    BY <1>1, <2>1, FS_AddElement DEF LedgerTypes
  <2>3. TypeOK'
    BY <1>1, <1>2, <2>1 DEF TypeOK
  <2> QED
    BY <1>2, <2>1, <2>2, <2>3 DEF LedgerTypes
<1>4. Splitting'
  BY <1>1, <1>2 DEF LedgerInv, Splitting
<1>5. /\ Paying' /\ BatchesPartition' /\ Matched' /\ OneTransferPerRun' /\ Watched'
      /\ \A w : Paid(w)' = Paid(w) /\ Debt(w)' = Debt(w)
  BY <1>1, PayerKept
<1>6. Covered'
  BY <1>1, <1>2 DEF LedgerInv, Covered, NeverOverdrawn, ToBook
<1>7. Balanced'
  <2>1. \A w : Earned(w)' = Earned(w) /\ Credit(w)' = Credit(w)
    BY <1>1, <1>2, EarnedKept DEF Credit
  <2> QED
    BY <1>1, <1>5, <2>1 DEF LedgerInv, Balanced
<1> QED
  BY <1>3, <1>4, <1>5, <1>6, <1>7 DEF LedgerInv

-----------------------------------------------------------------------------
(* The visits of the payer.                                                *)

(* The payer leaves the splitter alone.                                    *)
LEMMA SplitterKept ==
    ASSUME LedgerInv, UNCHANGED <<marked, unlocked, splitVars>>
    PROVE  /\ Splitting'
           /\ \A u : Earned(u)' = Earned(u) /\ Credit(u)' = Credit(u)
<1>1. UNCHANGED <<spc, inTx, block, payees, marked, unlocked>>
  BY DEF splitVars
<1>2. Splitting'
  BY <1>1 DEF LedgerInv, Splitting
<1> QED
  BY <1>1, <1>2, EarnedKept DEF Credit

(* The wallet has made a transfer for transaction t.                       *)
Sent(t) == /\ t.hash \in DOMAIN transfers'
           /\ transfers'[t.hash].run = runs /\ transfers'[t.hash].amount = amount
           /\ DOMAIN transfers'[t.hash].part = t.pay
           /\ t.state = "SUCCESS" => \A u \in t.pay : transfers'[t.hash].part[u] = "out"

VisitOf(t) ==
    /\ ppc # "idle" /\ AfterVisit(t)
    /\ UNCHANGED <<marked, unlocked, splitVars, runs, curBal>>
    /\ t.pay = myTx.pay /\ t.state # "PAIDONCHAIN"
    /\ t.state = "QUEUE" => t.hash = 0 /\ t.fails < 2
    /\ t.state \in {"PENDING", "SUCCESS"} => t.hash > 0
    /\ t.hash > 0 => Sent(t)
    /\ myTx.hash > 0 => t.hash = myTx.hash
    /\ transfers' \in Seq(Transfer) /\ Len(transfers) <= Len(transfers')
    /\ \A i \in DOMAIN transfers : transfers'[i] = transfers[i]
    /\ \A i \in DOMAIN transfers' : i \in DOMAIN transfers \/ i = t.hash
    /\ tainted \subseteq tainted' /\ tainted' \subseteq Users
    /\ balance' \in [Users -> Int]

AllDone(t) == /\ \A k \in DOMAIN txs : k # cur => txs[k].state = "SUCCESS"
              /\ t.state = "SUCCESS"

Goes(t) == /\ ppc' = "visit" /\ txs' = [txs EXCEPT ![cur] = t]
           /\ cur' \in DOMAIN txs /\ owed' = {} /\ amount' = amount

(* The payer goes on, or ends when all transactions have succeeded.        *)
LEMMA AfterVisitCases ==
    ASSUME LedgerInv, ppc # "idle", NEW t \in Tx, AfterVisit(t)
    PROVE  (PayerOff /\ AllDone(t)) \/ Goes(t)
<1> DEFINE all == [txs EXCEPT ![cur] = t]
<1>1. Len(txs) \in Nat /\ DOMAIN txs = 1 .. Len(txs) /\ cur \in 1 .. Len(txs)
  BY TxFields DEF LedgerInv, Paying
<1>2. DOMAIN all = DOMAIN txs /\ all[cur] = t /\ \A k \in DOMAIN txs : k # cur => all[k] = txs[k]
  BY <1>1
<1>3. CASE cur = Len(txs) /\ \A k \in DOMAIN all : all[k].state = "SUCCESS"
  <2>1. PayerOff
    BY <1>3 DEF AfterVisit
  <2>2. AllDone(t)
    BY <1>1, <1>2, <1>3 DEF AllDone
  <2> QED
    BY <2>1, <2>2
<1>4. CASE ~(cur = Len(txs) /\ \A k \in DOMAIN all : all[k].state = "SUCCESS")
  <2>1. /\ ppc' = "visit" /\ txs' = all /\ owed' = {} /\ amount' = amount
        /\ cur' = IF cur = Len(txs) THEN 1 ELSE cur + 1
    BY <1>4 DEF AfterVisit
  <2>2. cur' \in DOMAIN txs
    <3> DEFINE l == Len(txs)
    <3>1. l \in Nat /\ cur \in 1 .. l /\ DOMAIN txs = 1 .. l /\ cur' = IF cur = l THEN 1 ELSE cur + 1
      BY <1>1, <2>1
    <3> HIDE DEF l
    <3> QED
      BY <3>1, SMTT(40)
  <2> QED
    BY <2>1, <2>2 DEF Goes
<1> QED
  BY <1>3, <1>4

(* What going on changes of the transactions.                              *)
LEMMA GoesTo ==
    ASSUME LedgerInv, ppc # "idle", NEW t \in Tx, Goes(t)
    PROVE  /\ DOMAIN txs' = DOMAIN txs /\ Len(txs') = Len(txs) /\ txs' \in Seq(Tx)
           /\ cur \in DOMAIN txs /\ txs'[cur] = t
           /\ \A k \in DOMAIN txs : k # cur => txs'[k] = txs[k]
           /\ \A k \in DOMAIN txs : t.pay = myTx.pay => txs'[k].pay = txs[k].pay
<1>1. Len(txs) \in Nat /\ DOMAIN txs = 1 .. Len(txs) /\ cur \in 1 .. Len(txs) /\ txs \in Seq(Tx)
  BY TxFields DEF LedgerInv, Paying, LedgerTypes
<1>2. txs' = [txs EXCEPT ![cur] = t]
  BY DEF Goes
<1>3. /\ DOMAIN txs' = DOMAIN txs /\ txs'[cur] = t
      /\ \A k \in DOMAIN txs : k # cur => txs'[k] = txs[k]
  BY <1>1, <1>2
<1>4. txs' \in Seq(Tx) /\ Len(txs') = Len(txs)
  BY <1>1, <1>2
<1> QED
  BY <1>1, <1>3, <1>4 DEF myTx

(* The types, after a visit of a transaction.                              *)
LEMMA VisitTypes ==
    ASSUME LedgerAssumption, LedgerInv, NEW t \in Tx, VisitOf(t)
    PROVE  LedgerTypes'
<1>1. LedgerTypes /\ TypeOK
  BY DEF LedgerInv, LedgerTypes
<1>2. /\ Len(transfers) \in Nat /\ DOMAIN transfers = 1 .. Len(transfers)
      /\ transfers' \in Seq(Transfer) /\ Len(transfers') \in Nat /\ DOMAIN transfers' = 1 .. Len(transfers')
      /\ Len(transfers) <= Len(transfers')
  BY <1>1, TransferFields, LenProperties DEF VisitOf
<1>3. UNCHANGED <<spc, inTx, block, payees, seen, marked, unlocked, runs, curBal>>
  BY DEF VisitOf, splitVars
<1>4. \A i \in DOMAIN transfers' : transfers'[i].run <= runs'
  <2> SUFFICES ASSUME NEW i \in DOMAIN transfers' PROVE transfers'[i].run <= runs
    BY <1>3
  <2>1. CASE i \in DOMAIN transfers
    BY <1>1, <2>1, TransferFields DEF VisitOf
  <2>2. CASE i = t.hash /\ i \notin DOMAIN transfers
    <3>1. t.hash > 0
      BY <1>2, <2>2
    <3>2. transfers'[i].run = runs /\ runs \in Nat
      BY <1>1, <2>2, <3>1 DEF VisitOf, Sent, LedgerTypes
    <3> QED
      BY <3>2
  <2> QED
    BY <2>1, <2>2 DEF VisitOf
<1>5. t.hash \in 0 .. Len(transfers')
  <2>1. CASE t.hash > 0
    BY <2>1, <1>2 DEF VisitOf, Sent
  <2>2. CASE ~(t.hash > 0)
    BY <2>2, <1>2 DEF Tx
  <2> QED
    BY <2>1, <2>2
<1>6. CASE PayerOff
  <2>1. /\ ppc' = "idle" /\ txs' = <<>> /\ cur' = 1 /\ owed' = {} /\ DOMAIN txs' = {}
        /\ amount' = [u \in Users |-> 0]
    BY <1>6 DEF PayerOff
  <2>2. TypeOK'
    BY <1>1, <1>3, <2>1 DEF TypeOK, VisitOf
  <2>3. txs' \in Seq(Tx) /\ cur' \in Nat
    BY <2>1
  <2> QED
    BY <1>1, <1>2, <1>3, <1>4, <2>2, <2>3 DEF LedgerTypes
<1>7. CASE Goes(t)
  <2>1. ppc # "idle"
    BY DEF VisitOf
  <2>2. /\ DOMAIN txs' = DOMAIN txs /\ txs' \in Seq(Tx) /\ txs'[cur] = t
        /\ \A k \in DOMAIN txs : k # cur => txs'[k] = txs[k]
    BY <2>1, <1>7, GoesTo
  <2>3. cur' \in Nat
    BY <1>1, <1>7, TxFields DEF Goes
  <2>4. ASSUME NEW k \in DOMAIN txs'
        PROVE  txs'[k] \in [pay : SUBSET Users, state : TxStates, hash : 0 .. Len(transfers'), fails : 0 .. 2]
    <3>1. txs'[k] \in Tx /\ txs'[k].hash \in 0 .. Len(transfers')
      <4>1. CASE k = cur
        BY <2>2, <1>5, <4>1
      <4>2. CASE k # cur
        BY <2>2, <1>1, <1>2, <4>2, TxFields
      <4> QED
        BY <4>1, <4>2
    <3> QED
      BY <3>1 DEF Tx
  <2>5. ppc' = "visit" /\ owed' = {} /\ amount' = amount
    BY <1>7 DEF Goes
  <2>6. TypeOK'
    BY <1>1, <1>3, <2>4, <2>5 DEF TypeOK, VisitOf
  <2> QED
    BY <1>1, <1>2, <1>3, <1>4, <2>2, <2>3, <2>6 DEF LedgerTypes
<1> QED
  BY <1>6, <1>7, AfterVisitCases DEF VisitOf

(* What a visit keeps, whatever it has found; that the payer may end with  *)
(* nothing pending is the case to be shown.                                *)
LEMMA VisitKeeps ==
    ASSUME LedgerAssumption, LedgerInv, NEW t \in Tx, VisitOf(t)
    PROVE  /\ Splitting' /\ Paying' /\ BatchesPartition' /\ Matched' /\ OneTransferPerRun' /\ Watched'
<1>0. /\ ppc # "idle" /\ LedgerTypes /\ cur \in DOMAIN txs /\ txs[cur] = myTx
      /\ Paying /\ Matched /\ BatchesPartition /\ runs' = runs
  BY DEF VisitOf, LedgerInv, Paying, myTx
<1>1. Splitting'
  BY SplitterKept DEF VisitOf
<1>2. /\ Len(transfers) \in Nat /\ DOMAIN transfers = 1 .. Len(transfers)
      /\ DOMAIN transfers' = 1 .. Len(transfers') /\ Len(transfers) <= Len(transfers') /\ Len(transfers') \in Nat
      /\ DOMAIN transfers \subseteq DOMAIN transfers'
      /\ \A i \in DOMAIN transfers : transfers'[i] = transfers[i]
      /\ \A i \in DOMAIN transfers' : i \in DOMAIN transfers \/ i = t.hash
  BY <1>0, TransferFields, LenProperties DEF VisitOf
<1>3. t.hash > 0 => Sent(t)
  BY DEF VisitOf
<1>4. t.hash \in Nat
  BY DEF Tx
<1>5. OneTransferPerRun'
  <2> SUFFICES ASSUME NEW i \in DOMAIN transfers', NEW k \in DOMAIN transfers', i # k,
                      transfers'[i].run = transfers'[k].run
               PROVE  DOMAIN transfers'[i].part \intersect DOMAIN transfers'[k].part = {}
    BY DEF OneTransferPerRun
  <2>1. ASSUME NEW x \in DOMAIN transfers, NEW y \in DOMAIN transfers', y \notin DOMAIN transfers,
               transfers'[x].run = transfers'[y].run
        PROVE  DOMAIN transfers'[x].part \intersect DOMAIN transfers'[y].part = {}
    <3>1. y = t.hash /\ t.hash > 0
      BY <1>2, <2>1
    <3>2. transfers'[y].run = runs /\ DOMAIN transfers'[y].part = myTx.pay
      BY <1>3, <3>1 DEF Sent, VisitOf
    <3>3. PICK j \in DOMAIN txs : txs[j].hash = x
      BY <1>0, <1>2, <2>1, <3>2 DEF Matched
    <3>4. x > 0
      BY <1>2
    <3>5. DOMAIN transfers[x].part = txs[j].pay
      BY <1>0, <3>3, <3>4 DEF Matched
    <3>6. j # cur
      <4> SUFFICES ASSUME j = cur PROVE FALSE
        OBVIOUS
      <4>1. myTx.hash = x /\ t.hash = x
        BY <1>0, <3>3, <3>4 DEF VisitOf
      <4> QED
        BY <2>1, <3>1, <4>1
    <3>7. txs[j].pay \intersect txs[cur].pay = {}
      BY <1>0, <3>6 DEF BatchesPartition
    <3> QED
      BY <1>0, <1>2, <3>2, <3>5, <3>7
  <2>2. CASE i \in DOMAIN transfers /\ k \in DOMAIN transfers
    BY <1>2, <2>2 DEF LedgerInv, OneTransferPerRun
  <2>3. CASE i \in DOMAIN transfers /\ k \notin DOMAIN transfers
    BY <2>1, <2>3
  <2>4. CASE i \notin DOMAIN transfers /\ k \in DOMAIN transfers
    BY <2>1, <2>4
  <2>5. CASE i \notin DOMAIN transfers /\ k \notin DOMAIN transfers
    BY <1>2, <2>5
  <2> QED
    BY <2>2, <2>3, <2>4, <2>5
<1>6. CASE PayerOff /\ AllDone(t)
  <2>1. ppc' = "idle" /\ txs' = <<>> /\ owed' = {} /\ DOMAIN txs' = {}
    BY <1>6 DEF PayerOff
  <2>2. Paying' /\ BatchesPartition' /\ Matched'
    BY <2>1 DEF Paying, BatchesPartition, Matched
  <2>3. Watched'
    <3> SUFFICES ASSUME NEW i \in DOMAIN transfers', NEW u \in DOMAIN transfers'[i].part,
                        transfers'[i].part[u] = "pending", u \notin tainted'
                 PROVE  FALSE
      BY DEF Watched
    <3>1. CASE i = t.hash
      <4>1. Sent(t) /\ t.state = "SUCCESS"
        BY <1>2, <1>3, <1>6, <3>1 DEF AllDone
      <4> QED
        BY <3>1, <4>1 DEF Sent
    <3>2. CASE i # t.hash
      <4>1. i \in DOMAIN transfers /\ transfers'[i] = transfers[i] /\ i > 0
        BY <1>2, <3>2
      <4>2. u \notin tainted
        BY DEF VisitOf
      <4>3. PICK k \in DOMAIN txs : txs[k].hash = i
        BY <4>1, <4>2 DEF LedgerInv, Watched
      <4>4. k # cur
        BY <1>0, <3>2, <4>1, <4>3 DEF VisitOf
      <4>5. txs[k].state = "SUCCESS"
        BY <1>6, <4>4 DEF AllDone
      <4> QED
        BY <1>0, <4>1, <4>3, <4>5 DEF Matched
    <3> QED
      BY <3>1, <3>2
  <2> QED
    BY <1>1, <1>5, <2>2, <2>3
<1>7. CASE Goes(t)
  <2>1. /\ DOMAIN txs' = DOMAIN txs /\ txs'[cur] = t
        /\ \A k \in DOMAIN txs : k # cur => txs'[k] = txs[k]
        /\ \A k \in DOMAIN txs : txs'[k].pay = txs[k].pay
    <3>1. t.pay = myTx.pay
      BY DEF VisitOf
    <3> QED
      BY <1>0, <1>7, <3>1, GoesTo
  <2>2. ppc' = "visit" /\ owed' = {} /\ amount' = amount /\ cur' \in DOMAIN txs
    BY <1>7 DEF Goes
  <2>3. Paying'
    <3>1. ASSUME NEW k \in DOMAIN txs'
          PROVE  /\ txs'[k].state = "QUEUE" => txs'[k].hash = 0 /\ txs'[k].fails < 2
                 /\ txs'[k].state \in {"PENDING", "PAIDONCHAIN", "SUCCESS"} => txs'[k].hash > 0
                 /\ txs'[k].state # "PAIDONCHAIN"
      <4>1. CASE k = cur
        BY <2>1, <4>1 DEF VisitOf
      <4>2. CASE k # cur
        BY <1>0, <2>1, <4>2 DEF Paying
      <4> QED
        BY <4>1, <4>2
    <3> QED
      BY <2>1, <2>2, <3>1 DEF Paying
  <2>4. BatchesPartition'
    <3>1. {txs'[k].pay : k \in DOMAIN txs'} = {txs[k].pay : k \in DOMAIN txs}
      BY <2>1
    <3> QED
      BY <1>0, <2>1, <2>2, <3>1 DEF BatchesPartition
  <2>5. Matched'
    <3>1. ASSUME NEW k \in DOMAIN txs', txs'[k].hash > 0
          PROVE  /\ txs'[k].hash \in DOMAIN transfers'
                 /\ transfers'[txs'[k].hash].run = runs
                 /\ transfers'[txs'[k].hash].amount = amount
                 /\ DOMAIN transfers'[txs'[k].hash].part = txs'[k].pay
                 /\ txs'[k].state \in {"PAIDONCHAIN", "SUCCESS"} =>
                      \A u \in txs'[k].pay : transfers'[txs'[k].hash].part[u] = "out"
      <4>1. CASE k = cur
        BY <1>3, <2>1, <3>1, <4>1 DEF Sent, VisitOf
      <4>2. CASE k # cur
        BY <1>0, <1>2, <2>1, <3>1, <4>2 DEF Matched
      <4> QED
        BY <4>1, <4>2
    <3>2. ASSUME NEW i \in DOMAIN transfers', transfers'[i].run = runs
          PROVE  \E k \in DOMAIN txs' : txs'[k].hash = i
      <4>1. CASE i = t.hash
        BY <1>0, <2>1, <4>1
      <4>2. CASE i # t.hash
        <5>1. i \in DOMAIN transfers /\ transfers[i].run = runs /\ i > 0
          BY <1>2, <3>2, <4>2
        <5>2. PICK k \in DOMAIN txs : txs[k].hash = i
          BY <1>0, <5>1 DEF Matched
        <5>3. k # cur
          BY <1>0, <4>2, <5>1, <5>2 DEF VisitOf
        <5> QED
          BY <2>1, <5>2, <5>3
      <4> QED
        BY <4>1, <4>2
    <3> QED
      BY <1>0, <2>2, <3>1, <3>2 DEF Matched
  <2>6. Watched'
    <3> SUFFICES ASSUME NEW i \in DOMAIN transfers', NEW u \in DOMAIN transfers'[i].part,
                        transfers'[i].part[u] = "pending", u \notin tainted'
                 PROVE  \E k \in DOMAIN txs' : txs'[k].hash = i
      BY DEF Watched
    <3>1. CASE i = t.hash
      BY <1>0, <2>1, <3>1
    <3>2. CASE i # t.hash
      <4>1. i \in DOMAIN transfers /\ transfers'[i] = transfers[i] /\ i > 0
        BY <1>2, <3>2
      <4>2. u \notin tainted
        BY DEF VisitOf
      <4>3. PICK k \in DOMAIN txs : txs[k].hash = i
        BY <4>1, <4>2 DEF LedgerInv, Watched
      <4>4. k # cur
        BY <1>0, <3>2, <4>1, <4>3 DEF VisitOf
      <4> QED
        BY <2>1, <4>3, <4>4
    <3> QED
      BY <3>1, <3>2
  <2> QED
    BY <1>1, <1>5, <2>3, <2>4, <2>5, <2>6
<1> QED
  BY <1>0, <1>6, <1>7, AfterVisitCases DEF VisitOf

(* What a wallet was paid depends on its own transfers.                    *)
LEMMA PaidSame ==
    ASSUME LedgerAssumption, LedgerTypes, NEW u \in Users, PaidIn(u)' = PaidIn(u),
           \A i \in PaidIn(u) : i \in DOMAIN transfers' /\ transfers'[i].amount[u] = transfers[i].amount[u]
    PROVE  Paid(u)' = Paid(u)
<1> DEFINE f == [i \in DOMAIN transfers |-> transfers[i].amount[u]]
           g == [i \in DOMAIN transfers' |-> transfers'[i].amount[u]]
           S == PaidIn(u)
<1>1. IsFiniteSet(S)
  BY SumsTyped
<1>2. \A i \in S : f[i] = g[i]
  BY DEF PaidIn
<1>3. Paid(u) = SumFunctionOnSet(f, S) /\ Paid(u)' = SumFunctionOnSet(g, S)
  BY DEF Paid, PaidIn
<1> HIDE DEF f, g, S
<1>4. SumFunctionOnSet(f, S) = SumFunctionOnSet(g, S)
  BY <1>1, <1>2, SumSame
<1> QED
  BY <1>3, <1>4

(* The covers of the splitter, after a step of the payer that lowers no    *)
(* balance.                                                                *)
LEMMA VisitCovered ==
    ASSUME LedgerAssumption, LedgerInv, NEW t \in Tx, VisitOf(t), balance' = balance,
           t.state # "SUCCESS" => myTx.state # "SUCCESS" /\ owed = {}
    PROVE  Covered'
<1>0. LedgerTypes /\ ppc # "idle" /\ UNCHANGED <<spc, seen, payees>> /\ Paying /\ cur \in DOMAIN txs
  BY DEF LedgerInv, VisitOf, splitVars, Paying
<1>1. NeverOverdrawn'
  BY DEF LedgerInv, Covered, NeverOverdrawn
<1>2. spc' = "set" => balance'[CHOOSE v \in payees' : TRUE] <= seen'
  BY <1>0 DEF LedgerInv, Covered
<1>3. CASE PayerOff
  BY <1>1, <1>2, <1>3 DEF PayerOff, Covered
<1>4. CASE Goes(t)
  <2>1. /\ DOMAIN txs' = DOMAIN txs /\ txs'[cur] = t
        /\ \A k \in DOMAIN txs : k # cur => txs'[k] = txs[k]
        /\ \A k \in DOMAIN txs : txs'[k].pay = txs[k].pay
    <3>1. t.pay = myTx.pay
      BY DEF VisitOf
    <3> QED
      BY <1>0, <1>4, <3>1, GoesTo
  <2>2. ppc' = "visit" /\ owed' = {} /\ amount' = amount
    BY <1>4 DEF Goes
  <2>3. ASSUME NEW k \in DOMAIN txs', NEW u \in txs'[k].pay, ToBook(k, u)'
        PROVE  amount'[u] <= balance'[u]
    <3>1. u \in txs[k].pay /\ k \in DOMAIN txs
      BY <2>1, <2>3
    <3>2. ToBook(k, u)
      <4>1. CASE k = cur
        <5>1. t.state # "SUCCESS"
          BY <2>1, <2>3, <4>1 DEF ToBook
        <5> QED
          BY <4>1, <5>1 DEF ToBook, myTx
      <4>2. CASE k # cur
        BY <2>1, <2>3, <4>2 DEF ToBook
      <4> QED
        BY <4>1, <4>2
    <3> QED
      BY <2>2, <3>1, <3>2 DEF LedgerInv, Covered
  <2> QED
    BY <1>1, <1>2, <2>2, <2>3 DEF Covered
<1> QED
  BY <1>0, <1>3, <1>4, AfterVisitCases DEF VisitOf

(* Of the wallets to be booked, a visit changes at most those of its own   *)
(* transaction.                                                            *)
InDoubt(k, u) == /\ txs[k].hash > 0 /\ txs[k].state # "SUCCESS"
                 /\ transfers[txs[k].hash].part[u] # "failed"
                 /\ k = cur /\ ppc # "visit" => u \in owed

(* A wallet is unbooked when some transaction of its is in doubt.          *)
LEMMA UnbookedIs ==
    ASSUME NEW u
    PROVE  u \in Unbooked <=> \E k \in DOMAIN txs : u \in txs[k].pay /\ InDoubt(k, u)
<1> DEFINE K == {k \in DOMAIN txs : txs[k].hash > 0 /\ txs[k].state # "SUCCESS"}
           U(k) == {v \in txs[k].pay : /\ transfers[txs[k].hash].part[v] # "failed"
                                       /\ k = cur /\ ppc # "visit" => v \in owed}
<1>1. Unbooked = UNION {U(k) : k \in K}
  BY DEF Unbooked
<1>2. u \in Unbooked <=> \E k \in K : u \in U(k)
  BY <1>1
<1>3. \A k : (k \in K /\ u \in U(k)) <=> (k \in DOMAIN txs /\ u \in txs[k].pay /\ InDoubt(k, u))
  BY DEF InDoubt
<1> HIDE DEF K, U
<1> QED
  BY <1>2, <1>3

(* The same, of the next state.                                            *)
LEMMA UnbookedNext ==
    ASSUME NEW u
    PROVE  u \in Unbooked' <=> \E k \in DOMAIN txs' : u \in txs'[k].pay /\ InDoubt(k, u)'
<1> DEFINE K == {k \in DOMAIN txs' : txs'[k].hash > 0 /\ txs'[k].state # "SUCCESS"}
           U(k) == {v \in txs'[k].pay : /\ transfers'[txs'[k].hash].part[v] # "failed"
                                        /\ k = cur' /\ ppc' # "visit" => v \in owed'}
<1>1. Unbooked' = UNION {U(k) : k \in K}
  BY DEF Unbooked
<1>2. u \in Unbooked' <=> \E k \in K : u \in U(k)
  BY <1>1
<1>3. \A k : (k \in K /\ u \in U(k)) <=> (k \in DOMAIN txs' /\ u \in txs'[k].pay /\ InDoubt(k, u)')
  BY DEF InDoubt
<1> HIDE DEF K, U
<1> QED
  BY <1>2, <1>3

(* A visit that neither sends nor books keeps the invariant.               *)
LEMMA VisitIdle ==
    ASSUME LedgerAssumption, LedgerInv, NEW t \in Tx, VisitOf(t), ppc = "visit",
           UNCHANGED <<transfers, balance, tainted>>, t.hash = myTx.hash,
           t.state = "SUCCESS" <=> myTx.state = "SUCCESS"
    PROVE  LedgerInv'
<1>0. Paying /\ owed = {} /\ cur \in DOMAIN txs
  BY DEF LedgerInv, Paying
<1>1. /\ LedgerTypes' /\ Splitting' /\ Paying' /\ BatchesPartition' /\ Matched' /\ OneTransferPerRun' /\ Watched'
  BY VisitTypes, VisitKeeps
<1>2. Covered'
  BY <1>0, VisitCovered
<1>3. \A u : u \in Unbooked' <=> u \in Unbooked
  <2>1. CASE PayerOff /\ AllDone(t)
    <3>1. DOMAIN txs' = {}
      BY <2>1 DEF PayerOff
    <3>2. \A k \in DOMAIN txs : txs[k].state = "SUCCESS"
      BY <2>1 DEF AllDone, myTx
    <3>3. Unbooked' = {}
      BY <3>1 DEF Unbooked
    <3>4. Unbooked = {}
      BY <3>2 DEF Unbooked
    <3> QED
      BY <3>3, <3>4
  <2>2. CASE Goes(t)
    <3>1. /\ DOMAIN txs' = DOMAIN txs /\ txs'[cur] = t /\ ppc' = "visit"
          /\ \A k \in DOMAIN txs : k # cur => txs'[k] = txs[k]
          /\ \A k \in DOMAIN txs : txs'[k].pay = txs[k].pay
      <4>1. t.pay = myTx.pay
        BY DEF VisitOf
      <4> QED
        BY <2>2, <4>1, GoesTo DEF Goes
    <3>2. ASSUME NEW u, NEW k \in DOMAIN txs
          PROVE  /\ txs'[k].hash = txs[k].hash
                 /\ txs'[k].state = "SUCCESS" <=> txs[k].state = "SUCCESS"
      BY <3>1 DEF myTx
    <3>3. Unbooked' = Unbooked
      <4> DEFINE K == {k \in DOMAIN txs : txs[k].hash > 0 /\ txs[k].state # "SUCCESS"}
      <4>1. K' = K
        BY <3>1, <3>2
      <4>2. Unbooked = UNION {{u \in txs[k].pay : transfers[txs[k].hash].part[u] # "failed"} : k \in K}
        BY DEF Unbooked
      <4>3. Unbooked' = UNION {{u \in txs'[k].pay : transfers[txs'[k].hash].part[u] # "failed"} : k \in K'}
        BY <3>1 DEF Unbooked
      <4>4. Unbooked' = UNION {{u \in txs[k].pay : transfers[txs[k].hash].part[u] # "failed"} : k \in K}
        BY <3>1, <3>2, <4>1, <4>3
      <4> QED
        BY <4>2, <4>4
    <3> QED
      BY <3>3
  <2> QED
    BY <2>1, <2>2, AfterVisitCases DEF VisitOf
<1>4. \A u \in Users : Debt(u)' = Debt(u)
  <2>1. CASE PayerOff /\ AllDone(t)
    <3>1. Unbooked' = {}
      BY <2>1 DEF Unbooked, PayerOff
    <3> QED
      BY <1>3, <3>1 DEF Debt
  <2>2. CASE Goes(t)
    BY <1>3, <2>2 DEF Debt, Goes
  <2> QED
    BY <2>1, <2>2, AfterVisitCases DEF VisitOf
<1>5. Balanced'
  <2>1. \A u : Earned(u)' = Earned(u) /\ Credit(u)' = Credit(u)
    BY SplitterKept DEF VisitOf
  <2>2. \A u : Paid(u)' = Paid(u)
    BY DEF Paid
  <2> QED
    BY <1>4, <2>1, <2>2 DEF LedgerInv, Balanced
<1> QED
  BY <1>1, <1>2, <1>5 DEF LedgerInv

(* What is known of the transaction at hand.                               *)
LEMMA MyTx ==
    ASSUME LedgerInv, ppc # "idle"
    PROVE  /\ cur \in DOMAIN txs /\ myTx \in Tx /\ myTx = txs[cur]
           /\ myTx.pay \subseteq Users /\ myTx.state \in TxStates /\ myTx.hash \in Nat /\ myTx.fails \in 0 .. 2
           /\ myTx.state = "QUEUE" => myTx.hash = 0 /\ myTx.fails < 2
           /\ myTx.state \in {"PENDING", "PAIDONCHAIN", "SUCCESS"} => myTx.hash > 0
           /\ myTx.hash > 0 =>
                /\ myTx.hash \in DOMAIN transfers
                /\ transfers[myTx.hash].run = runs /\ transfers[myTx.hash].amount = amount
                /\ DOMAIN transfers[myTx.hash].part = myTx.pay
                /\ myTx.state \in {"PAIDONCHAIN", "SUCCESS"} =>
                     \A u \in myTx.pay : transfers[myTx.hash].part[u] = "out"
           /\ ppc = "visit" <=> owed = {}
           /\ owed # {} => owed \subseteq myTx.pay /\ myTx.state = "PAIDONCHAIN"
           /\ myTx.state = "PAIDONCHAIN" => owed # {}
<1>1. LedgerTypes /\ Paying /\ Matched /\ TypeOK
  BY DEF LedgerInv, LedgerTypes
<1>2. cur \in DOMAIN txs
  BY <1>1 DEF Paying
<1>3. /\ myTx \in Tx /\ myTx.pay \subseteq Users /\ myTx.state \in TxStates /\ myTx.hash \in Nat
      /\ myTx.fails \in 0 .. 2 /\ myTx = txs[cur]
  BY <1>1, <1>2, TxFields DEF myTx
<1>4. /\ myTx.state = "QUEUE" => myTx.hash = 0 /\ myTx.fails < 2
      /\ myTx.state \in {"PENDING", "PAIDONCHAIN", "SUCCESS"} => myTx.hash > 0
      /\ owed # {} => owed \subseteq myTx.pay /\ myTx.state = "PAIDONCHAIN"
      /\ myTx.state = "PAIDONCHAIN" => owed # {}
  BY <1>1, <1>2 DEF Paying, myTx
<1>5. ppc = "visit" <=> owed = {}
  BY <1>1 DEF Paying, TypeOK
<1>6. myTx.hash > 0 =>
                /\ myTx.hash \in DOMAIN transfers
                /\ transfers[myTx.hash].run = runs /\ transfers[myTx.hash].amount = amount
                /\ DOMAIN transfers[myTx.hash].part = myTx.pay
                /\ myTx.state \in {"PAIDONCHAIN", "SUCCESS"} =>
                     \A u \in myTx.pay : transfers[myTx.hash].part[u] = "out"
  BY <1>1, <1>2 DEF Matched, myTx
<1> QED
  BY <1>2, <1>3, <1>4, <1>5, <1>6

(* A visit that leaves the wallet alone keeps the invariant.               *)
LEMMA IdleVisit ==
    ASSUME LedgerAssumption, LedgerInv, ppc = "visit", UNCHANGED <<payerOnly, transfers, tainted>>,
           NEW t \in Tx, AfterVisit(t), t.pay = myTx.pay, t.hash = myTx.hash, t.state # "PAIDONCHAIN",
           t.state = "QUEUE" => t.hash = 0 /\ t.fails < 2,
           t.state \in {"PENDING", "SUCCESS"} => t.hash > 0,
           t.state = "SUCCESS" <=> myTx.state = "SUCCESS"
    PROVE  LedgerInv'
<1>1. UNCHANGED <<balance, marked, unlocked, splitVars, curBal, runs>>
  BY DEF payerOnly
<1>2. t.hash > 0 => Sent(t)
  BY MyTx DEF Sent
<1>3. transfers \in Seq(Transfer) /\ Len(transfers) \in Nat /\ balance \in [Users -> Int] /\ tainted \subseteq Users
  BY TransferFields DEF LedgerInv, LedgerTypes, TypeOK
<1>4. VisitOf(t)
  BY <1>1, <1>2, <1>3 DEF VisitOf
<1> QED
  BY <1>1, <1>4, VisitIdle

(* A failed transaction is queued again when it was never sent, or fails   *)
(* for good.                                                               *)
LEMMA RequeuedIs ==
    ASSUME NEW t \in Tx
    PROVE  /\ Requeued(t) \in Tx /\ Requeued(t).pay = t.pay /\ Requeued(t).hash = t.hash
           /\ Requeued(t).fails = t.fails /\ Requeued(t).state \in {"QUEUE", "FAILED"}
           /\ Requeued(t).state = "QUEUE" => t.hash = 0 /\ t.fails < 2
<1>1. t = [pay |-> t.pay, state |-> t.state, hash |-> t.hash, fails |-> t.fails]
  BY DEF Tx
<1>2. t.pay \in SUBSET Users /\ t.hash \in Nat /\ t.fails \in 0 .. 2
  BY DEF Tx
<1>3. Requeued(t) = [pay |-> t.pay, hash |-> t.hash, fails |-> t.fails,
                     state |-> IF t.fails < 2 /\ t.hash = 0 THEN "QUEUE" ELSE "FAILED"]
  BY <1>1 DEF Requeued
<1> QED
  BY <1>2, <1>3 DEF Tx, TxStates

(* A visit that waits for unlocked money.                                  *)
LEMMA WaitLedger ==
    ASSUME LedgerAssumption, LedgerInv, Wait
    PROVE  LedgerInv'
<1>1. /\ ppc = "visit" /\ myTx.state = "QUEUE" /\ AfterVisit(myTx)
      /\ UNCHANGED <<payerOnly, transfers, tainted>>
  BY DEF Wait, Visit
<1>2. myTx \in Tx /\ myTx.hash = 0 /\ myTx.fails < 2
  BY <1>1, MyTx
<1> QED
  BY <1>1, <1>2, IdleVisit

(* The wallet refuses a send.                                              *)
LEMMA SendRefusedLedger ==
    ASSUME LedgerAssumption, LedgerInv, SendRefused
    PROVE  LedgerInv'
<1> DEFINE t == [myTx EXCEPT !.fails = @ + 1]
<1>1. /\ ppc = "visit" /\ myTx.state = "QUEUE" /\ AfterVisit(Requeued(t))
      /\ UNCHANGED <<payerOnly, transfers, tainted>>
  BY DEF SendRefused, Visit
<1>2. myTx \in Tx /\ myTx.hash = 0 /\ myTx.fails < 2
  BY <1>1, MyTx
<1>3. t \in Tx /\ t.pay = myTx.pay /\ t.hash = 0
  <2>1. myTx.fails + 1 \in 0 .. 2
    BY <1>2 DEF Tx
  <2> QED
    BY <1>2, <2>1 DEF Tx
<1> HIDE DEF t
<1>4. /\ Requeued(t) \in Tx /\ Requeued(t).pay = myTx.pay /\ Requeued(t).hash = 0
      /\ Requeued(t).state \in {"QUEUE", "FAILED"}
      /\ Requeued(t).state = "QUEUE" => Requeued(t).fails < 2
  BY <1>3, RequeuedIs
<1> QED
  BY <1>1, <1>2, <1>4, IdleVisit

(* A visit of a transaction that has failed or succeeded.                  *)
LEMMA SkipLedger ==
    ASSUME LedgerAssumption, LedgerInv, Skip
    PROVE  LedgerInv'
<1>1. /\ ppc = "visit" /\ UNCHANGED <<payerOnly, transfers, tainted>> /\ myTx \in Tx
  BY MyTx DEF Skip, Visit
<1>2. CASE Visit("FAILED") /\ AfterVisit(Requeued(myTx))
  <2>1. /\ Requeued(myTx) \in Tx /\ Requeued(myTx).pay = myTx.pay /\ Requeued(myTx).hash = myTx.hash
        /\ Requeued(myTx).state \in {"QUEUE", "FAILED"} /\ Requeued(myTx).fails = myTx.fails
        /\ Requeued(myTx).state = "QUEUE" => myTx.hash = 0 /\ myTx.fails < 2
    BY <1>1, RequeuedIs
  <2>2. myTx.state = "FAILED" /\ AfterVisit(Requeued(myTx))
    BY <1>2 DEF Visit
  <2> QED
    BY <1>1, <2>1, <2>2, IdleVisit
<1>3. CASE Visit("SUCCESS") /\ AfterVisit(myTx)
  <2>1. myTx.state = "SUCCESS" /\ AfterVisit(myTx) /\ myTx.hash > 0
    BY <1>1, <1>3, MyTx DEF Visit
  <2> QED
    BY <1>1, <2>1, IdleVisit
<1> QED
  BY <1>2, <1>3 DEF Skip

(* The payer asks for the state of a transfer; what is on the chain is to  *)
(* be booked.                                                              *)
LEMMA QueryStateLedger ==
    ASSUME LedgerAssumption, LedgerInv, QueryState
    PROVE  LedgerInv'
<1>1. /\ ppc = "visit" /\ UNCHANGED <<payerOnly, transfers, tainted>> /\ myTx \in Tx
      /\ myTx.state = "PENDING" /\ myTx.hash > 0
  BY MyTx DEF QueryState, Visit
<1>2. PICK s \in StatesSeen(myTx) :
         CASE s = "PAIDONCHAIN" -> /\ ppc' = "get"
                                   /\ txs' = [txs EXCEPT ![cur].state = s]
                                   /\ owed' = myTx.pay
                                   /\ UNCHANGED <<cur, amount>>
           [] s = "PENDING"     -> AfterVisit(myTx)
           [] s = "FAILED"      -> AfterVisit(Requeued(myTx))
  BY DEF QueryState
<1>3. CASE s = "PENDING"
  <2>1. AfterVisit(myTx)
    BY <1>2, <1>3
  <2> QED
    BY <1>1, <2>1, IdleVisit
<1>4. CASE s = "FAILED"
  <2>1. AfterVisit(Requeued(myTx))
    BY <1>2, <1>4
  <2>2. /\ Requeued(myTx) \in Tx /\ Requeued(myTx).pay = myTx.pay /\ Requeued(myTx).hash = myTx.hash
        /\ Requeued(myTx).state \in {"QUEUE", "FAILED"} /\ Requeued(myTx).fails = myTx.fails
        /\ Requeued(myTx).state = "QUEUE" => myTx.hash = 0 /\ myTx.fails < 2
    BY <1>1, RequeuedIs
  <2> QED
    BY <1>1, <2>1, <2>2, IdleVisit
<1>5. CASE s = "PAIDONCHAIN"
  <2>1. /\ ppc' = "get" /\ owed' = myTx.pay /\ UNCHANGED <<cur, amount>>
        /\ txs' = [txs EXCEPT ![cur].state = "PAIDONCHAIN"]
    BY <1>2, <1>5
  <2>2. UNCHANGED <<balance, marked, unlocked, splitVars, curBal, runs, transfers, tainted,
                    spc, inTx, block, payees, seen>>
    BY <1>1 DEF payerOnly, splitVars
  <2>3. \A u \in myTx.pay : transfers[myTx.hash].part[u] = "out"
    BY <1>5 DEF StatesSeen
  <2>4. /\ LedgerTypes /\ TypeOK /\ Paying /\ Matched /\ BatchesPartition /\ Splitting /\ owed = {}
        /\ cur \in DOMAIN txs /\ myTx = txs[cur] /\ myTx.pay \subseteq Users
    BY <1>1, MyTx DEF LedgerInv, LedgerTypes
  <2>5. myTx.pay # {}
    <3>1. Cardinality(myTx.pay) \in 1 .. BatchSize
      BY <1>1, <2>4 DEF BatchesPartition
    <3>2. BatchSize \in Nat
      BY DEF LedgerAssumption
    <3> QED
      BY <3>1, <3>2, FS_EmptySet
  <2> DEFINE t == [myTx EXCEPT !.state = "PAIDONCHAIN"]
  <2>6. /\ t \in Tx /\ t.state = "PAIDONCHAIN" /\ t.pay = myTx.pay /\ t.hash = myTx.hash /\ t.fails = myTx.fails
    BY <1>1 DEF Tx, TxStates
  <2>7. txs' = [txs EXCEPT ![cur] = t]
    BY <2>1, <2>4
  <2> HIDE DEF t
  <2>8. /\ DOMAIN txs' = DOMAIN txs /\ txs'[cur] = t /\ txs' \in Seq(Tx)
        /\ \A k \in DOMAIN txs : k # cur => txs'[k] = txs[k]
        /\ \A k \in DOMAIN txs : txs'[k].pay = txs[k].pay /\ txs'[k].hash = txs[k].hash
        /\ \A k \in DOMAIN txs : txs'[k] \in Tx /\ txs'[k].hash \in 0 .. Len(transfers)
    <3>1. txs \in Seq(Tx) /\ Len(txs) \in Nat /\ DOMAIN txs = 1 .. Len(txs)
      BY <2>4, TxFields DEF LedgerTypes
    <3>2. /\ DOMAIN txs' = DOMAIN txs /\ txs'[cur] = t /\ txs' \in Seq(Tx)
          /\ \A k \in DOMAIN txs : k # cur => txs'[k] = txs[k]
      BY <2>4, <2>6, <2>7, <3>1
    <3>3. \A k \in DOMAIN txs : txs[k] \in Tx /\ txs[k].hash \in 0 .. Len(transfers)
      BY <2>4, TxFields
    <3> QED
      BY <2>4, <2>6, <3>2, <3>3
  <2>9. LedgerTypes'
    <3>1. \A k \in DOMAIN txs' : txs'[k] \in [pay : SUBSET Users, state : TxStates,
                                              hash : 0 .. Len(transfers), fails : 0 .. 2]
      BY <2>8 DEF Tx
    <3>2. TypeOK'
      BY <2>1, <2>2, <2>4, <3>1 DEF TypeOK
    <3> QED
      BY <2>1, <2>2, <2>4, <2>8, <3>2 DEF LedgerTypes
  <2>10. Splitting'
    BY <2>2, <2>4 DEF Splitting
  <2>11. Paying'
    <3>1. ASSUME NEW k \in DOMAIN txs'
          PROVE  /\ txs'[k].state = "QUEUE" => txs'[k].hash = 0 /\ txs'[k].fails < 2
                 /\ txs'[k].state \in {"PENDING", "PAIDONCHAIN", "SUCCESS"} => txs'[k].hash > 0
                 /\ txs'[k].state = "PAIDONCHAIN" => k = cur
      <4>1. CASE k = cur
        BY <1>1, <2>6, <2>8, <4>1
      <4>2. CASE k # cur
        BY <2>4, <2>8, <4>2 DEF Paying
      <4> QED
        BY <4>1, <4>2
    <3>2. myTx' = t
      BY <2>1, <2>8 DEF myTx
    <3>3. owed' # {} /\ cur' = cur
      BY <2>1, <2>5
    <3> QED
      BY <2>1, <2>4, <2>6, <2>8, <3>1, <3>2, <3>3 DEF Paying
  <2>12. BatchesPartition'
    <3>1. {txs'[k].pay : k \in DOMAIN txs'} = {txs[k].pay : k \in DOMAIN txs}
      BY <2>8
    <3> QED
      BY <1>1, <2>1, <2>4, <2>8, <3>1 DEF BatchesPartition
  <2>13. Matched'
    <3>1. ASSUME NEW k \in DOMAIN txs', txs'[k].state \in {"PAIDONCHAIN", "SUCCESS"}, txs'[k].hash > 0
          PROVE  \A u \in txs'[k].pay : transfers[txs'[k].hash].part[u] = "out"
      <4>1. CASE k = cur
        BY <2>3, <2>6, <2>8, <4>1
      <4>2. CASE k # cur
        BY <2>4, <2>8, <3>1, <4>2 DEF Matched
      <4> QED
        BY <4>1, <4>2
    <3> QED
      BY <1>1, <2>1, <2>2, <2>4, <2>8, <3>1 DEF Matched
  <2>14. OneTransferPerRun'
    BY <2>2 DEF LedgerInv, OneTransferPerRun
  <2>15. Watched'
    BY <2>2, <2>8 DEF LedgerInv, Watched
  <2>16. Covered'
    <3>1. ASSUME NEW k \in DOMAIN txs', NEW u \in txs'[k].pay, ToBook(k, u)'
          PROVE  amount[u] <= balance[u]
      <4>1. ToBook(k, u)
        <5>1. txs[k].state # "SUCCESS"
          <6>1. CASE k = cur
            BY <1>1, <2>4, <6>1
          <6>2. CASE k # cur
            BY <2>8, <3>1, <6>2 DEF ToBook
          <6> QED
            BY <6>1, <6>2
        <5> QED
          BY <2>4, <5>1 DEF ToBook
      <4> QED
        BY <2>8, <3>1, <4>1 DEF LedgerInv, Covered
    <3> QED
      BY <2>1, <2>2, <3>1 DEF LedgerInv, Covered, NeverOverdrawn
  <2>17. Unbooked' = Unbooked
    <3>1. ASSUME NEW k \in DOMAIN txs PROVE txs'[k].state # "SUCCESS" <=> txs[k].state # "SUCCESS"
      BY <1>1, <2>4, <2>6, <2>8
    <3> DEFINE K == {k \in DOMAIN txs : txs[k].hash > 0 /\ txs[k].state # "SUCCESS"}
    <3>2. K' = K
      BY <2>8, <3>1
    <3>3. Unbooked = UNION {{u \in txs[k].pay : transfers[txs[k].hash].part[u] # "failed"} : k \in K}
      BY <1>1 DEF Unbooked
    <3>4. ASSUME NEW k \in K
          PROVE  {u \in txs'[k].pay : transfers'[txs'[k].hash].part[u] # "failed" /\ (k = cur' /\ ppc' # "visit" => u \in owed')}
                 = {u \in txs[k].pay : transfers[txs[k].hash].part[u] # "failed"}
      BY <2>1, <2>2, <2>4, <2>8
    <3>5. Unbooked' = UNION {{u \in txs'[k].pay : transfers'[txs'[k].hash].part[u] # "failed" /\ (k = cur' /\ ppc' # "visit" => u \in owed')} : k \in K'}
      BY DEF Unbooked
    <3> HIDE DEF K
    <3> QED
      BY <3>2, <3>3, <3>4, <3>5
  <2>18. Balanced'
    <3>1. \A u : Earned(u)' = Earned(u) /\ Credit(u)' = Credit(u)
      BY <2>2, SplitterKept
    <3>2. \A u : Paid(u)' = Paid(u) /\ Debt(u)' = Debt(u)
      BY <2>1, <2>2, <2>17 DEF Paid, Debt
    <3> QED
      BY <2>2, <3>1, <3>2 DEF LedgerInv, Balanced
  <2> QED
    BY <2>9, <2>10, <2>11, <2>12, <2>13, <2>14, <2>15, <2>16, <2>18 DEF LedgerInv
<1>6. s \in {"PAIDONCHAIN", "PENDING", "FAILED"}
  BY DEF StatesSeen
<1> QED
  BY <1>3, <1>4, <1>5, <1>6

-----------------------------------------------------------------------------
(* Runs of the payer, sending and booking.                                 *)

(* A run of the payer begins: the wallets over the threshold are divided   *)
(* among transactions, no transfer has the number of this run.             *)
LEMMA StartPayLedger ==
    ASSUME LedgerAssumption, LedgerInv, StartPay
    PROVE  LedgerInv'
<1> DEFINE P == {u \in Users : balance[u] > Threshold}
           q == Sorted(P, balance)
           N == NumBatches(Cardinality(P))
<1>1. /\ ppc = "idle" /\ P # {} /\ runs' = runs + 1 /\ ppc' = "visit" /\ cur' = 1
      /\ amount' = [u \in Users |-> IF u \in P THEN balance[u] ELSE 0]
      /\ txs' = [k \in 1 .. N |-> NewTx(Batch(q, k))]
      /\ UNCHANGED <<balance, marked, unlocked, splitVars, owed, curBal, transfers, tainted>>
  BY DEF StartPay
<1>2. UNCHANGED <<spc, inTx, block, payees, seen>>
  BY <1>1 DEF splitVars
<1>3. /\ LedgerTypes /\ TypeOK /\ Paying /\ txs = <<>> /\ DOMAIN txs = {} /\ owed = {} /\ runs \in Nat
      /\ Threshold \in Nat /\ BatchSize \in Nat
  BY <1>1, SMTT(40) DEF LedgerInv, LedgerTypes, Paying, LedgerAssumption, TypeOK
<1>4. P \subseteq Users /\ IsFiniteSet(P)
  BY FS_Subset DEF LedgerAssumption
<1>5. \A u \in Users : balance[u] \in Nat /\ (u \in P => balance[u] > 0)
  BY <1>3 DEF LedgerInv, Covered, NeverOverdrawn, TypeOK
<1>6. IsSorted(q, P, balance)
  BY <1>4, <1>5, SortedIs
<1>7. /\ N \in Nat /\ N >= 1
      /\ UNION {Batch(q, k) : k \in 1 .. N} = P
      /\ \A k \in 1 .. N : Cardinality(Batch(q, k)) \in 1 .. BatchSize
      /\ \A j, k \in 1 .. N : j # k => Batch(q, j) \intersect Batch(q, k) = {}
  BY <1>1, <1>4, <1>6, BatchesDivide
<1>8. \A u \in Users : amount'[u] = IF u \in P THEN balance[u] ELSE 0
  BY <1>1
<1> HIDE DEF P, q, N
<1>9. /\ amount' \in [Users -> Nat]
      /\ {u \in Users : amount'[u] > 0} = P
      /\ \A u \in P : amount'[u] = balance[u]
  BY <1>1, <1>4, <1>5, <1>8
<1>10. /\ DOMAIN txs' = 1 .. N
       /\ \A k \in 1 .. N : txs'[k] = [pay |-> Batch(q, k), state |-> "QUEUE", hash |-> 0, fails |-> 0]
  BY <1>1 DEF NewTx
<1>11. \A k \in 1 .. N : Batch(q, k) \subseteq Users
  BY <1>4, <1>7
<1>12. /\ \A k \in DOMAIN txs' : /\ txs'[k].pay = Batch(q, k) /\ txs'[k].state = "QUEUE"
                                 /\ txs'[k].hash = 0 /\ txs'[k].fails = 0
                                 /\ txs'[k] \in Tx
                                 /\ txs'[k] \in [pay : SUBSET Users, state : TxStates,
                                                 hash : 0 .. Len(transfers), fails : 0 .. 2]
       /\ txs' \in Seq(Tx)
  <2>1. Len(transfers) \in Nat
    BY <1>3, TransferFields
  <2>2. \A k \in 1 .. N : txs'[k] \in Tx
    BY <1>10, <1>11 DEF Tx, TxStates
  <2>3. txs' \in [1 .. N -> Tx]
    BY <1>1, <2>2
  <2>4. txs' \in Seq(Tx)
    BY <1>7, <2>3, SeqDef
  <2>5. \A k \in 1 .. N : txs'[k] \in [pay : SUBSET Users, state : TxStates,
                                       hash : 0 .. Len(transfers), fails : 0 .. 2]
    BY <1>10, <1>11, <2>1 DEF TxStates
  <2> QED
    BY <1>10, <2>2, <2>4, <2>5
<1>13. LedgerTypes'
  <2>1. TypeOK'
    BY <1>1, <1>2, <1>3, <1>9, <1>12 DEF TypeOK
  <2>2. \A i \in DOMAIN transfers' : transfers'[i].run <= runs'
    BY <1>1, <1>3, TransferFields
  <2> QED
    BY <1>1, <1>3, <1>12, <2>1, <2>2 DEF LedgerTypes
<1>14. Splitting'
  BY <1>1, SplitterKept
<1>15. Paying'
  BY <1>1, <1>3, <1>7, <1>10, <1>12 DEF Paying
<1>16. BatchesPartition'
  <2>1. {txs'[k].pay : k \in DOMAIN txs'} = {Batch(q, k) : k \in 1 .. N}
    BY <1>10, <1>12
  <2> QED
    BY <1>7, <1>9, <1>10, <1>12, <2>1 DEF BatchesPartition
<1>17. Matched'
  <2>1. ASSUME NEW i \in DOMAIN transfers' PROVE transfers'[i].run # runs'
    <3>1. transfers[i].run \in Nat /\ transfers[i].run <= runs
      BY <1>1, <1>3, <2>1, TransferFields
    <3> QED
      BY <1>1, <1>3, <3>1
  <2> QED
    BY <1>12, <2>1 DEF Matched
<1>18. OneTransferPerRun'
  BY <1>1 DEF LedgerInv, OneTransferPerRun
<1>19. Watched'
  BY <1>1, <1>3 DEF LedgerInv, Watched
<1>20. Covered'
  <2>1. ASSUME NEW k \in DOMAIN txs', NEW u \in txs'[k].pay
        PROVE  amount'[u] <= balance'[u]
    <3>1. u \in P
      BY <1>7, <1>10, <1>12, <2>1
    <3> QED
      BY <1>1, <1>4, <1>5, <1>9, <3>1
  <2>2. NeverOverdrawn'
    BY <1>1 DEF LedgerInv, Covered, NeverOverdrawn
  <2> QED
    BY <1>1, <1>2, <2>1, <2>2 DEF LedgerInv, Covered
<1>21. Balanced'
  <2>1. \A u : Earned(u)' = Earned(u) /\ Credit(u)' = Credit(u) /\ Paid(u)' = Paid(u)
    BY <1>1, SplitterKept DEF Paid
  <2>2. Unbooked = {}
    BY <1>3 DEF Unbooked
  <2>3. Unbooked' = {}
    BY <1>12 DEF Unbooked
  <2>4. \A u : Debt(u) = 0 /\ Debt(u)' = 0
    BY <2>2, <2>3 DEF Debt
  <2> QED
    BY <1>1, <2>1, <2>4 DEF LedgerInv, Balanced
<1> QED
  BY <1>13, <1>14, <1>15, <1>16, <1>17, <1>18, <1>19, <1>20, <1>21 DEF LedgerInv

(* The transfer the wallet has made of the transaction at hand.            *)
LEMMA NewTransfer ==
    ASSUME LedgerAssumption, LedgerInv, ppc # "idle", Transferred(myTx.pay), NEW l, l = Len(transfers) + 1
    PROVE  /\ l \in Nat /\ l > 0 /\ l \notin DOMAIN transfers
           /\ transfers' \in Seq(Transfer) /\ Len(transfers') = l
           /\ DOMAIN transfers' = DOMAIN transfers \union {l}
           /\ \A i \in DOMAIN transfers : transfers'[i] = transfers[i]
           /\ transfers'[l].run = runs /\ transfers'[l].amount = amount
           /\ DOMAIN transfers'[l].part = myTx.pay
           /\ \A u \in myTx.pay : transfers'[l].part[u] = "pending"
<1> DEFINE x == [run |-> runs, amount |-> amount, part |-> [u \in myTx.pay |-> "pending"]]
<1>1. transfers \in Seq(Transfer) /\ Len(transfers) \in Nat /\ DOMAIN transfers = 1 .. Len(transfers)
  BY TransferFields DEF LedgerInv, LedgerTypes
<1>2. x \in Transfer
  <2>1. runs \in Nat /\ amount \in [Users -> Nat] /\ myTx.pay \subseteq Users
    BY MyTx DEF LedgerInv, LedgerTypes, TypeOK
  <2>2. [u \in myTx.pay |-> "pending"] \in [myTx.pay -> PartStates]
    BY DEF PartStates
  <2> QED
    BY <2>1, <2>2 DEF Transfer
<1>3. transfers' = Append(transfers, x)
  BY DEF Transferred
<1>4. /\ x.run = runs /\ x.amount = amount /\ DOMAIN x.part = myTx.pay
      /\ \A u \in myTx.pay : x.part[u] = "pending"
  OBVIOUS
<1> HIDE DEF x
<1>5. /\ transfers' \in Seq(Transfer) /\ Len(transfers') = l /\ transfers'[l] = x
      /\ DOMAIN transfers' = 1 .. l
      /\ \A i \in DOMAIN transfers : transfers'[i] = transfers[i]
  BY <1>1, <1>2, <1>3, AppendProperties
<1>6. l \in Nat /\ l > 0 /\ l \notin DOMAIN transfers /\ 1 .. l = DOMAIN transfers \union {l}
  <2> DEFINE n == Len(transfers)
  <2>1. n \in Nat /\ l = n + 1 /\ DOMAIN transfers = 1 .. n
    BY <1>1
  <2> HIDE DEF n
  <2> QED
    BY <2>1
<1> QED
  BY <1>4, <1>5, <1>6

(* The wallet sends: what it has sent and what is to be booked grow alike. *)
LEMMA SendAcceptedLedger ==
    ASSUME LedgerAssumption, LedgerInv, SendAccepted
    PROVE  LedgerInv'
<1> DEFINE l == Len(transfers) + 1
           t == [myTx EXCEPT !.state = "PENDING", !.hash = l]
<1>1. /\ ppc = "visit" /\ myTx.state = "QUEUE" /\ Transferred(myTx.pay) /\ AfterVisit(t)
      /\ UNCHANGED <<payerOnly, tainted>>
  BY DEF SendAccepted, Visit
<1>2. UNCHANGED <<balance, marked, unlocked, splitVars, curBal, runs, tainted>>
  BY <1>1 DEF payerOnly
<1>3. /\ l \in Nat /\ l > 0 /\ l \notin DOMAIN transfers
      /\ transfers' \in Seq(Transfer) /\ Len(transfers') = l
      /\ DOMAIN transfers' = DOMAIN transfers \union {l}
      /\ \A i \in DOMAIN transfers : transfers'[i] = transfers[i]
      /\ transfers'[l].run = runs /\ transfers'[l].amount = amount
      /\ DOMAIN transfers'[l].part = myTx.pay
      /\ \A u \in myTx.pay : transfers'[l].part[u] = "pending"
  BY <1>1, NewTransfer
<1>4. /\ cur \in DOMAIN txs /\ myTx = txs[cur] /\ myTx \in Tx /\ myTx.hash = 0 /\ owed = {}
      /\ myTx.pay \subseteq Users
  BY <1>1, MyTx
<1>5. t \in Tx /\ t.state = "PENDING" /\ t.hash = l /\ t.pay = myTx.pay
  BY <1>3, <1>4 DEF Tx, TxStates
<1>6. Len(transfers) <= Len(transfers')
  <2> DEFINE n == Len(transfers)
  <2>1. n \in Nat /\ Len(transfers') = n + 1
    BY <1>3, TransferFields DEF LedgerInv
  <2> HIDE DEF n
  <2>2. n <= Len(transfers')
    BY <2>1
  <2> QED
    BY <2>2 DEF n
<1> HIDE DEF l, t
<1>7. VisitOf(t)
  <2>1. Sent(t)
    BY <1>3, <1>5 DEF Sent
  <2>2. balance' \in [Users -> Int] /\ tainted' \subseteq Users
    BY <1>2 DEF LedgerInv, LedgerTypes, TypeOK
  <2> QED
    BY <1>1, <1>2, <1>3, <1>4, <1>5, <1>6, <2>1, <2>2 DEF VisitOf
<1>8. LedgerTypes' /\ Splitting' /\ Paying' /\ BatchesPartition' /\ Matched' /\ OneTransferPerRun' /\ Watched'
  BY <1>5, <1>7, VisitTypes, VisitKeeps
<1>9. Covered'
  BY <1>1, <1>2, <1>4, <1>5, <1>7, VisitCovered
<1>10. Goes(t)
  BY <1>1, <1>5, AfterVisitCases DEF AllDone
<1>11. /\ DOMAIN txs' = DOMAIN txs /\ txs'[cur] = t
       /\ \A k \in DOMAIN txs : k # cur => txs'[k] = txs[k]
  BY <1>1, <1>5, <1>10, GoesTo
<1>12. ppc' = "visit" /\ amount' = amount
  BY <1>10 DEF Goes
<1>13. Balanced'
  <2> SUFFICES ASSUME NEW u \in Users \ tainted'
               PROVE  balance'[u] = (Earned(u) - Paid(u) + Credit(u) + Debt(u))'
    BY DEF Balanced
  <2>1. Earned(u)' = Earned(u) /\ Credit(u)' = Credit(u)
    BY <1>2, SplitterKept
  <2>2. balance'[u] = Earned(u) - Paid(u) + Credit(u) + Debt(u)
    BY <1>2 DEF LedgerInv, Balanced
  <2>3. ASSUME NEW k \in DOMAIN txs, k # cur, u \in txs[k].pay
        PROVE  InDoubt(k, u)' <=> InDoubt(k, u)
    <3>1. txs'[k] = txs[k]
      BY <1>11, <2>3
    <3>2. txs[k].hash > 0 => txs[k].hash \in DOMAIN transfers
      BY DEF LedgerInv, Matched
    <3> QED
      BY <1>1, <1>3, <1>12, <3>1, <3>2 DEF InDoubt
  <2>4. CASE u \in myTx.pay
    <3>1. u \notin Unbooked
      <4> SUFFICES ASSUME NEW k \in DOMAIN txs, u \in txs[k].pay, InDoubt(k, u) PROVE FALSE
        BY UnbookedIs
      <4>1. k = cur
        BY <1>1, <1>4, <2>4 DEF LedgerInv, BatchesPartition
      <4> QED
        BY <1>4, <4>1 DEF InDoubt
    <3>2. u \in Unbooked'
      <4>1. t.hash > 0 /\ t.state # "SUCCESS" /\ transfers'[t.hash].part[u] # "failed"
        BY <1>3, <1>5, <2>4
      <4>2. u \in {v \in txs'[cur].pay : /\ transfers'[txs'[cur].hash].part[v] # "failed"
                                         /\ cur = cur' /\ ppc' # "visit" => v \in owed'}
        BY <1>5, <1>11, <1>12, <2>4, <4>1
      <4>3. cur \in {k \in DOMAIN txs' : txs'[k].hash > 0 /\ txs'[k].state # "SUCCESS"}
        BY <1>4, <1>11, <4>1
      <4> QED
        BY <4>2, <4>3 DEF Unbooked
    <3>3. Debt(u) = 0 /\ Debt(u)' = amount[u]
      BY <1>12, <3>1, <3>2 DEF Debt
    <3>4. Paid(u)' = Paid(u) + amount[u]
      <4> DEFINE f == [i \in DOMAIN transfers |-> transfers[i].amount[u]]
                 g == [i \in DOMAIN transfers' |-> transfers'[i].amount[u]]
                 S == PaidIn(u)
      <4>1. IsFiniteSet(S) /\ l \notin S
        BY <1>3, SumsTyped DEF LedgerInv, PaidIn
      <4>2. PaidIn(u)' = S \union {l}
        BY <1>3, <2>4 DEF PaidIn
      <4>3. \A i \in S : f[i] = g[i] /\ f[i] \in Int
        BY <1>3, TransferFields DEF LedgerInv, PaidIn
      <4>4. g[l] = amount[u] /\ amount[u] \in Int
        BY <1>3 DEF LedgerInv, LedgerTypes, TypeOK
      <4>5. Paid(u) = SumFunctionOnSet(f, S) /\ Paid(u)' = SumFunctionOnSet(g, PaidIn(u)')
        BY DEF Paid, PaidIn
      <4> HIDE DEF f, g, S
      <4>6. SumFunctionOnSet(f, S) = SumFunctionOnSet(g, S)
        BY <4>1, <4>3, SumSame
      <4>7. SumFunctionOnSet(g, S \union {l}) = SumFunctionOnSet(g, S) + g[l]
        BY <4>1, <4>3, <4>4, SumAdd
      <4> QED
        BY <4>2, <4>4, <4>5, <4>6, <4>7
    <3> DEFINE e == Earned(u)
               p == Paid(u)
               c == Credit(u)
               a == amount[u]
    <3>5. e \in Int /\ p \in Int /\ c \in Int /\ a \in Int
      BY SumsTyped, SplitterAt DEF LedgerInv, LedgerTypes, TypeOK
    <3>6. balance'[u] = e - p + c + 0
      BY <2>2, <3>3
    <3>7. Paid(u)' = p + a /\ Debt(u)' = a /\ Earned(u)' = e /\ Credit(u)' = c
      BY <2>1, <3>3, <3>4
    <3> HIDE DEF e, p, c, a
    <3>8. balance'[u] = e - (p + a) + c + a
      BY <3>5, <3>6
    <3> QED
      BY <3>7, <3>8
  <2>5. CASE u \notin myTx.pay
    <3>1. Paid(u)' = Paid(u)
      <4>1. PaidIn(u)' = PaidIn(u)
        BY <1>3, <2>5 DEF PaidIn
      <4>2. \A i \in PaidIn(u) : i \in DOMAIN transfers' /\ transfers'[i].amount[u] = transfers[i].amount[u]
        BY <1>3 DEF PaidIn
      <4> QED
        BY <4>1, <4>2, PaidSame DEF LedgerInv
    <3>2. u \in Unbooked' <=> u \in Unbooked
      <4>1. u \in Unbooked' <=> \E k \in DOMAIN txs' : u \in txs'[k].pay /\ InDoubt(k, u)'
        BY UnbookedNext
      <4>2. ASSUME NEW k \in DOMAIN txs
            PROVE  u \in txs'[k].pay /\ InDoubt(k, u)' <=> u \in txs[k].pay /\ InDoubt(k, u)
        <5>1. CASE k = cur
          BY <1>4, <1>5, <1>11, <2>5, <5>1
        <5>2. CASE k # cur
          BY <1>11, <2>3, <5>2
        <5> QED
          BY <5>1, <5>2
      <4>3. (\E k \in DOMAIN txs : u \in txs[k].pay /\ InDoubt(k, u)) <=> u \in Unbooked
        BY UnbookedIs
      <4> QED
        BY <1>11, <4>1, <4>2, <4>3
    <3>3. Debt(u)' = Debt(u)
      BY <1>12, <3>2 DEF Debt
    <3> QED
      BY <2>1, <2>2, <3>1, <3>3
  <2> QED
    BY <2>4, <2>5
<1> QED
  BY <1>8, <1>9, <1>13 DEF LedgerInv

(* What is pending in a transfer of the run is in doubt.                   *)
LEMMA PendingInDoubt ==
    ASSUME LedgerInv, NEW k \in DOMAIN txs, txs[k].hash > 0, NEW u \in txs[k].pay,
           transfers[txs[k].hash].part[u] = "pending"
    PROVE  InDoubt(k, u) /\ u \in Unbooked
<1>1. ppc # "idle"
  BY DEF LedgerInv, Paying
<1>2. txs[k].state \notin {"PAIDONCHAIN", "SUCCESS"}
  BY DEF LedgerInv, Matched
<1>3. k = cur => ppc = "visit"
  BY <1>1, <1>2, MyTx
<1>4. InDoubt(k, u)
  BY <1>2, <1>3 DEF InDoubt
<1> QED
  BY <1>4, UnbookedIs

(* The payer ends, perhaps in the middle of a send that was carried out.   *)
LEMMA PayerEnds ==
    ASSUME LedgerAssumption, LedgerInv, ppc # "idle", PayerOff, UNCHANGED payerOnly,
           tainted' \subseteq Users, tainted \subseteq tainted', Unbooked \subseteq tainted',
           \/ UNCHANGED transfers
           \/ Transferred(myTx.pay) /\ myTx.pay \subseteq tainted' /\ myTx.hash = 0
    PROVE  LedgerInv'
<1> DEFINE l == Len(transfers) + 1
<1>1. /\ UNCHANGED <<balance, marked, unlocked, splitVars, curBal, runs>>
      /\ ppc' = "idle" /\ txs' = <<>> /\ cur' = 1 /\ owed' = {} /\ amount' = [u \in Users |-> 0]
      /\ DOMAIN txs' = {}
  BY DEF payerOnly, PayerOff
<1>2. UNCHANGED <<spc, inTx, block, payees, seen>>
  BY <1>1 DEF splitVars
<1>3. /\ LedgerTypes /\ TypeOK /\ cur \in DOMAIN txs /\ myTx = txs[cur] /\ myTx.pay \subseteq Users
      /\ runs \in Nat /\ Len(transfers) \in Nat /\ DOMAIN transfers = 1 .. Len(transfers)
  BY MyTx, TransferFields DEF LedgerInv, LedgerTypes
<1>4. Transferred(myTx.pay) =>
         /\ l \in Nat /\ l > 0 /\ l \notin DOMAIN transfers
         /\ transfers' \in Seq(Transfer) /\ Len(transfers') = l
         /\ DOMAIN transfers' = DOMAIN transfers \union {l}
         /\ \A i \in DOMAIN transfers : transfers'[i] = transfers[i]
         /\ transfers'[l].run = runs /\ transfers'[l].amount = amount
         /\ DOMAIN transfers'[l].part = myTx.pay
         /\ \A u \in myTx.pay : transfers'[l].part[u] = "pending"
  BY NewTransfer
<1> HIDE DEF l
<1>5. /\ transfers' \in Seq(Transfer) /\ DOMAIN transfers \subseteq DOMAIN transfers'
      /\ \A i \in DOMAIN transfers : transfers'[i] = transfers[i]
      /\ \A i \in DOMAIN transfers' : i \in DOMAIN transfers \/
            /\ i = l /\ transfers'[i].run = runs /\ DOMAIN transfers'[i].part = myTx.pay
            /\ myTx.pay \subseteq tainted' /\ myTx.hash = 0
      /\ \A x, y \in DOMAIN transfers' : x \notin DOMAIN transfers /\ y \notin DOMAIN transfers => x = y
  BY <1>3, <1>4 DEF LedgerTypes
<1>6. LedgerTypes'
  <2>1. TypeOK'
    BY <1>1, <1>2, <1>3 DEF TypeOK
  <2>2. \A i \in DOMAIN transfers' : transfers'[i].run <= runs'
    BY <1>1, <1>3, <1>5, TransferFields
  <2> QED
    BY <1>1, <1>3, <1>5, <2>1, <2>2 DEF LedgerTypes
<1>7. Splitting'
  BY <1>1, SplitterKept
<1>8. Paying' /\ BatchesPartition' /\ Matched'
  BY <1>1 DEF Paying, BatchesPartition, Matched
<1>9. OneTransferPerRun'
  <2> SUFFICES ASSUME NEW i \in DOMAIN transfers', NEW k \in DOMAIN transfers', i # k,
                      transfers'[i].run = transfers'[k].run
               PROVE  DOMAIN transfers'[i].part \intersect DOMAIN transfers'[k].part = {}
    BY DEF OneTransferPerRun
  <2>1. ASSUME NEW x \in DOMAIN transfers, NEW y \in DOMAIN transfers', y \notin DOMAIN transfers,
               transfers'[x].run = transfers'[y].run
        PROVE  DOMAIN transfers'[x].part \intersect DOMAIN transfers'[y].part = {}
    <3>1. transfers'[y].run = runs /\ DOMAIN transfers'[y].part = myTx.pay /\ myTx.hash = 0
      BY <1>5, <2>1
    <3>2. transfers[x].run = runs
      BY <1>5, <2>1, <3>1
    <3>3. PICK j \in DOMAIN txs : txs[j].hash = x
      BY <3>2 DEF LedgerInv, Matched
    <3>4. x > 0
      BY <1>3
    <3>5. DOMAIN transfers[x].part = txs[j].pay
      BY <3>3, <3>4 DEF LedgerInv, Matched
    <3>6. j # cur
      BY <1>3, <3>1, <3>3, <3>4
    <3>7. txs[j].pay \intersect txs[cur].pay = {}
      BY <1>3, <3>6 DEF LedgerInv, BatchesPartition
    <3> QED
      BY <1>3, <1>5, <3>1, <3>5, <3>7
  <2>2. CASE i \in DOMAIN transfers /\ k \in DOMAIN transfers
    BY <1>5, <2>2 DEF LedgerInv, OneTransferPerRun
  <2>3. CASE i \in DOMAIN transfers /\ k \notin DOMAIN transfers
    BY <2>1, <2>3
  <2>4. CASE i \notin DOMAIN transfers /\ k \in DOMAIN transfers
    BY <2>1, <2>4
  <2> QED
    BY <1>5, <2>2, <2>3, <2>4
<1>10. Watched'
  <2> SUFFICES ASSUME NEW i \in DOMAIN transfers', NEW u \in DOMAIN transfers'[i].part,
                      transfers'[i].part[u] = "pending", u \notin tainted'
               PROVE  FALSE
    BY DEF Watched
  <2>1. i \in DOMAIN transfers /\ transfers'[i] = transfers[i] /\ i > 0
    BY <1>3, <1>5
  <2>2. PICK k \in DOMAIN txs : txs[k].hash = i
    BY <2>1 DEF LedgerInv, Watched
  <2>3. u \in txs[k].pay
    BY <2>1, <2>2 DEF LedgerInv, Matched
  <2>4. u \in Unbooked
    BY <2>1, <2>2, <2>3, PendingInDoubt
  <2> QED
    BY <2>4
<1>11. Covered'
  BY <1>1, <1>2 DEF LedgerInv, Covered, NeverOverdrawn
<1>12. Balanced'
  <2> SUFFICES ASSUME NEW u \in Users \ tainted'
               PROVE  balance'[u] = (Earned(u) - Paid(u) + Credit(u) + Debt(u))'
    BY DEF Balanced
  <2>1. Earned(u)' = Earned(u) /\ Credit(u)' = Credit(u)
    BY <1>1, SplitterKept
  <2>2. balance'[u] = Earned(u) - Paid(u) + Credit(u) + Debt(u)
    BY <1>1 DEF LedgerInv, Balanced
  <2>3. Debt(u) = 0
    BY DEF Debt
  <2>4. Debt(u)' = 0
    <3>1. Unbooked' = {}
      BY <1>1 DEF Unbooked
    <3> QED
      BY <3>1 DEF Debt
  <2>5. Paid(u)' = Paid(u)
    <3>1. PaidIn(u)' = PaidIn(u)
      BY <1>5 DEF PaidIn
    <3>2. \A i \in PaidIn(u) : i \in DOMAIN transfers' /\ transfers'[i].amount[u] = transfers[i].amount[u]
      BY <1>5 DEF PaidIn
    <3> QED
      BY <1>3, <3>1, <3>2, PaidSame
  <2> QED
    BY <2>1, <2>2, <2>3, <2>4, <2>5
<1> QED
  BY <1>6, <1>7, <1>8, <1>9, <1>10, <1>11, <1>12 DEF LedgerInv

(* Unbooked wallets are wallets.                                           *)
LEMMA UnbookedUsers ==
    ASSUME LedgerInv
    PROVE  Unbooked \subseteq Users
<1> SUFFICES ASSUME NEW u \in Unbooked PROVE u \in Users
  OBVIOUS
<1>1. PICK k \in DOMAIN txs : u \in txs[k].pay
  BY UnbookedIs
<1> QED
  BY <1>1, TxFields DEF LedgerInv

(* The answer of the wallet is lost, whether it has sent or not.           *)
LEMMA SendLostLedger ==
    ASSUME LedgerAssumption, LedgerInv, SendLost
    PROVE  LedgerInv'
<1>1. ppc # "idle" /\ myTx.state = "QUEUE" /\ PayerOff /\ UNCHANGED payerOnly
  BY DEF SendLost, Visit
<1>2. myTx.hash = 0 /\ myTx.pay \subseteq Users
  BY <1>1, MyTx
<1>3. tainted \subseteq Users /\ Unbooked \subseteq Users
  BY UnbookedUsers DEF LedgerInv, LedgerTypes, TypeOK
<1>4. \/ Transferred(myTx.pay) /\ tainted' = tainted \union Unbooked \union myTx.pay
      \/ UNCHANGED transfers /\ tainted' = tainted \union Unbooked
  BY DEF SendLost
<1> HIDE DEF Unbooked
<1> QED
  BY <1>1, <1>2, <1>3, <1>4, PayerEnds

(* The payer is stopped.                                                   *)
LEMMA AbortPayLedger ==
    ASSUME LedgerAssumption, LedgerInv, AbortPay
    PROVE  LedgerInv'
<1>1. ppc # "idle" /\ PayerOff /\ UNCHANGED payerOnly /\ UNCHANGED transfers
      /\ tainted' = tainted \union Unbooked
  BY DEF AbortPay
<1>2. tainted \subseteq Users /\ Unbooked \subseteq Users
  BY UnbookedUsers DEF LedgerInv, LedgerTypes, TypeOK
<1> QED
  BY <1>1, <1>2, PayerEnds

(* A wallet is in one transaction.                                         *)
LEMMA OneTx ==
    ASSUME LedgerInv, NEW j \in DOMAIN txs, NEW k \in DOMAIN txs, NEW u,
           u \in txs[j].pay, u \in txs[k].pay
    PROVE  j = k /\ u \in Users /\ ppc # "idle"
<1>1. ppc # "idle"
  BY DEF LedgerInv, Paying
<1> QED
  BY <1>1, TxFields DEF LedgerInv, BatchesPartition

(* The wallet whose balance is at hand is covered.                         *)
LEMMA OwedCovered ==
    ASSUME LedgerInv, NEW u \in owed
    PROVE  /\ ppc # "idle" /\ u \in Users /\ u \in txs[cur].pay /\ ToBook(cur, u) /\ amount[u] <= balance[u]
           /\ InDoubt(cur, u)
<1>1. ppc # "idle"
  BY DEF LedgerInv, Paying
<1>2. u \in Users /\ u \in txs[cur].pay /\ txs[cur].state = "PAIDONCHAIN" /\ cur \in DOMAIN txs
  BY <1>1, MyTx
<1>3. ToBook(cur, u)
  BY <1>2 DEF ToBook
<1>4. amount[u] <= balance[u]
  BY <1>2, <1>3 DEF LedgerInv, Covered
<1>5. InDoubt(cur, u)
  BY <1>1, <1>2, MyTx DEF InDoubt
<1> QED
  BY <1>1, <1>2, <1>3, <1>4, <1>5

(* The payer reads the balance it will reduce.                             *)
LEMMA GetPaidBalanceLedger ==
    ASSUME LedgerAssumption, LedgerInv, NEW u \in Users, GetPaidBalance(u)
    PROVE  LedgerInv'
<1>1. /\ ppc = "get" /\ u \in owed /\ u = (CHOOSE v \in owed : TRUE) /\ curBal' = balance[u] /\ ppc' = "set"
      /\ UNCHANGED <<balance, marked, unlocked, splitVars, txs, amount, cur, owed, runs, transfers, tainted>>
  BY DEF GetPaidBalance
<1>2. UNCHANGED <<spc, inTx, block, payees, seen>>
  BY <1>1 DEF splitVars
<1>3. LedgerTypes'
  <2>1. LedgerTypes /\ TypeOK
    BY DEF LedgerInv, LedgerTypes
  <2>2. TypeOK'
    BY <1>1, <1>2, <2>1 DEF TypeOK
  <2> QED
    BY <1>1, <2>1, <2>2 DEF LedgerTypes
<1>4. Splitting'
  BY <1>1, SplitterKept
<1>5. Paying' /\ BatchesPartition' /\ Matched' /\ OneTransferPerRun' /\ Watched'
  <2>1. Paying'
    BY <1>1 DEF LedgerInv, Paying, myTx
  <2>2. BatchesPartition' /\ Matched'
    BY <1>1 DEF LedgerInv, BatchesPartition, Matched
  <2>3. OneTransferPerRun' /\ Watched'
    BY <1>1 DEF LedgerInv, OneTransferPerRun, Watched
  <2> QED
    BY <2>1, <2>2, <2>3
<1>6. Covered'
  <2>1. amount[u] <= balance[u] /\ balance[u] \in Int
    BY <1>1, OwedCovered DEF LedgerInv, LedgerTypes, TypeOK
  <2>2. amount'[CHOOSE v \in owed' : TRUE] <= curBal' /\ curBal' <= balance'[CHOOSE v \in owed' : TRUE]
    BY <1>1, <2>1
  <2> QED
    BY <1>1, <1>2, <2>2 DEF LedgerInv, Covered, NeverOverdrawn, ToBook
<1>7. Balanced'
  <2>1. \A w : Earned(w)' = Earned(w) /\ Credit(w)' = Credit(w)
    BY <1>1, SplitterKept
  <2>2. Unbooked' = Unbooked
    <3>1. \A k, w : InDoubt(k, w)' <=> InDoubt(k, w)
      BY <1>1 DEF InDoubt
    <3>2. \A w : w \in Unbooked' <=> w \in Unbooked
      BY <1>1, <3>1, UnbookedIs, UnbookedNext
    <3> HIDE DEF Unbooked
    <3> QED
      BY <3>2
  <2>3. \A w : Paid(w)' = Paid(w) /\ Debt(w)' = Debt(w)
    BY <1>1, <2>2 DEF Paid, Debt
  <2> QED
    BY <1>1, <2>1, <2>3 DEF LedgerInv, Balanced
<1> QED
  BY <1>3, <1>4, <1>5, <1>6, <1>7 DEF LedgerInv

(* A part of a transfer is mined, or dropped: then it was pending, so that *)
(* a run watches it or its wallet is tainted.                              *)
LEMMA SettleLedger ==
    ASSUME LedgerAssumption, LedgerInv, NEW i \in DOMAIN transfers, NEW u \in Users,
           NEW s \in {"out", "failed"}, Settle(i, u, s)
    PROVE  LedgerInv'
<1> DEFINE x == [transfers[i] EXCEPT !.part = [@ EXCEPT ![u] = s]]
<1>1. /\ u \in DOMAIN transfers[i].part /\ transfers[i].part[u] = "pending"
      /\ transfers' = [transfers EXCEPT ![i].part[u] = s]
      /\ UNCHANGED <<balance, marked, unlocked, splitVars, payVars, tainted>>
  BY DEF Settle
<1>2. UNCHANGED <<spc, inTx, block, payees, seen, ppc, txs, amount, cur, owed, curBal, runs>>
  BY <1>1 DEF splitVars, payVars
<1>3. LedgerTypes /\ TypeOK /\ transfers \in Seq(Transfer) /\ Len(transfers) \in Nat
      /\ DOMAIN transfers = 1 .. Len(transfers) /\ transfers[i] \in Transfer
  BY TransferFields, ElementOfSeq DEF LedgerInv, LedgerTypes
<1>4. /\ x \in Transfer /\ x.run = transfers[i].run /\ x.amount = transfers[i].amount
      /\ DOMAIN x.part = DOMAIN transfers[i].part /\ x.part[u] = s
      /\ \A w \in DOMAIN x.part : w # u => x.part[w] = transfers[i].part[w]
  <2> DEFINE p == transfers[i].part
             q == [p EXCEPT ![u] = s]
  <2>1. p \in [DOMAIN p -> PartStates] /\ DOMAIN p \subseteq Users
    BY <1>3, TransferFields
  <2>2. q \in [DOMAIN p -> PartStates] /\ DOMAIN q = DOMAIN p /\ q[u] = s
        /\ \A w \in DOMAIN p : w # u => q[w] = p[w]
    BY <1>1, <2>1 DEF PartStates
  <2>3. /\ transfers[i] = [run |-> transfers[i].run, amount |-> transfers[i].amount, part |-> p]
        /\ transfers[i].run \in Nat /\ transfers[i].amount \in [Users -> Nat]
    BY <1>3 DEF Transfer
  <2>4. x = [run |-> transfers[i].run, amount |-> transfers[i].amount, part |-> q]
    BY <2>3
  <2>5. q \in UNION {[P -> PartStates] : P \in SUBSET Users}
    BY <2>1, <2>2
  <2> HIDE DEF q, x
  <2>6. x \in Transfer /\ x.part = q /\ x.run = transfers[i].run /\ x.amount = transfers[i].amount
    BY <2>3, <2>4, <2>5 DEF Transfer
  <2> QED
    BY <2>2, <2>6
<1>5. transfers' = [transfers EXCEPT ![i] = x]
  BY <1>1, <1>3
<1> HIDE DEF x
<1>6. /\ transfers' \in Seq(Transfer) /\ DOMAIN transfers' = DOMAIN transfers /\ Len(transfers') = Len(transfers)
      /\ transfers'[i] = x
      /\ \A j \in DOMAIN transfers : j # i => transfers'[j] = transfers[j]
  BY <1>3, <1>4, <1>5
<1>7. \A j \in DOMAIN transfers :
         /\ transfers'[j].run = transfers[j].run /\ transfers'[j].amount = transfers[j].amount
         /\ DOMAIN transfers'[j].part = DOMAIN transfers[j].part
         /\ \A w \in DOMAIN transfers[j].part : j # i \/ w # u => transfers'[j].part[w] = transfers[j].part[w]
  BY <1>4, <1>6
<1>8. transfers'[i].part[u] = s
  BY <1>4, <1>6
<1>9. LedgerTypes'
  <2>1. TypeOK'
    BY <1>1, <1>2, <1>3, <1>6 DEF TypeOK
  <2>2. \A j \in DOMAIN transfers' : transfers'[j].run <= runs'
    BY <1>2, <1>3, <1>6, <1>7, TransferFields
  <2> QED
    BY <1>1, <1>2, <1>3, <1>6, <2>1, <2>2 DEF LedgerTypes
<1>10. Splitting'
  BY <1>1, SplitterKept
<1>11. Paying' /\ BatchesPartition'
  BY <1>2 DEF LedgerInv, Paying, BatchesPartition, myTx
<1>12. Matched'
  <2>1. ASSUME NEW k \in DOMAIN txs, txs[k].hash > 0
        PROVE  /\ txs[k].hash \in DOMAIN transfers'
               /\ transfers'[txs[k].hash].run = runs
               /\ transfers'[txs[k].hash].amount = amount
               /\ DOMAIN transfers'[txs[k].hash].part = txs[k].pay
               /\ txs[k].state \in {"PAIDONCHAIN", "SUCCESS"} =>
                    \A w \in txs[k].pay : transfers'[txs[k].hash].part[w] = "out"
    <3>1. /\ txs[k].hash \in DOMAIN transfers
          /\ transfers[txs[k].hash].run = runs
          /\ transfers[txs[k].hash].amount = amount
          /\ DOMAIN transfers[txs[k].hash].part = txs[k].pay
          /\ txs[k].state \in {"PAIDONCHAIN", "SUCCESS"} =>
               \A w \in txs[k].pay : transfers[txs[k].hash].part[w] = "out"
      BY <2>1 DEF LedgerInv, Matched
    <3> QED
      BY <1>1, <1>6, <1>7, <3>1
  <2>2. ppc # "idle" => \A j \in DOMAIN transfers' : transfers'[j].run = runs => \E k \in DOMAIN txs : txs[k].hash = j
    BY <1>6, <1>7 DEF LedgerInv, Matched
  <2> QED
    BY <1>2, <2>1, <2>2 DEF Matched
<1>13. OneTransferPerRun'
  BY <1>6, <1>7 DEF LedgerInv, OneTransferPerRun
<1>14. Watched'
  <2> SUFFICES ASSUME NEW j \in DOMAIN transfers', NEW w \in DOMAIN transfers'[j].part,
                      transfers'[j].part[w] = "pending"
               PROVE  w \in tainted' \/ \E k \in DOMAIN txs' : txs'[k].hash = j
    BY DEF Watched
  <2>1. transfers[j].part[w] = "pending" /\ j \in DOMAIN transfers /\ w \in DOMAIN transfers[j].part
    BY <1>6, <1>7, <1>8
  <2> QED
    BY <1>1, <1>2, <2>1 DEF LedgerInv, Watched
<1>15. Covered'
  BY <1>1, <1>2 DEF LedgerInv, Covered, NeverOverdrawn, ToBook
<1>16. Balanced'
  <2> SUFFICES ASSUME NEW w \in Users \ tainted'
               PROVE  balance'[w] = (Earned(w) - Paid(w) + Credit(w) + Debt(w))'
    BY DEF Balanced
  <2>1. Earned(w)' = Earned(w) /\ Credit(w)' = Credit(w)
    BY <1>1, SplitterKept
  <2>2. balance'[w] = Earned(w) - Paid(w) + Credit(w) + Debt(w)
    BY <1>1 DEF LedgerInv, Balanced
  <2>3. CASE w # u \/ s = "out"
    <3>1. \A j \in DOMAIN transfers : w \in DOMAIN transfers[j].part =>
             (transfers'[j].part[w] # "failed" <=> transfers[j].part[w] # "failed")
      BY <1>1, <1>7, <1>8, <2>3
    <3>2. PaidIn(w)' = PaidIn(w)
      BY <1>6, <1>7, <3>1 DEF PaidIn
    <3>3. \A j \in PaidIn(w) : j \in DOMAIN transfers' /\ transfers'[j].amount[w] = transfers[j].amount[w]
      BY <1>6, <1>7 DEF PaidIn
    <3>4. Paid(w)' = Paid(w)
      BY <1>3, <3>2, <3>3, PaidSame
    <3>5. ASSUME NEW k \in DOMAIN txs, w \in txs[k].pay PROVE InDoubt(k, w)' <=> InDoubt(k, w)
      <4>1. txs[k].hash > 0 => txs[k].hash \in DOMAIN transfers /\ w \in DOMAIN transfers[txs[k].hash].part
        BY <3>5 DEF LedgerInv, Matched
      <4> QED
        BY <1>2, <3>1, <4>1 DEF InDoubt
    <3>6. w \in Unbooked' <=> w \in Unbooked
      BY <1>2, <3>5, UnbookedIs, UnbookedNext
    <3>7. Debt(w)' = Debt(w)
      BY <1>2, <3>6 DEF Debt
    <3> QED
      BY <2>1, <2>2, <3>4, <3>7
  <2>4. CASE w = u /\ s = "failed"
    <3>1. i > 0
      BY <1>3
    <3>2. PICK k \in DOMAIN txs : txs[k].hash = i
      BY <1>1, <2>4 DEF LedgerInv, Watched
    <3>3. u \in txs[k].pay /\ transfers[i].amount = amount
      BY <1>1, <3>1, <3>2 DEF LedgerInv, Matched
    <3>4. u \in Unbooked
      BY <1>1, <3>1, <3>2, <3>3, PendingInDoubt
    <3>5. u \notin Unbooked'
      <4> SUFFICES ASSUME NEW j \in DOMAIN txs', u \in txs'[j].pay, InDoubt(j, u)' PROVE FALSE
        BY UnbookedNext
      <4>1. j = k
        BY <1>2, <3>3, OneTx
      <4> QED
        BY <1>2, <1>8, <2>4, <3>2, <4>1 DEF InDoubt
    <3>6. Debt(w) = amount[w] /\ Debt(w)' = 0
      BY <2>4, <3>4, <3>5 DEF Debt
    <3>7. Paid(w) = amount[w] + Paid(w)'
      <4> DEFINE f == [j \in DOMAIN transfers |-> transfers[j].amount[w]]
                 g == [j \in DOMAIN transfers' |-> transfers'[j].amount[w]]
                 S == PaidIn(w)
      <4>1. IsFiniteSet(S) /\ i \in S /\ IsFiniteSet(S \ {i})
        BY <1>1, <1>3, <2>4, SumsTyped, FS_Subset DEF PaidIn
      <4>2. PaidIn(w)' = S \ {i}
        BY <1>1, <1>6, <1>7, <1>8, <2>4 DEF PaidIn
      <4>3. /\ \A j \in S : f[j] \in Int
            /\ \A j \in S \ {i} : f[j] = g[j]
        BY <1>3, <1>6, <1>7, TransferFields DEF PaidIn
      <4>4. f[i] = amount[w]
        BY <3>3
      <4>5. Paid(w) = SumFunctionOnSet(f, S) /\ Paid(w)' = SumFunctionOnSet(g, PaidIn(w)')
        BY DEF Paid, PaidIn
      <4> HIDE DEF f, g, S
      <4>6. SumFunctionOnSet(f, S \ {i}) = SumFunctionOnSet(g, S \ {i})
        BY <4>1, <4>3, SumSame
      <4>7. SumFunctionOnSet(f, S) = f[i] + SumFunctionOnSet(f, S \ {i})
        BY <4>1, <4>3, SumRemove
      <4> QED
        BY <4>2, <4>4, <4>5, <4>6, <4>7
    <3>8. Paid(w)' \in Int
      <4> DEFINE g == [j \in DOMAIN transfers' |-> transfers'[j].amount[w]]
                 S == PaidIn(w)'
      <4>1. IsFiniteSet(S)
        <5>1. IsFiniteSet(DOMAIN transfers)
          BY <1>3, SumsTyped
        <5>2. S \subseteq DOMAIN transfers
          BY <1>6 DEF PaidIn
        <5> QED
          BY <5>1, <5>2, FS_Subset
      <4>2. \A j \in S : g[j] \in Int
        BY <1>3, <1>6, <1>7, TransferFields DEF PaidIn
      <4>3. Paid(w)' = SumFunctionOnSet(g, S)
        BY DEF Paid, PaidIn
      <4> HIDE DEF g, S
      <4> QED
        BY <4>1, <4>2, <4>3, SumRemove
    <3> DEFINE e == Earned(w)
               p == Paid(w)'
               c == Credit(w)
               a == amount[w]
    <3>9. e \in Int /\ p \in Int /\ c \in Int /\ a \in Int
      <4>1. Earned(w) \in Nat /\ Credit(w) \in Nat
        BY <1>3, SumsTyped, SplitterAt
      <4>2. amount[w] \in Nat
        BY <1>3 DEF TypeOK
      <4> QED
        BY <3>8, <4>1, <4>2
    <3>10. balance'[w] = e - (a + p) + c + a
      BY <2>2, <3>6, <3>7
    <3>11. Earned(w)' = e /\ Credit(w)' = c /\ Debt(w)' = 0 /\ Paid(w)' = p
      BY <2>1, <3>6
    <3> HIDE DEF e, p, c, a
    <3>12. balance'[w] = e - p + c + 0
      BY <3>9, <3>10
    <3> QED
      BY <3>11, <3>12
  <2> QED
    BY <2>3, <2>4
<1> QED
  BY <1>9, <1>10, <1>11, <1>12, <1>13, <1>14, <1>15, <1>16 DEF LedgerInv

(* A payment is booked: the wallet is no longer in doubt.                  *)
LEMMA SubtractPaidLedger ==
    ASSUME LedgerAssumption, LedgerInv, NEW u \in Users, SubtractPaid(u)
    PROVE  LedgerInv'
<1> DEFINE a == amount[u]
           t == SetSuccess(myTx)
<1>1. /\ ppc = "set" /\ u \in owed /\ u = (CHOOSE v \in owed : TRUE)
      /\ balance' = [balance EXCEPT ![u] = curBal - a]
      /\ tainted' = IF balance[u] = curBal THEN tainted ELSE tainted \union {u}
      /\ IF owed = {u} THEN AfterVisit(t)
                       ELSE /\ ppc' = "get" /\ owed' = owed \ {u}
                            /\ UNCHANGED <<txs, amount, cur>>
      /\ UNCHANGED <<marked, unlocked, splitVars, curBal, runs, transfers>>
  BY DEF SubtractPaid
<1>2. UNCHANGED <<spc, inTx, block, payees, seen>>
  BY <1>1 DEF splitVars
<1>3. /\ LedgerTypes /\ TypeOK /\ balance \in [Users -> Int] /\ curBal \in Int /\ a \in Nat
      /\ amount \in [Users -> Nat] /\ tainted' \subseteq Users /\ tainted \subseteq tainted'
      /\ a <= curBal /\ curBal <= balance[u] /\ \A w \in Users : balance[w] >= 0
  <2>1. a <= curBal /\ curBal <= balance[u]
    BY <1>1 DEF LedgerInv, Covered
  <2> QED
    BY <1>1, <2>1 DEF LedgerInv, LedgerTypes, TypeOK, Covered, NeverOverdrawn
<1>4. /\ ppc # "idle" /\ u \in txs[cur].pay /\ InDoubt(cur, u) /\ cur \in DOMAIN txs
      /\ myTx = txs[cur] /\ myTx \in Tx /\ myTx.state = "PAIDONCHAIN" /\ myTx.hash > 0
      /\ owed \subseteq myTx.pay /\ myTx.pay \subseteq Users
      /\ transfers[myTx.hash].run = runs /\ transfers[myTx.hash].amount = amount
      /\ myTx.hash \in DOMAIN transfers /\ DOMAIN transfers[myTx.hash].part = myTx.pay
      /\ \A w \in myTx.pay : transfers[myTx.hash].part[w] = "out"
  BY <1>1, OwedCovered, MyTx
<1> HIDE DEF a, t
<1>5. /\ balance' \in [Users -> Int] /\ balance'[u] = curBal - a
      /\ \A w \in Users : w # u => balance'[w] = balance[w]
      /\ \A w \in Users : balance'[w] >= 0 /\ balance'[w] <= balance[w]
  <2> DEFINE x == curBal - a
  <2>1. x \in Int /\ x >= 0 /\ x <= balance[u]
    <3> DEFINE y == balance[u]
    <3>1. y \in Int /\ curBal <= y
      BY <1>3
    <3> HIDE DEF y
    <3>2. x \in Int /\ x >= 0 /\ x <= y
      BY <1>3, <3>1
    <3> QED
      BY <3>2 DEF y
  <2>2. balance' = [balance EXCEPT ![u] = x] /\ x = curBal - a
    BY <1>1
  <2> HIDE DEF x
  <2>3. /\ balance' \in [Users -> Int] /\ balance'[u] = x
        /\ \A w \in Users : w # u => balance'[w] = balance[w]
    BY <1>3, <2>1, <2>2
  <2>4. ASSUME NEW w \in Users PROVE balance'[w] >= 0 /\ balance'[w] <= balance[w]
    <3>1. CASE w = u
      BY <2>1, <2>3, <3>1
    <3>2. CASE w # u
      BY <1>3, <2>3, <3>2
    <3> QED
      BY <3>1, <3>2
  <2> QED
    BY <2>2, <2>3, <2>4
<1>6. \A w : Earned(w)' = Earned(w) /\ Credit(w)' = Credit(w) /\ Paid(w)' = Paid(w)
  BY <1>1, SplitterKept DEF Paid
\* What both ways on have in common.
<1>7. /\ LedgerTypes' /\ Splitting' /\ Paying' /\ BatchesPartition' /\ Matched' /\ OneTransferPerRun' /\ Watched'
      /\ ppc' # "set"
      /\ \A k \in DOMAIN txs' : k \in DOMAIN txs /\ txs'[k].pay = txs[k].pay
      /\ DOMAIN txs' # {} => amount' = amount
      /\ \A k \in DOMAIN txs' : \A w \in txs[k].pay : ToBook(k, w)' => ToBook(k, w) /\ w # u
      /\ \A w : w \in Unbooked' <=> w \in Unbooked /\ w # u
  <2>1. CASE owed # {u}
    <3>1. ppc' = "get" /\ owed' = owed \ {u} /\ UNCHANGED <<txs, amount, cur>>
      BY <1>1, <2>1
    <3>2. owed' # {} /\ owed' \subseteq owed /\ owed # {}
      BY <1>1, <2>1, <3>1
    <3>3. LedgerTypes'
      <4>1. TypeOK'
        BY <1>1, <1>2, <1>3, <1>5, <3>1 DEF TypeOK
      <4> QED
        BY <1>1, <1>3, <3>1, <4>1 DEF LedgerTypes
    <3>4. Splitting'
      BY <1>1, SplitterKept
    <3>5. Paying'
      BY <1>4, <3>1, <3>2 DEF LedgerInv, Paying, myTx
    <3>6. BatchesPartition' /\ Matched'
      BY <1>1, <1>4, <3>1 DEF LedgerInv, BatchesPartition, Matched
    <3>7. OneTransferPerRun' /\ Watched'
      BY <1>1, <1>3, <3>1 DEF LedgerInv, OneTransferPerRun, Watched
    <3>8. \A k \in DOMAIN txs' : \A w \in txs[k].pay : ToBook(k, w)' => ToBook(k, w) /\ w # u
      <4> SUFFICES ASSUME NEW k \in DOMAIN txs, NEW w \in txs[k].pay, ToBook(k, w)'
                   PROVE  ToBook(k, w) /\ w # u
        BY <3>1
      <4>1. CASE k = cur
        BY <3>1, <3>2, <4>1 DEF ToBook
      <4>2. CASE k # cur
        BY <1>4, <3>1, <4>2, OneTx DEF ToBook
      <4> QED
        BY <4>1, <4>2
    <3>9. ASSUME NEW w PROVE w \in Unbooked' <=> w \in Unbooked /\ w # u
      <4>1. ASSUME NEW k \in DOMAIN txs, w \in txs[k].pay
            PROVE  InDoubt(k, w)' <=> InDoubt(k, w) /\ w # u
        <5>1. CASE k = cur
          BY <1>1, <3>1, <5>1 DEF InDoubt
        <5>2. CASE k # cur
          BY <1>1, <1>4, <3>1, <4>1, <5>2, OneTx DEF InDoubt
        <5> QED
          BY <5>1, <5>2
      <4> QED
        BY <3>1, <4>1, UnbookedIs, UnbookedNext
    <3> QED
      BY <3>1, <3>3, <3>4, <3>5, <3>6, <3>7, <3>8, <3>9
  <2>2. CASE owed = {u}
    <3>1. AfterVisit(t)
      BY <1>1, <2>2
    <3>2. t \in Tx /\ t.pay = myTx.pay /\ t.state = "SUCCESS" /\ t.hash = myTx.hash
      BY <1>4 DEF t, SetSuccess, Tx, TxStates
    <3>3. VisitOf(t)
      <4>1. Sent(t)
        BY <1>1, <1>4, <3>2 DEF Sent
      <4>2. transfers \in Seq(Transfer) /\ Len(transfers) \in Nat
        BY <1>3, TransferFields DEF LedgerTypes
      <4> QED
        BY <1>1, <1>3, <1>4, <1>5, <3>1, <3>2, <4>1, <4>2 DEF VisitOf
    <3>4. LedgerTypes' /\ Splitting' /\ Paying' /\ BatchesPartition' /\ Matched' /\ OneTransferPerRun' /\ Watched'
      BY <3>2, <3>3, VisitTypes, VisitKeeps
    <3>5. CASE PayerOff /\ AllDone(t)
      <4>1. ppc' = "idle" /\ DOMAIN txs' = {}
        BY <3>5 DEF PayerOff
      <4>2. ASSUME NEW w PROVE w \in Unbooked' <=> w \in Unbooked /\ w # u
        <5>1. w \notin Unbooked'
          BY <4>1, UnbookedNext
        <5>2. ~(w \in Unbooked /\ w # u)
          <6> SUFFICES ASSUME NEW k \in DOMAIN txs, w \in txs[k].pay, InDoubt(k, w) PROVE w = u
            BY UnbookedIs
          <6>1. k = cur
            BY <3>5 DEF AllDone, InDoubt
          <6> QED
            BY <1>1, <2>2, <6>1 DEF InDoubt
        <5> QED
          BY <5>1, <5>2
      <4> QED
        BY <3>4, <4>1, <4>2
    <3>6. CASE Goes(t)
      <4>1. /\ DOMAIN txs' = DOMAIN txs /\ txs'[cur] = t
            /\ \A k \in DOMAIN txs : k # cur => txs'[k] = txs[k]
            /\ \A k \in DOMAIN txs : txs'[k].pay = txs[k].pay
        BY <1>4, <3>2, <3>6, GoesTo
      <4>2. ppc' = "visit" /\ amount' = amount /\ owed' = {}
        BY <3>6 DEF Goes
      <4>3. ASSUME NEW k \in DOMAIN txs, NEW w \in txs[k].pay, ToBook(k, w)'
            PROVE  ToBook(k, w) /\ w # u
        <5>1. k # cur
          BY <3>2, <4>1, <4>3 DEF ToBook
        <5> QED
          BY <1>4, <4>1, <4>3, <5>1, OneTx DEF ToBook
      <4>4. ASSUME NEW w PROVE w \in Unbooked' <=> w \in Unbooked /\ w # u
        <5>1. ASSUME NEW k \in DOMAIN txs, w \in txs[k].pay
              PROVE  InDoubt(k, w)' <=> InDoubt(k, w) /\ w # u
          <6>1. CASE k = cur
            BY <1>1, <2>2, <3>2, <4>1, <6>1 DEF InDoubt
          <6>2. CASE k # cur
            BY <1>1, <1>4, <4>1, <4>2, <5>1, <6>2, OneTx DEF InDoubt
          <6> QED
            BY <6>1, <6>2
        <5> QED
          BY <4>1, <5>1, UnbookedIs, UnbookedNext
      <4> QED
        BY <3>4, <4>1, <4>2, <4>3, <4>4
    <3> QED
      BY <1>4, <3>1, <3>2, <3>5, <3>6, AfterVisitCases
  <2> QED
    BY <2>1, <2>2
<1>8. Covered'
  <2>1. NeverOverdrawn'
    BY <1>5 DEF NeverOverdrawn
  <2>2. ASSUME NEW k \in DOMAIN txs', NEW w \in txs'[k].pay, ToBook(k, w)'
        PROVE  amount'[w] <= balance'[w]
    <3>1. k \in DOMAIN txs /\ w \in txs[k].pay /\ ToBook(k, w) /\ w # u /\ amount' = amount
      BY <1>7, <2>2
    <3>2. w \in Users /\ amount[w] <= balance[w]
      BY <3>1, OneTx DEF LedgerInv, Covered
    <3> QED
      BY <1>5, <3>1, <3>2
  <2>3. ASSUME spc = "set", NEW v, v = (CHOOSE y \in payees : TRUE) PROVE balance'[v] <= seen
    <3>1. v \in Users
      BY <2>3 DEF LedgerInv, Splitting, LedgerTypes, TypeOK
    <3>2. balance[v] <= seen
      BY <2>3 DEF LedgerInv, Covered
    <3>3. balance'[v] \in Int /\ balance[v] \in Int /\ seen \in Int /\ balance'[v] <= balance[v]
      BY <1>3, <1>5, <3>1 DEF TypeOK
    <3> QED
      BY <3>2, <3>3
  <2> QED
    BY <1>2, <1>7, <2>1, <2>2, <2>3 DEF Covered
<1>9. Balanced'
  <2> SUFFICES ASSUME NEW w \in Users \ tainted'
               PROVE  balance'[w] = (Earned(w) - Paid(w) + Credit(w) + Debt(w))'
    BY DEF Balanced
  <2>1. balance[w] = Earned(w) - Paid(w) + Credit(w) + Debt(w)
    BY <1>3 DEF LedgerInv, Balanced
  <2>2. CASE w = u
    <3>1. balance[u] = curBal
      BY <1>1, <2>2
    <3>2. u \in Unbooked /\ u \notin Unbooked'
      BY <1>4, <1>7, UnbookedIs
    <3>3. Debt(u) = a /\ Debt(u)' = 0
      BY <3>2 DEF Debt, a
    <3> DEFINE e == Earned(w)
               p == Paid(w)
               c == Credit(w)
    <3>4. e \in Int /\ p \in Int /\ c \in Int
      BY <1>3, SumsTyped, SplitterAt
    <3>5. curBal = e - p + c + a
      BY <2>1, <2>2, <3>1, <3>3
    <3>6. Earned(w)' = e /\ Paid(w)' = p /\ Credit(w)' = c /\ Debt(w)' = 0 /\ balance'[w] = curBal - a
      BY <1>5, <1>6, <2>2, <3>3
    <3> HIDE DEF e, p, c
    <3>7. curBal - a = e - p + c + 0
      BY <1>3, <3>4, <3>5
    <3> QED
      BY <3>6, <3>7
  <2>3. CASE w # u
    <3>1. w \in Unbooked' <=> w \in Unbooked
      BY <1>7, <2>3
    <3>2. w \in Unbooked' => amount' = amount
      BY <1>7, UnbookedNext
    <3>3. Debt(w)' = Debt(w)
      BY <3>1, <3>2 DEF Debt
    <3> QED
      BY <1>5, <1>6, <2>1, <2>3, <3>3
  <2> QED
    BY <2>2, <2>3
<1> QED
  BY <1>7, <1>8, <1>9 DEF LedgerInv

(* Nothing changes.                                                        *)
LEMMA IdleLedger ==
    ASSUME LedgerInv, UNCHANGED vars
    PROVE  LedgerInv'
<1>1. /\ UNCHANGED <<balance, marked, unlocked, transfers, tainted>>
      /\ UNCHANGED <<spc, inTx, block, payees, seen>>
      /\ UNCHANGED <<ppc, txs, amount, cur, owed, curBal, runs>>
  BY DEF vars, splitVars, payVars
<1>2. /\ UNCHANGED splitVars
  BY DEF vars
<1>3. LedgerTypes'
  <2>1. LedgerTypes /\ TypeOK
    BY DEF LedgerInv, LedgerTypes
  <2>2. TypeOK'
    BY <1>1, <2>1 DEF TypeOK
  <2> QED
    BY <1>1, <2>1, <2>2 DEF LedgerTypes
<1>4. UNCHANGED <<payVars, transfers>> /\ tainted \subseteq tainted'
  BY DEF vars
<1>5. /\ Paying' /\ BatchesPartition' /\ Matched' /\ OneTransferPerRun' /\ Watched'
      /\ \A u : Paid(u)' = Paid(u) /\ Debt(u)' = Debt(u)
  BY <1>4, PayerKept
<1>6. Splitting' /\ \A u : Earned(u)' = Earned(u) /\ Credit(u)' = Credit(u)
  BY <1>1, <1>2, SplitterKept
<1>7. Covered'
  BY <1>1 DEF LedgerInv, Covered, NeverOverdrawn, ToBook
<1>8. Balanced'
  BY <1>1, <1>5, <1>6 DEF LedgerInv, Balanced
<1> QED
  BY <1>3, <1>5, <1>6, <1>7, <1>8 DEF LedgerInv

(* Every step keeps the invariant.                                         *)
LEMMA NextLedger ==
    ASSUME LedgerAssumption, LedgerInv, [Next]_vars
    PROVE  LedgerInv'
<1>1. CASE Splitter
  BY <1>1, StartSplitLedger, CheckBlockLedger, MarkBlockLedger, AbortSplitLedger, GetBalanceLedger,
     SetBalanceLedger DEF Splitter
<1>2. CASE Payer
  BY <1>2, StartPayLedger, WaitLedger, SendAcceptedLedger, SendRefusedLedger, SendLostLedger, QueryStateLedger,
     SkipLedger, AbortPayLedger, GetPaidBalanceLedger, SubtractPaidLedger DEF Payer
<1>3. CASE Chain
  BY <1>3, UnlockLedger, SettleLedger DEF Chain
<1>4. CASE UNCHANGED vars
  BY <1>4, IdleLedger
<1> QED
  BY <1>1, <1>2, <1>3, <1>4 DEF Next

(* The strengthened invariant of the ledger holds in every reachable       *)
(* state, for every set of wallets, blocks and shares, and whatever the    *)
(* runs, crashes and races.                                                *)
THEOREM LedgerInvariant ==
    ASSUME LedgerAssumption
    PROVE  Spec => []LedgerInv
<1>1. Init => LedgerInv
  BY InitLedger
<1>2. LedgerInv /\ [Next]_vars => LedgerInv'
  BY NextLedger
<1> QED
  BY <1>1, <1>2, PTL DEF Spec

(* Between the runs nothing is half credited or in doubt.                  *)
LEMMA BooksClose ==
    ASSUME LedgerAssumption, LedgerInv
    PROVE  BooksBalance
<1> SUFFICES ASSUME spc = "idle", ppc = "idle", NEW u \in Users \ tainted
             PROVE  balance[u] = Earned(u) - Paid(u)
  BY DEF BooksBalance
<1>1. Credit(u) = 0
  BY DEF Credit
<1>2. txs = <<>> /\ DOMAIN txs = {}
  BY DEF LedgerInv, Paying
<1>3. Debt(u) = 0
  BY <1>2, UnbookedIs DEF Debt
<1> DEFINE e == Earned(u)
           p == Paid(u)
<1>4. balance[u] = e - p + 0 + 0
  BY <1>1, <1>3 DEF LedgerInv, Balanced
<1>5. e \in Int /\ p \in Int
  BY SumsTyped DEF LedgerInv
<1> HIDE DEF e, p
<1>6. balance[u] = e - p
  BY <1>4, <1>5
<1> QED
  BY <1>6 DEF e, p

(* The block that is split is one the pool found.                          *)
LEMMA RewardKept ==
    ASSUME LedgerAssumption, LedgerInv
    PROVE  NeverOverReward
BY SplitterAt, RewardsFit DEF NeverOverReward

(* The payer books when all parts of the transfer are on the chain.        *)
LEMMA BookingPaid ==
    ASSUME LedgerInv, NEW u \in Users, SubtractPaid(u)
    PROVE  transfers[myTx.hash].part[u] = "out"
<1>1. u \in owed
  BY DEF SubtractPaid
<1> QED
  BY <1>1, OwedCovered, MyTx

(* Between the runs a wallet that no accident has touched has what it      *)
(* earned less what it was paid (_handle_rewards of aterxdaemon.py against *)
(* subtract_payouts of payer.py), and no balance is ever negative, touched *)
(* or not.                                                                 *)
THEOREM BooksAlwaysBalance ==
    ASSUME LedgerAssumption
    PROVE  Spec => [](BooksBalance /\ NeverOverdrawn)
<1>1. LedgerInv => BooksBalance /\ NeverOverdrawn
  BY BooksClose DEF LedgerInv, Covered
<1> QED
  BY <1>1, LedgerInvariant, PTL

(* In a run of payer.py a wallet is sent one transfer at most, however     *)
(* often sending is tried, and the transactions of the run divide the      *)
(* wallets that are over the threshold.                                    *)
THEOREM PaidOnce ==
    ASSUME LedgerAssumption
    PROVE  Spec => [](OneTransferPerRun /\ BatchesPartition)
<1>1. LedgerInv => OneTransferPerRun /\ BatchesPartition
  BY DEF LedgerInv
<1> QED
  BY <1>1, LedgerInvariant, PTL

(* The rewards of a block add up to no more than it is worth, although     *)
(* each is rounded by itself.                                              *)
THEOREM RewardsNeverExceed ==
    ASSUME LedgerAssumption
    PROVE  Spec => []NeverOverReward
<1>1. LedgerInv => NeverOverReward
  BY RewardKept
<1> QED
  BY <1>1, LedgerInvariant, PTL

(* subtract_payouts reduces a balance only by a payment that is on the     *)
(* chain.                                                                  *)
THEOREM BookingsArePaid ==
    ASSUME LedgerAssumption
    PROVE  Spec => [][BookedOnlyWhenPaid]_vars
<1>1. LedgerInv => BookedOnlyWhenPaid
  BY BookingPaid DEF BookedOnlyWhenPaid
<1> QED
  BY <1>1, LedgerInvariant, PTL

---------------------------------------------------------------------------
CONSTANTS Owners, Buckets, Window, Keep, Diffs, Rewards, Script, MaxTime, MaxShares, MaxFails
VARIABLES now, listed, rate, super, pass, fails
Book == INSTANCE HashrateBook WITH Users <- Owners, shares <- listed

---------------------------------------------------------------------------
(* The hashrates (HashrateBook).  A pass goes by users: Summed says what   *)
(* it has added up of those that are done, Divided how far the estimates   *)
(* told so far are from their part of the reward, and Found why no user    *)
(* of a pass is lost while it runs.                                        *)
Listed == [at : Nat, diff : Nat \ {0}]
Rated  == [rate : [Buckets -> Nat], est : Nat]
Passes == [at : {"idle", "total", "write", "put", "list", "clean", "delete"}, start : Nat, keys : SUBSET Owners,
           left : SUBSET Owners, total : Nat, reward : Nat, sum : [Buckets -> Nat], done : SUBSET Owners,
           user : SUBSET Owners, read : SUBSET Rated, came : Nat]

BookTypes == /\ now \in 0 .. MaxTime /\ listed \in [Owners -> Seq(Listed)] /\ rate \in [Owners -> SUBSET Rated]
             /\ super \in [Buckets -> Nat] /\ pass \in Passes

Turn == /\ pass.at \in {"put", "delete"} <=> pass.user # {}
        /\ pass.at = "put" => \E u \in pass.left, r \in Rated : pass.user = {u} /\ pass.read = {r}
        /\ pass.at = "total" => /\ pass.left # {} /\ pass.left \subseteq pass.keys
                                /\ pass.done = {} /\ pass.sum = Book!Zero
        /\ pass.at \in {"write", "put"} => /\ pass.left # {} /\ pass.left = pass.keys \ pass.done
                                           /\ pass.done \subseteq pass.keys
        /\ pass.at \in {"idle", "list", "clean", "delete"} => pass.done = pass.keys

Nests(r) == \A j, k \in Buckets : j < k => r.rate[j] * j < (r.rate[k] + 1) * k
Nesting  == (\A u \in Owners : \A r \in rate[u] : Nests(r)) /\ \A r \in pass.read : Nests(r)

(* Of records f and lists l.                                               *)
Single(f, T)  == \A u \in T : \E r \in Rated : f[u] = {r}
RateSum(f, k, T) == SumFunctionOnSet([u \in Owners |-> SumFunctionOnSet([r \in f[u] |-> r.rate[k]], f[u])], T)
EstSum(f, T)     == SumFunctionOnSet([u \in Owners |-> SumFunctionOnSet([r \in f[u] |-> r.est], f[u])], T)
WorkSum(l, time, T) == SumFunctionOnSet([u \in Owners |-> Book!Since(l[u], time, Window)], T)

Found == /\ pass.at # "idle" => \A u \in pass.keys : listed[u] # <<>>
         /\ pass.at = "delete" => \A u \in pass.user : u \notin pass.keys
         /\ Single(rate, pass.done)

Summed == /\ \A k \in Buckets : pass.sum[k] = RateSum(rate, k, pass.done)
          /\ pass.at = "idle" /\ pass.keys # {} => super = pass.sum

(* E is told of work W to n users.                                         *)
Parted(total, reward, E, W, n) ==
    /\ total = 0 => E = 0
    /\ total * E <= reward * W
    /\ total > 0 => reward * W + n <= total * (E + n)

Divided ==
    pass.came = 0 =>
        /\ pass.at = "total" => pass.total = WorkSum(listed, pass.start, pass.keys \ pass.left)
        /\ pass.at \in {"write", "put"} =>
             /\ pass.total = WorkSum(listed, pass.start, pass.keys)
             /\ Parted(pass.total, pass.reward, EstSum(rate, pass.done),
                       WorkSum(listed, pass.start, pass.done), Cardinality(pass.done))
        /\ pass.at = "put" => \A u \in pass.user, r \in pass.read :
             r.est = Book!Estimate(Book!Since(listed[u], pass.start, Window), pass.total, pass.reward)
        /\ pass.at \in {"idle", "list", "clean", "delete"} =>
             /\ EstSum(rate, pass.done) <= pass.reward
             /\ pass.keys # {} /\ pass.total > 0 => EstSum(rate, pass.done) + Cardinality(pass.done) > pass.reward

BookInv == /\ BookTypes /\ Turn /\ Nesting
           /\ ~Script => Found /\ Summed /\ Divided

LEMMA BookSums == \A f, S : Book!SumFunctionOnSet(f, S) = SumFunctionOnSet(f, S)
BY DEF SumFunctionOnSet, FoldFunctionOnSet, MapThenFoldSet,
   Book!SumFunctionOnSet, Book!FoldFunctionOnSet, Book!MapThenFoldSet

LEMMA BookSizes ==
    ASSUME NEW S PROVE Book!Cardinality(S) = Cardinality(S) /\ (Book!IsFiniteSet(S) <=> IsFiniteSet(S))
BY DEF Cardinality, Book!Cardinality, IsFiniteSet, Book!IsFiniteSet

LEMMA BookAllowed ==
    ASSUME Book!BookAssumption
    PROVE  /\ IsFiniteSet(Owners) /\ Buckets \subseteq Nat /\ 0 \notin Buckets
           /\ Diffs \subseteq Nat \ {0} /\ Rewards \subseteq Nat
           /\ Window \in Nat /\ Keep \in Nat /\ MaxTime \in Nat /\ Script \in BOOLEAN
BY BookSizes DEF Book!BookAssumption

(* Work in a window is a natural number, and more in a longer one.         *)
LEMMA SinceIs ==
    ASSUME NEW s \in Seq(Listed), NEW time \in Nat, NEW j \in Nat, NEW k \in Nat, j <= k
    PROVE  /\ Book!Since(s, time, j) \in Nat
           /\ Book!Since(s, time, j) <= Book!Since(s, time, k)
<1> DEFINE F(n) == [i \in DOMAIN s |-> IF time < s[i].at + n THEN s[i].diff ELSE 0]
<1>1. IsFiniteSet(DOMAIN s)
  <2>1. DOMAIN s = 1 .. Len(s) /\ Len(s) \in Nat
    OBVIOUS
  <2> QED
    BY <2>1, FS_Interval
<1>2. \A i \in DOMAIN s : s[i].at \in Nat /\ s[i].diff \in Nat
  <2>1. \A i \in DOMAIN s : s[i] \in Listed
    OBVIOUS
  <2> QED
    BY <2>1 DEF Listed
<1>3. \A i \in DOMAIN s : F(j)[i] \in Nat /\ F(k)[i] \in Nat /\ F(j)[i] <= F(k)[i]
  BY <1>2
<1>4. Book!Since(s, time, j) = SumFunctionOnSet(F(j), DOMAIN s)
  BY BookSums DEF Book!Since
<1>5. Book!Since(s, time, k) = SumFunctionOnSet(F(k), DOMAIN s)
  BY BookSums DEF Book!Since
<1> DEFINE f == F(j)
           g == F(k)
<1> HIDE DEF F
<1>6. \A i \in DOMAIN s : f[i] \in Nat /\ f[i] \in Int /\ g[i] \in Int /\ g[i] \in Nat /\ 1 * f[i] <= 1 * g[i]
  BY <1>3
<1> HIDE DEF f, g
<1>7. SumFunctionOnSet(f, DOMAIN s) \in Nat /\ SumFunctionOnSet(g, DOMAIN s) \in Nat
  BY <1>1, <1>6, SumNat
<1>8. 1 * SumFunctionOnSet(f, DOMAIN s) <= 1 * SumFunctionOnSet(g, DOMAIN s)
  BY <1>1, <1>6, SumScales
<1> QED
  BY <1>4, <1>5, <1>7, <1>8 DEF f, g

LEMMA HrNests ==
    ASSUME Book!BookAssumption, NEW s \in Seq(Listed), NEW time \in Nat, NEW e \in Nat
    PROVE  LET r == [rate |-> Book!DetermineHr(s, time), est |-> e]
           IN  r \in Rated /\ Nests(r)
<1>1. ASSUME NEW k \in Buckets PROVE k \in Nat /\ k > 0 /\ Book!Since(s, time, k) \in Nat
  <2>1. k \in Nat /\ k > 0 /\ k <= k
    BY BookAllowed
  <2> QED
    BY <2>1, SinceIs
<1> DEFINE W(k) == Book!Since(s, time, k)
           h == Book!DetermineHr(s, time)
<1>2. \A k \in Buckets : h[k] = W(k) \div k
  BY DEF Book!DetermineHr
<1> HIDE DEF W
<1>3. \A k \in Buckets : W(k) \in Nat
  BY <1>1 DEF W
<1>4. \A k \in Buckets : h[k] \in Nat /\ k * h[k] <= W(k) /\ W(k) < k * h[k] + k
  BY <1>1, <1>2, <1>3, Division
<1>5. \A j, k \in Buckets : j < k => W(j) <= W(k)
  BY <1>1, SinceIs DEF W
<1>6. h \in [Buckets -> Nat]
  <2>1. h = [k \in Buckets |-> Book!Since(s, time, k) \div k]
    BY DEF Book!DetermineHr
  <2> HIDE DEF h
  <2> QED
    BY <1>4, <2>1
<1> HIDE DEF h
<1>7. ASSUME NEW j \in Buckets, NEW k \in Buckets, j < k
      PROVE  h[j] * j < (h[k] + 1) * k
  <2>1. j * h[j] <= W(j) /\ W(j) <= W(k) /\ W(k) < k * h[k] + k
    BY <1>4, <1>5, <1>7
  <2>2. h[j] * j = j * h[j] /\ (h[k] + 1) * k = k * h[k] + k
    BY <1>1, <1>4
  <2>3. /\ j * h[j] \in Int /\ W(j) \in Int /\ W(k) \in Int /\ k * h[k] + k \in Int
    BY <1>1, <1>3, <1>4, SMTT(40)
  <2> QED
    BY <2>1, <2>2, <2>3
<1> QED
  BY <1>6, <1>7 DEF Nests, Rated, h

(* What a user is told is the part of the reward, rounded down.            *)
LEMMA EstimateIs ==
    ASSUME NEW mine \in Nat, NEW total \in Nat, NEW reward \in Nat
    PROVE  LET e == Book!Estimate(mine, total, reward)
           IN  /\ e \in Nat
               /\ total = 0 => e = 0
               /\ total > 0 => total * e <= mine * reward /\ mine * reward < total * e + total
<1>1. mine * reward \in Nat
  OBVIOUS
<1>2. CASE total = 0
  BY <1>2 DEF Book!Estimate
<1>3. CASE total > 0
  BY <1>1, <1>3, Division DEF Book!Estimate
<1> QED
  BY <1>2, <1>3

(* The sum over one element.                                               *)
LEMMA SumOne ==
    ASSUME NEW r, NEW f, f[r] \in Int
    PROVE  SumFunctionOnSet(f, {r}) = f[r]
<1>1. SumFunctionOnSet(f, {} \union {r}) = SumFunctionOnSet(f, {}) + f[r]
  BY SumAdd, FS_EmptySet
<1>2. {} \union {r} = {r}
  OBVIOUS
<1> QED
  BY <1>1, <1>2, SumEmpty

LEMMA EstOne ==
    ASSUME NEW f \in [Owners -> SUBSET Rated], NEW u \in Owners, NEW r \in Rated, f[u] = {r}
    PROVE  SumFunctionOnSet([q \in f[u] |-> q.est], f[u]) = r.est /\ r.est \in Nat
<1>1. r.est \in Nat
  BY DEF Rated
<1> DEFINE B == [q \in f[u] |-> q.est]
<1>2. B[r] = r.est
  OBVIOUS
<1> HIDE DEF B
<1>3. SumFunctionOnSet(B, {r}) = r.est
  BY <1>1, <1>2, SumOne, SMTT(40)
<1> QED
  BY <1>1, <1>3 DEF B

LEMMA EstSums ==
    ASSUME IsFiniteSet(Owners), NEW f \in [Owners -> SUBSET Rated], NEW T \in SUBSET Owners, Single(f, T)
    PROVE  /\ EstSum(f, T) \in Nat
           /\ \A g \in [Owners -> SUBSET Rated] : (\A u \in T : g[u] = f[u]) => EstSum(g, T) = EstSum(f, T)
           /\ \A g \in [Owners -> SUBSET Rated], u \in Owners, r \in Rated :
                u \notin T /\ g[u] = {r} /\ (\A v \in T : g[v] = f[v]) =>
                  EstSum(g, T \union {u}) = EstSum(f, T) + r.est
<1> DEFINE E(h) == [u \in Owners |-> SumFunctionOnSet([r \in h[u] |-> r.est], h[u])]
<1>1. IsFiniteSet(T)
  BY FS_Subset
<1>2. ASSUME NEW h \in [Owners -> SUBSET Rated], NEW u \in Owners, NEW r \in Rated, h[u] = {r}
      PROVE  E(h)[u] = r.est /\ r.est \in Nat
  BY <1>2, EstOne
<1>3. ASSUME NEW u \in T PROVE E(f)[u] \in Nat
  <2>1. PICK r \in Rated : f[u] = {r}
    BY DEF Single
  <2> QED
    BY <1>2, <2>1
<1>4. \A h : EstSum(h, T) = SumFunctionOnSet(E(h), T)
  BY DEF EstSum
<1>5. EstSum(f, T) \in Nat
  <2> DEFINE e == E(f)
  <2>1. \A u \in T : e[u] \in Nat
    BY <1>3
  <2> HIDE DEF e
  <2>2. SumFunctionOnSet(e, T) \in Nat
    BY <1>1, <2>1, SumNat
  <2> QED
    BY <1>4, <2>2 DEF e
<1>6. ASSUME NEW g \in [Owners -> SUBSET Rated], \A u \in T : g[u] = f[u]
      PROVE  EstSum(g, T) = EstSum(f, T)
  <2> DEFINE e == E(f)
             d == E(g)
  <2>1. \A u \in T : d[u] = e[u]
    BY <1>6
  <2> HIDE DEF e, d
  <2>2. SumFunctionOnSet(d, T) = SumFunctionOnSet(e, T)
    BY <1>1, <2>1, SumSame
  <2> QED
    BY <1>4, <2>2 DEF d, e
<1>7. ASSUME NEW g \in [Owners -> SUBSET Rated], NEW u \in Owners, NEW r \in Rated, u \notin T, g[u] = {r},
             \A v \in T : g[v] = f[v]
      PROVE  EstSum(g, T \union {u}) = EstSum(f, T) + r.est
  <2> DEFINE d == E(g)
  <2>1. g \in [Owners -> SUBSET Rated] /\ g[u] = {r} /\ \A v \in T : g[v] = f[v]
    BY <1>7
  <2>2. EstSum(g, T) = EstSum(f, T)
    BY <2>1, <1>6
  <2>3. d[u] = r.est /\ r.est \in Nat
    BY <1>2, <2>1
  <2>4. ASSUME NEW v \in T PROVE d[v] \in Nat
    <3>1. PICK q \in Rated : g[v] = {q}
      BY <2>1 DEF Single
    <3> QED
      BY <1>2, <2>1, <3>1
  <2>5. EstSum(g, T \union {u}) = SumFunctionOnSet(d, T \union {u}) /\ EstSum(g, T) = SumFunctionOnSet(d, T)
    BY DEF EstSum
  <2> HIDE DEF d, E
  <2>6. \A v \in T \union {u} : d[v] \in Int
    BY <2>3, <2>4
  <2>7. SumFunctionOnSet(d, T \union {u}) = SumFunctionOnSet(d, T) + d[u]
    BY ONLY <1>1, u \notin T, <2>6, SumAdd
  <2> QED
    BY <2>2, <2>3, <2>5, <2>7
<1> QED
  BY <1>5, <1>6, <1>7
LEMMA RateSums ==
    ASSUME IsFiniteSet(Owners), NEW f \in [Owners -> SUBSET Rated], NEW T \in SUBSET Owners, Single(f, T), NEW k \in Buckets
    PROVE  /\ RateSum(f, k, T) \in Nat
           /\ \A g \in [Owners -> SUBSET Rated] : (\A u \in T : g[u] = f[u]) => RateSum(g, k, T) = RateSum(f, k, T)
           /\ \A g \in [Owners -> SUBSET Rated], u \in Owners, r \in Rated :
                u \notin T /\ g[u] = {r} /\ (\A v \in T : g[v] = f[v]) =>
                  RateSum(g, k, T \union {u}) = RateSum(f, k, T) + r.rate[k]
<1> DEFINE E(h) == [u \in Owners |-> SumFunctionOnSet([r \in h[u] |-> r.rate[k]], h[u])]
<1>1. IsFiniteSet(T)
  BY FS_Subset
<1>2. ASSUME NEW h \in [Owners -> SUBSET Rated], NEW u \in Owners, NEW r \in Rated, h[u] = {r}
      PROVE  E(h)[u] = r.rate[k] /\ r.rate[k] \in Nat
  <2> DEFINE B == [q \in h[u] |-> q.rate[k]]
  <2>1. E(h)[u] = SumFunctionOnSet(B, h[u])
    OBVIOUS
  <2>2. r.rate[k] \in Nat
    BY DEF Rated
  <2>3. B[r] = r.rate[k]
    BY <1>2
  <2> HIDE DEF B, E
  <2>4. SumFunctionOnSet(B, {r}) = r.rate[k]
    <3>1. B[r] \in Int
      BY <2>2, <2>3
    <3> QED
      BY <2>3, <3>1, SumOne, Zenon
  <2> QED
    BY <1>2, <2>1, <2>2, <2>4
<1>3. ASSUME NEW u \in T PROVE E(f)[u] \in Nat
  <2>1. PICK r \in Rated : f[u] = {r}
    BY DEF Single
  <2> QED
    BY <1>2, <2>1
<1>4. \A h : RateSum(h, k, T) = SumFunctionOnSet(E(h), T)
  BY DEF RateSum
<1>5. RateSum(f, k, T) \in Nat
  <2> DEFINE e == E(f)
  <2>1. \A u \in T : e[u] \in Nat
    BY <1>3
  <2> HIDE DEF e
  <2>2. SumFunctionOnSet(e, T) \in Nat
    BY <1>1, <2>1, SumNat
  <2> QED
    BY <1>4, <2>2 DEF e
<1>6. ASSUME NEW g \in [Owners -> SUBSET Rated], \A u \in T : g[u] = f[u]
      PROVE  RateSum(g, k, T) = RateSum(f, k, T)
  <2> DEFINE e == E(f)
             d == E(g)
  <2>1. \A u \in T : d[u] = e[u]
    BY <1>6
  <2> HIDE DEF e, d
  <2>2. SumFunctionOnSet(d, T) = SumFunctionOnSet(e, T)
    BY <1>1, <2>1, SumSame
  <2> QED
    BY <1>4, <2>2 DEF d, e
<1>7. ASSUME NEW g \in [Owners -> SUBSET Rated], NEW u \in Owners, NEW r \in Rated, u \notin T, g[u] = {r},
             \A v \in T : g[v] = f[v]
      PROVE  RateSum(g, k, T \union {u}) = RateSum(f, k, T) + r.rate[k]
  <2> DEFINE d == E(g)
  <2>1. g \in [Owners -> SUBSET Rated] /\ g[u] = {r} /\ \A v \in T : g[v] = f[v]
    BY <1>7
  <2>2. RateSum(g, k, T) = RateSum(f, k, T)
    BY <2>1, <1>6
  <2>3. d[u] = r.rate[k] /\ r.rate[k] \in Nat
    BY <1>2, <2>1
  <2>4. ASSUME NEW v \in T PROVE d[v] \in Nat
    <3>1. PICK q \in Rated : g[v] = {q}
      BY <2>1 DEF Single
    <3> QED
      BY <1>2, <2>1, <3>1
  <2>5. RateSum(g, k, T \union {u}) = SumFunctionOnSet(d, T \union {u}) /\ RateSum(g, k, T) = SumFunctionOnSet(d, T)
    BY DEF RateSum
  <2> HIDE DEF d, E
  <2>6. \A v \in T \union {u} : d[v] \in Int
    BY <2>3, <2>4
  <2>7. SumFunctionOnSet(d, T \union {u}) = SumFunctionOnSet(d, T) + d[u]
    BY ONLY <1>1, u \notin T, <2>6, SumAdd
  <2> QED
    BY <2>2, <2>3, <2>5, <2>7
<1> QED
  BY <1>5, <1>6, <1>7
LEMMA WorkSums ==
    ASSUME Book!BookAssumption, NEW l \in [Owners -> Seq(Listed)], NEW time \in Nat, NEW T \in SUBSET Owners
    PROVE  /\ WorkSum(l, time, T) \in Nat
           /\ \A m : (\A u \in T : m[u] = l[u]) => WorkSum(m, time, T) = WorkSum(l, time, T)
           /\ \A u \in Owners : u \notin T =>
                WorkSum(l, time, T \union {u}) = WorkSum(l, time, T) + Book!Since(l[u], time, Window)
           /\ \A u \in Owners : Book!Since(l[u], time, Window) \in Nat
<1> DEFINE W(m) == [u \in Owners |-> Book!Since(m[u], time, Window)]
           w == W(l)
<1>1. IsFiniteSet(T)
  BY FS_Subset, BookAllowed
<1>2. \A u \in Owners : Book!Since(l[u], time, Window) \in Nat
  <2>1. Window \in Nat /\ Window <= Window
    BY BookAllowed
  <2> QED
    BY <2>1, SinceIs
<1>3. \A u \in Owners : w[u] = Book!Since(l[u], time, Window)
  OBVIOUS
<1>4. \A S : WorkSum(l, time, S) = SumFunctionOnSet(w, S)
  BY DEF WorkSum
<1>5. ASSUME NEW m, \A u \in T : m[u] = l[u] PROVE WorkSum(m, time, T) = WorkSum(l, time, T)
  <2> DEFINE v == W(m)
  <2>1. \A u \in T : v[u] = w[u]
    BY <1>5
  <2>2. WorkSum(m, time, T) = SumFunctionOnSet(v, T)
    BY DEF WorkSum
  <2> HIDE DEF v, w
  <2>3. SumFunctionOnSet(v, T) = SumFunctionOnSet(w, T)
    BY <1>1, <2>1, SumSame
  <2> QED
    BY <1>4, <2>2, <2>3
<1> HIDE DEF w
<1>6. \A u \in T : w[u] \in Nat
  BY <1>2, <1>3
<1>7. SumFunctionOnSet(w, T) \in Nat
  BY <1>1, <1>6, SumNat
<1>8. ASSUME NEW u \in Owners, u \notin T PROVE SumFunctionOnSet(w, T \union {u}) = SumFunctionOnSet(w, T) + w[u]
  <2>1. \A v \in T \union {u} : w[v] \in Int
    BY <1>2, <1>3
  <2> QED
    BY <1>1, <1>8, <2>1, SumAdd
<1> QED
  BY <1>2, <1>3, <1>4, <1>5, <1>7, <1>8


LEMMA Multiplied ==
    ASSUME NEW a \in Nat, NEW b \in Nat, NEW t \in Nat
    PROVE  a <= b => t * a <= t * b
<1> SUFFICES ASSUME a <= b PROVE t * a <= t * b
  OBVIOUS
<1>1. PICK d \in Nat : b = a + d
  <2>1. b - a \in Nat /\ b = a + (b - a)
    OBVIOUS
  <2> QED
    BY <2>1
<1>2. t * b = t * a + t * d /\ t * d \in Nat /\ t * a \in Nat
  BY <1>1
<1> QED
  BY <1>2

LEMMA PartedNext ==
    ASSUME NEW total \in Nat, NEW reward \in Nat, NEW E \in Nat, NEW W \in Nat, NEW n \in Nat, NEW w \in Nat,
           Parted(total, reward, E, W, n)
    PROVE  Parted(total, reward, E + Book!Estimate(w, total, reward), W + w, n + 1)
<1> DEFINE e == Book!Estimate(w, total, reward)
<1>1. /\ e \in Nat /\ (total = 0 => e = 0)
      /\ total > 0 => total * e <= w * reward /\ w * reward < total * e + total
  BY EstimateIs
<1> HIDE DEF e
<1>2. /\ total * (E + e) = total * E + total * e /\ reward * (W + w) = reward * W + w * reward
      /\ total * ((E + e) + (n + 1)) = total * (E + n) + (total * e + total)
  BY <1>1
<1>3. /\ total * E \in Nat /\ total * e \in Nat /\ reward * W \in Nat /\ w * reward \in Nat
      /\ total * (E + n) \in Nat
  BY <1>1
<1>4. CASE total = 0
  <2>1. E + e = 0 /\ total * (E + e) = 0
    BY <1>1, <1>4 DEF Parted
  <2>2. reward * (W + w) >= 0
    BY <1>2, <1>3
  <2> QED
    BY <1>4, <2>1, <2>2 DEF Parted, e
<1>5. CASE total > 0
  <2>1. total * E <= reward * W /\ reward * W + n <= total * (E + n)
    BY <1>5 DEF Parted
  <2>2. total * (E + e) <= reward * (W + w)
    BY <1>1, <1>2, <1>3, <1>5, <2>1
  <2>3. reward * (W + w) + (n + 1) <= total * ((E + e) + (n + 1))
    BY <1>1, <1>2, <1>3, <1>5, <2>1
  <2> QED
    BY <1>5, <2>2, <2>3 DEF Parted, e
<1> QED
  BY <1>4, <1>5

LEMMA PartedEnd ==
    ASSUME NEW total \in Nat, NEW reward \in Nat, NEW E \in Nat, NEW n \in Nat, Parted(total, reward, E, total, n)
    PROVE  E <= reward /\ (n > 0 /\ total > 0 => E + n > reward)
<1>1. CASE total = 0
  BY <1>1 DEF Parted
<1>2. CASE total > 0
  <2>1. total * E <= total * reward /\ total * reward + n <= total * (E + n)
    <3>1. reward * total = total * reward
      OBVIOUS
    <3> QED
      BY <1>2, <3>1 DEF Parted
  <2>2. E <= reward
    <3> SUFFICES ASSUME reward + 1 <= E PROVE FALSE
      OBVIOUS
    <3>1. total * (reward + 1) <= total * E
      BY Multiplied
    <3>2. total * (reward + 1) = total * reward + total /\ total * reward \in Nat /\ total * E \in Nat
      OBVIOUS
    <3> QED
      BY <1>2, <2>1, <3>1, <3>2
  <2>3. ASSUME n > 0, E + n <= reward PROVE FALSE
    <3>1. E + n \in Nat
      OBVIOUS
    <3>2. total * (E + n) <= total * reward
      BY <2>3, <3>1, Multiplied
    <3>3. total * (E + n) \in Nat /\ total * reward \in Nat
      OBVIOUS
    <3> QED
      BY <2>1, <2>3, <3>2, <3>3
  <2> QED
    BY <2>2, <2>3
<1> QED
  BY <1>1, <1>2

LEMMA IdleIs ==
    /\ Book!Idle \in Passes
    /\ Book!Idle.at = "idle" /\ Book!Idle.keys = {} /\ Book!Idle.done = {} /\ Book!Idle.user = {}
    /\ Book!Idle.read = {} /\ Book!Idle.total = 0 /\ Book!Idle.came = 0 /\ Book!Idle.sum = Book!Zero
    /\ Book!Idle.reward = 0
<1>1. Book!Zero \in [Buckets -> Nat]
  BY DEF Book!Zero
<1> QED
  BY <1>1 DEF Book!Idle, Passes

LEMMA NoSums == \A f, k, l, time : RateSum(f, k, {}) = 0 /\ EstSum(f, {}) = 0 /\ WorkSum(l, time, {}) = 0
BY SumEmpty DEF RateSum, EstSum, WorkSum

(* A pass that is over, or was broken off, and one that begins.            *)
LEMMA BookIdle ==
    ASSUME Book!BookAssumption, now' \in 0 .. MaxTime, listed' \in [Owners -> Seq(Listed)],
           rate' \in [Owners -> SUBSET Rated], super' \in [Buckets -> Nat], pass' = Book!Idle,
           \A u \in Owners : \A r \in rate'[u] : Nests(r)
    PROVE  BookInv'
<1>1. BookTypes'
  BY IdleIs DEF BookTypes
<1>2. Turn'
  BY IdleIs DEF Turn
<1>3. Nesting'
  BY IdleIs DEF Nesting
<1>4. Found'
  BY IdleIs DEF Found, Single
<1>5. Summed'
  BY IdleIs, NoSums DEF Summed, Book!Zero
<1>6. Divided'
  BY IdleIs, NoSums DEF Divided
<1> QED
  BY <1>1, <1>2, <1>3, <1>4, <1>5, <1>6 DEF BookInv

LEMMA InitBook ==
    ASSUME Book!BookAssumption, Book!Init
    PROVE  BookInv
<1>1. now \in 0 .. MaxTime
  BY BookAllowed DEF Book!Init
<1>2. listed \in [Owners -> Seq(Listed)]
  BY DEF Book!Init
<1>3. rate \in [Owners -> SUBSET Rated] /\ \A u \in Owners : rate[u] = {}
  BY DEF Book!Init
<1>4. super \in [Buckets -> Nat]
  BY DEF Book!Init, Book!Zero
<1>5. pass = Book!Idle
  BY DEF Book!Init
<1>6. BookTypes /\ Turn /\ Nesting
  BY <1>1, <1>2, <1>3, <1>4, <1>5, IdleIs DEF BookTypes, Turn, Nesting
<1>7. Found
  BY <1>5, IdleIs DEF Found, Single
<1>8. Summed
  BY <1>5, IdleIs, NoSums DEF Summed, Book!Zero
<1>9. Divided
  BY <1>5, IdleIs, NoSums DEF Divided
<1> QED
  BY <1>6, <1>7, <1>8, <1>9 DEF BookInv

LEMMA BeginBook ==
    ASSUME Book!BookAssumption, BookInv, Book!Begin
    PROVE  BookInv'
<1> DEFINE keys == {u \in Owners : listed[u] # <<>>}
           place == IF keys = {} THEN "list" ELSE IF Script THEN "write" ELSE "total"
<1>1. /\ pass' = [Book!Idle EXCEPT !.at = place, !.start = now, !.keys = keys, !.left = keys]
      /\ now' = now /\ listed' = listed /\ rate' = rate /\ super' = super
  BY DEF Book!Begin, Book!Has
<1>2. now \in Nat
  BY BookAllowed DEF BookInv, BookTypes
<1>3. place \in {"list", "write", "total"} /\ keys \in SUBSET Owners
  OBVIOUS
<1>4. keys = {} => place = "list"
  OBVIOUS
<1>5. keys # {} => place = IF Script THEN "write" ELSE "total"
  OBVIOUS
<1>6. \A u \in keys : u \in Owners /\ listed[u] # <<>>
  OBVIOUS
<1> HIDE DEF place, keys
<1>7. /\ pass' \in Passes /\ pass'.at = place /\ pass'.start = now /\ pass'.keys = keys /\ pass'.left = keys
      /\ pass'.done = {} /\ pass'.user = {} /\ pass'.read = {} /\ pass'.total = 0 /\ pass'.came = 0
      /\ pass'.sum = Book!Zero /\ pass'.reward = 0
  BY <1>1, <1>2, <1>3, IdleIs DEF Passes, Book!Idle
<1>8. BookTypes'
  BY <1>1, <1>7 DEF BookInv, BookTypes
<1>9. Turn'
  BY <1>3, <1>4, <1>5, <1>7 DEF Turn
<1>10. Nesting'
  BY <1>1, <1>7 DEF BookInv, Nesting
<1>11. Found'
  BY <1>1, <1>3, <1>6, <1>7 DEF Found, Single
<1>12. Summed'
  BY <1>3, <1>7, NoSums DEF Summed, Book!Zero
<1>13. ASSUME ~Script PROVE Divided'
  <2>1. place \in {"list", "total"} /\ keys \ keys = {}
    BY <1>3, <1>4, <1>5, <1>13
  <2>2. place = "list" => keys = {}
    BY <1>5, <1>13
  <2> QED
    BY <1>7, <2>1, <2>2, NoSums DEF Divided
<1> QED
  BY <1>8, <1>9, <1>10, <1>11, <1>12, <1>13 DEF BookInv
LEMMA AddUpBook ==
    ASSUME Book!BookAssumption, BookInv, NEW u \in Owners, NEW reward \in Rewards, Book!AddUp(u, reward)
    PROVE  BookInv'
<1> DEFINE w == Book!Since(listed[u], pass.start, Window)
           left == pass.left \ {u}
<1>1. /\ pass.at = "total" /\ u \in pass.left
      /\ pass' = [pass EXCEPT !.total = pass.total + w,
                              !.at = IF left = {} THEN "write" ELSE pass.at,
                              !.left = IF left = {} THEN pass.keys ELSE left,
                              !.reward = IF left = {} THEN reward ELSE pass.reward]
      /\ now' = now /\ listed' = listed /\ rate' = rate /\ super' = super
  BY DEF Book!AddUp, Book!At
<1>2. BookTypes /\ Turn /\ Nesting
  BY DEF BookInv
<1>3. pass \in Passes /\ pass.start \in Nat /\ listed \in [Owners -> Seq(Listed)] /\ reward \in Nat
  BY <1>2, BookAllowed DEF BookTypes, Passes
<1>4. w \in Nat
  BY <1>3, WorkSums
<1> HIDE DEF w
<1>5. /\ pass' \in Passes /\ pass'.start = pass.start /\ pass'.keys = pass.keys /\ pass'.total = pass.total + w
      /\ pass'.done = pass.done /\ pass'.user = pass.user /\ pass'.read = pass.read /\ pass'.came = pass.came
      /\ pass'.sum = pass.sum
      /\ pass'.at = IF left = {} THEN "write" ELSE "total"
      /\ pass'.left = IF left = {} THEN pass.keys ELSE left
      /\ pass'.reward = IF left = {} THEN reward ELSE pass.reward
  <2> DEFINE place == IF left = {} THEN "write" ELSE "total"
             to    == IF left = {} THEN pass.keys ELSE left
             pays  == IF left = {} THEN reward ELSE pass.reward
             sum   == pass.total + w
  <2>1. pass.left \in SUBSET Owners /\ pass.keys \in SUBSET Owners /\ pass.reward \in Nat /\ pass.total \in Nat
    BY <1>3 DEF Passes
  <2>2. place \in {"write", "total"} /\ to \in SUBSET Owners /\ pays \in Nat /\ sum \in Nat
    BY <1>3, <1>4, <2>1
  <2>3. pass' = [pass EXCEPT !.total = sum, !.at = place, !.left = to, !.reward = pays]
    BY <1>1
  <2> HIDE DEF place, to, pays, sum, left
  <2>4. /\ pass' \in Passes /\ pass'.start = pass.start /\ pass'.keys = pass.keys /\ pass'.total = sum
        /\ pass'.done = pass.done /\ pass'.user = pass.user /\ pass'.read = pass.read /\ pass'.came = pass.came
        /\ pass'.sum = pass.sum /\ pass'.at = place /\ pass'.left = to /\ pass'.reward = pays
    BY <1>3, <2>2, <2>3 DEF Passes
  <2> QED
    BY <2>4 DEF place, to, pays, sum
<1>6. BookTypes'
  BY <1>1, <1>2, <1>5 DEF BookTypes
<1>7. pass.left \subseteq pass.keys /\ pass.done = {} /\ pass.user = {} /\ pass.keys \in SUBSET Owners /\ pass.total \in Nat
  BY <1>1, <1>2, <1>3 DEF Turn, Passes
<1>8. Turn'
  BY <1>1, <1>2, <1>5, <1>7 DEF Turn
<1>9. Nesting'
  BY <1>1, <1>2, <1>5 DEF Nesting
<1>10. ASSUME ~Script PROVE Found'
  BY <1>1, <1>5, <1>10 DEF BookInv, Found, Single
<1>11. ASSUME ~Script PROVE Summed'
  BY <1>1, <1>5, <1>11 DEF BookInv, Summed
<1>12. ASSUME ~Script, pass.came = 0 PROVE Divided'
  <2> DEFINE K == pass.keys \ pass.left
             T == K \union {u}
  <2>1. pass.total = WorkSum(listed, pass.start, K)
    BY <1>1, <1>12 DEF BookInv, Divided
  <2>2. K \in SUBSET Owners /\ u \notin K
    BY <1>1, <1>7
  <2>3. WorkSum(listed, pass.start, T) = WorkSum(listed, pass.start, K) + w
    BY <1>3, <2>2, WorkSums, ZenonT(60) DEF w
  <2>4. pass'.total = WorkSum(listed', pass'.start, T)
    BY <1>1, <1>5, <2>1, <2>3
  <2>5. CASE left = {}
    <3>1. T = pass.keys
      BY <1>1, <1>7, <2>5
    <3>2. pass'.at = "write"
      BY <1>5, <2>5
    <3>3. Parted(pass'.total, pass'.reward, EstSum(rate', pass'.done), WorkSum(listed', pass'.start, pass'.done),
                 Cardinality(pass'.done))
      <4>1. pass'.reward \in Nat /\ pass'.total \in Nat /\ pass'.done = {}
        BY <1>5, <1>7 DEF Passes
      <4>2. Cardinality({}) = 0
        BY FS_EmptySet
      <4>3. pass'.reward * 0 = 0 /\ pass'.total * 0 = 0
        BY <4>1
      <4> QED
        BY <4>1, <4>2, <4>3, NoSums DEF Parted
    <3> QED
      BY <1>5, <2>4, <3>1, <3>2, <3>3 DEF Divided
  <2>6. CASE left # {}
    <3>1. T = pass.keys \ left
      BY <1>1, <1>7
    <3>2. pass'.at = "total" /\ pass'.left = left
      BY <1>5, <2>6
    <3> QED
      BY <1>5, <2>4, <3>1, <3>2 DEF Divided
  <2> QED
    BY <2>5, <2>6
<1>13. ASSUME pass.came # 0 PROVE Divided'
  BY <1>5, <1>13 DEF Divided
<1> QED
  BY <1>6, <1>8, <1>9, <1>10, <1>11, <1>12, <1>13 DEF BookInv

LEMMA ReadBook ==
    ASSUME Book!BookAssumption, BookInv, NEW u \in Owners, Book!Read(u)
    PROVE  BookInv'
<1> DEFINE w == Book!Since(listed[u], pass.start, Window)
           e == Book!Estimate(w, pass.total, pass.reward)
           r == [rate |-> Book!DetermineHr(listed[u], pass.start), est |-> e]
<1>1. /\ pass.at = "write" /\ u \in pass.left
      /\ pass' = [pass EXCEPT !.at = "put", !.user = {u}, !.read = {r}]
      /\ now' = now /\ listed' = listed /\ rate' = rate /\ super' = super
  BY DEF Book!Read, Book!At
<1>2. BookTypes /\ Turn /\ Nesting
  BY DEF BookInv
<1>3. pass \in Passes /\ pass.start \in Nat /\ listed \in [Owners -> Seq(Listed)] /\ pass.total \in Nat /\ pass.reward \in Nat
  BY <1>2 DEF BookTypes, Passes
<1>4. w \in Nat
  BY <1>3, WorkSums
<1>5. e \in Nat
  <2> HIDE DEF w
  <2> QED
    BY <1>3, <1>4, EstimateIs
<1>6. r \in Rated /\ Nests(r) /\ r.est = e
  <2> HIDE DEF e
  <2>1. listed[u] \in Seq(Listed)
    BY <1>3
  <2> QED
    BY <1>3, <1>5, <2>1, HrNests
<1> HIDE DEF r
<1>7. /\ pass' \in Passes /\ pass'.start = pass.start /\ pass'.keys = pass.keys /\ pass'.total = pass.total
      /\ pass'.done = pass.done /\ pass'.user = {u} /\ pass'.read = {r} /\ pass'.came = pass.came
      /\ pass'.sum = pass.sum /\ pass'.at = "put" /\ pass'.left = pass.left /\ pass'.reward = pass.reward
  <2> HIDE DEF e, w
  <2> QED
    BY <1>1, <1>3, <1>6 DEF Passes
<1>8. BookTypes'
  BY <1>1, <1>2, <1>7 DEF BookTypes
<1>9. Turn'
  BY <1>1, <1>2, <1>6, <1>7 DEF Turn
<1>10. Nesting'
  BY <1>1, <1>2, <1>6, <1>7 DEF Nesting
<1>11. ASSUME ~Script PROVE Found'
  BY <1>1, <1>7, <1>11 DEF BookInv, Found, Single
<1>12. ASSUME ~Script PROVE Summed'
  BY <1>1, <1>7, <1>12 DEF BookInv, Summed
<1>13. ASSUME ~Script PROVE Divided'
  <2> HIDE DEF e, w
  <2>1. r.est = Book!Estimate(Book!Since(listed'[u], pass'.start, Window), pass'.total, pass'.reward)
    BY <1>1, <1>6, <1>7 DEF e, w
  <2> QED
    BY <1>1, <1>7, <1>13, <2>1 DEF BookInv, Divided
<1> QED
  BY <1>8, <1>9, <1>10, <1>11, <1>12, <1>13 DEF BookInv

LEMMA WriteBook ==
    ASSUME Book!BookAssumption, BookInv, Book!At("put"), Book!Write
    PROVE  BookInv'
<1>1. BookTypes /\ Turn /\ Nesting /\ pass.at = "put"
  BY DEF BookInv, Book!At
<1>2. PICK u \in pass.left, r \in Rated : pass.user = {u} /\ pass.read = {r}
  BY <1>1 DEF Turn
<1> DEFINE sum == [k \in Buckets |-> pass.sum[k] + r.rate[k]]
           left == pass.left \ {u}
           done == pass.done \union {u}
<1>3. /\ pass' = [pass EXCEPT !.sum = sum, !.done = done, !.left = left, !.at = Book!Goes(left),
                              !.user = {}, !.read = {}]
      /\ rate' = [rate EXCEPT ![u] = {r}]
      /\ now' = now /\ listed' = listed /\ super' = super
  BY <1>2 DEF Book!Write
<1>4. pass \in Passes /\ pass.left \in SUBSET Owners /\ u \in Owners /\ pass.done \in SUBSET Owners /\ pass.keys \in SUBSET Owners
      /\ pass.start \in Nat /\ pass.total \in Nat /\ pass.reward \in Nat
  BY <1>1, <1>2 DEF BookTypes, Passes
<1>5. sum \in [Buckets -> Nat]
  <2>1. \A k \in Buckets : pass.sum[k] \in Nat /\ r.rate[k] \in Nat
    BY <1>4 DEF Passes, Rated
  <2> QED
    BY <2>1
<1>6. Book!Goes(left) = IF left = {} THEN "list" ELSE "write"
  BY DEF Book!Goes
<1>7. \A k \in Buckets : sum[k] = pass.sum[k] + r.rate[k]
  OBVIOUS
<1>8. left \in SUBSET Owners /\ done \in SUBSET Owners
  BY <1>4, SMTT(40)
<1> HIDE DEF sum
<1>9. /\ pass' \in Passes /\ pass'.start = pass.start /\ pass'.keys = pass.keys /\ pass'.total = pass.total
      /\ pass'.done = done /\ pass'.user = {} /\ pass'.read = {} /\ pass'.came = pass.came
      /\ pass'.sum = sum /\ pass'.at = (IF left = {} THEN "list" ELSE "write") /\ pass'.left = left
      /\ pass'.reward = pass.reward
  <2> HIDE DEF left, done
  <2> QED
    BY <1>3, <1>4, <1>5, <1>6, <1>8 DEF Passes
<1>10. rate \in [Owners -> SUBSET Rated] /\ rate' \in [Owners -> SUBSET Rated] /\ rate'[u] = {r}
       /\ \A v \in Owners : v # u => rate'[v] = rate[v]
  BY <1>1, <1>3, <1>4 DEF BookTypes
<1>11. BookTypes'
  BY <1>1, <1>3, <1>9, <1>10 DEF BookTypes
<1>12. pass.left = pass.keys \ pass.done /\ pass.done \subseteq pass.keys
  BY <1>1 DEF Turn
<1>13. Turn'
  BY <1>2, <1>9, <1>12 DEF Turn
<1>14. Nesting'
  BY <1>1, <1>2, <1>9, <1>10 DEF Nesting
<1>15. u \notin pass.done /\ u \in pass.keys
  BY <1>2, <1>12
<1>16. ASSUME ~Script PROVE Single(rate, pass.done) /\ \A v \in pass.keys : listed[v] # <<>>
  BY <1>1, <1>16 DEF BookInv, Found
<1>17. ASSUME ~Script PROVE Found'
  <2>1. Single(rate', done)
    BY <1>4, <1>10, <1>16, <1>17 DEF Single
  <2> QED
    BY <1>3, <1>9, <1>16, <1>17, <2>1 DEF Found
<1>18. ASSUME ~Script PROVE Summed'
  <2>1. ASSUME NEW k \in Buckets PROVE sum[k] = RateSum(rate', k, done)
    <3>1. pass.sum[k] = RateSum(rate, k, pass.done)
      BY <1>18 DEF BookInv, Summed
    <3>2. RateSum(rate', k, pass.done \union {u}) = RateSum(rate, k, pass.done) + r.rate[k]
      <4>1. /\ IsFiniteSet(Owners) /\ rate \in [Owners -> SUBSET Rated] /\ pass.done \in SUBSET Owners
            /\ Single(rate, pass.done) /\ u \in Owners /\ u \notin pass.done /\ r \in Rated /\ k \in Buckets
            /\ rate' \in [Owners -> SUBSET Rated] /\ rate'[u] = {r} /\ \A v \in pass.done : rate'[v] = rate[v]
        BY <1>4, <1>10, <1>15, <1>16, <1>18, BookAllowed
      <4> QED
        BY ONLY <4>1, RateSums
    <3> QED
      BY <1>3, <1>7, <3>1, <3>2
  <2> QED
    BY <1>9, <2>1 DEF Summed
<1>19. ASSUME ~Script, pass.came = 0 PROVE Divided'
  <2> DEFINE w == Book!Since(listed[u], pass.start, Window)
             E == EstSum(rate, pass.done)
             W == WorkSum(listed, pass.start, pass.done)
             n == Cardinality(pass.done)
  <2>1. pass.total = WorkSum(listed, pass.start, pass.keys) /\ Parted(pass.total, pass.reward, E, W, n)
    BY <1>1, <1>19 DEF BookInv, Divided
  <2>2. r.est = Book!Estimate(w, pass.total, pass.reward)
    BY <1>1, <1>2, <1>19 DEF BookInv, Divided
  <2>3. EstSum(rate', done) = E + r.est /\ E \in Nat
    <3>1. /\ IsFiniteSet(Owners) /\ rate \in [Owners -> SUBSET Rated] /\ pass.done \in SUBSET Owners
          /\ Single(rate, pass.done) /\ u \in Owners /\ u \notin pass.done /\ r \in Rated
          /\ rate' \in [Owners -> SUBSET Rated] /\ rate'[u] = {r} /\ \A v \in pass.done : rate'[v] = rate[v]
      BY <1>4, <1>10, <1>15, <1>16, <1>19, BookAllowed
    <3>2. EstSum(rate', pass.done \union {u}) = EstSum(rate, pass.done) + r.est
          /\ EstSum(rate, pass.done) \in Nat
      BY ONLY <3>1, EstSums
    <3> QED
      BY <1>3, <3>2
  <2>4. listed \in [Owners -> Seq(Listed)]
    BY <1>1 DEF BookTypes
  <2>5. WorkSum(listed, pass.start, done) = W + w /\ W \in Nat /\ w \in Nat
    BY <1>4, <1>15, <2>4, WorkSums, ZenonT(60)
  <2>6. Cardinality(done) = n + 1 /\ n \in Nat
    <3>1. IsFiniteSet(pass.done)
      BY <1>4, BookAllowed, FS_Subset
    <3> QED
      BY <1>15, <3>1, FS_AddElement, FS_CardinalityType
  <2> HIDE DEF E, W, n, w, done
  <2>7. Parted(pass.total, pass.reward, E + r.est, W + w, n + 1)
    BY <1>4, <2>1, <2>2, <2>3, <2>5, <2>6, PartedNext
  <2>8. Parted(pass.total, pass.reward, EstSum(rate', done), WorkSum(listed, pass.start, done), Cardinality(done))
    BY <2>3, <2>5, <2>6, <2>7
  <2>9. CASE left # {}
    BY <1>3, <1>9, <2>1, <2>8, <2>9 DEF Divided
  <2>10. CASE left = {}
    <3>1. done = pass.keys
      BY <1>12, <1>15, <2>10 DEF done
    <3>2. Parted(pass.total, pass.reward, E + r.est, pass.total, n + 1)
      BY <2>1, <2>5, <2>7, <3>1
    <3>3. r.est \in Nat
      BY DEF Rated
    <3>4. E + r.est <= pass.reward /\ (pass.total > 0 => (E + r.est) + (n + 1) > pass.reward)
      <4>1. E + r.est \in Nat /\ n + 1 \in Nat /\ n + 1 > 0
        BY <2>3, <2>6, <3>3
      <4> QED
        BY <1>4, <3>2, <4>1, PartedEnd
    <3>5. EstSum(rate', done) <= pass.reward
          /\ (pass.total > 0 => EstSum(rate', done) + Cardinality(done) > pass.reward)
      BY <2>3, <2>6, <3>4
    <3> QED
      BY <1>9, <2>10, <3>5 DEF Divided
  <2> QED
    BY <2>9, <2>10
<1>20. ASSUME pass.came # 0 PROVE Divided'
  BY <1>9, <1>20 DEF Divided
<1> QED
  BY <1>11, <1>13, <1>14, <1>17, <1>18, <1>19, <1>20 DEF BookInv
(* A pass that has not been told of anybody new, nor forgets one who is.   *)
LEMMA BookSame ==
    ASSUME Book!BookAssumption, BookInv, ~Script,
           rate' \in [Owners -> SUBSET Rated], \A u \in pass.done : rate'[u] = rate[u]
    PROVE  /\ Single(rate', pass.done)
           /\ \A k \in Buckets : pass.sum[k] = RateSum(rate', k, pass.done)
           /\ EstSum(rate', pass.done) = EstSum(rate, pass.done)
<1>1. IsFiniteSet(Owners) /\ pass.done \in SUBSET Owners /\ rate \in [Owners -> SUBSET Rated]
  BY BookAllowed DEF BookInv, BookTypes, Passes
<1>2. Single(rate, pass.done)
  BY DEF BookInv, Found
<1>3. Single(rate', pass.done)
  BY <1>2 DEF Single
<1>4. EstSum(rate', pass.done) = EstSum(rate, pass.done)
  BY <1>1, <1>2, EstSums
<1>5. ASSUME NEW k \in Buckets PROVE pass.sum[k] = RateSum(rate', k, pass.done)
  <2>1. pass.sum[k] = RateSum(rate, k, pass.done)
    BY DEF BookInv, Summed
  <2>2. RateSum(rate', k, pass.done) = RateSum(rate, k, pass.done)
    BY <1>1, <1>2, RateSums
  <2> QED
    BY <2>1, <2>2
<1> QED
  BY <1>3, <1>4, <1>5

LEMMA LateBook ==
    ASSUME Book!BookAssumption, BookInv,
           rate' \in [Owners -> SUBSET Rated], \A u \in pass.done : rate'[u] = rate[u],
           \A u \in Owners : \A r \in rate'[u] : r \in rate[u],
           now' = now, listed' = listed, super' \in [Buckets -> Nat],
           pass' \in Passes, pass.at \in {"list", "clean", "delete"}, pass'.at \in {"idle", "list", "clean", "delete"},
           pass'.keys = pass.keys, pass'.total = pass.total, pass'.reward = pass.reward, pass'.sum = pass.sum,
           pass'.done = pass.done, pass'.read = pass.read, pass'.came = pass.came,
           pass'.at = "delete" <=> pass'.user # {},
           pass'.at = "delete" /\ ~Script => \A u \in pass'.user : u \notin pass.keys,
           pass'.at = "idle" => super' = pass.sum
    PROVE  BookInv'
<1>1. BookTypes'
  BY DEF BookInv, BookTypes
<1>2. Turn'
  BY DEF BookInv, Turn
<1>3. Nesting'
  BY DEF BookInv, Nesting
<1>4. ASSUME ~Script PROVE Found' /\ Summed'
  BY <1>4, BookSame DEF BookInv, Found, Summed
<1>5. ASSUME ~Script PROVE Divided'
  BY <1>5, BookSame DEF BookInv, Divided
<1> QED
  BY <1>1, <1>2, <1>3, <1>4, <1>5 DEF BookInv

LEMMA ListOldBook ==
    ASSUME Book!BookAssumption, BookInv, Book!ListOld
    PROVE  BookInv'
<1> DEFINE old == {u \in Owners : rate[u] # {}}
<1>1. /\ pass.at = "list" /\ pass' = [pass EXCEPT !.at = "clean", !.left = old]
      /\ now' = now /\ listed' = listed /\ rate' = rate /\ super' = super
  BY DEF Book!ListOld, Book!At
<1>2. BookTypes /\ pass.user = {} /\ pass \in Passes
  BY <1>1 DEF BookInv, BookTypes, Turn
<1>3. old \in SUBSET Owners
  OBVIOUS
<1> HIDE DEF old
<1>4. /\ pass' \in Passes /\ pass'.at = "clean" /\ pass'.keys = pass.keys /\ pass'.total = pass.total
      /\ pass'.reward = pass.reward /\ pass'.sum = pass.sum /\ pass'.done = pass.done /\ pass'.read = pass.read
      /\ pass'.came = pass.came /\ pass'.user = {}
  BY <1>1, <1>2, <1>3 DEF Passes
<1> QED
  BY <1>1, <1>2, <1>4, LateBook DEF BookTypes

LEMMA LookBook ==
    ASSUME Book!BookAssumption, BookInv, NEW u \in Owners, Book!Look(u)
    PROVE  BookInv'
<1> DEFINE place == IF listed[u] # <<>> THEN "clean" ELSE "delete"
           user  == IF listed[u] # <<>> THEN {} ELSE {u}
<1>1. /\ pass.at = "clean" /\ u \in pass.left
      /\ pass' = [pass EXCEPT !.left = pass.left \ {u}, !.at = place, !.user = user]
      /\ now' = now /\ listed' = listed /\ rate' = rate /\ super' = super
  BY DEF Book!Look, Book!At, Book!Has
<1>2. BookTypes /\ pass \in Passes /\ pass.left \in SUBSET Owners
  BY <1>1 DEF BookInv, BookTypes, Passes
<1>3. user \in SUBSET Owners /\ place \in {"clean", "delete"} /\ (place = "delete" <=> user # {})
      /\ (place = "delete" => user = {u} /\ listed[u] = <<>>)
  OBVIOUS
<1> HIDE DEF place, user
<1>4. /\ pass' \in Passes /\ pass'.at = place /\ pass'.keys = pass.keys /\ pass'.total = pass.total
      /\ pass'.reward = pass.reward /\ pass'.sum = pass.sum /\ pass'.done = pass.done /\ pass'.read = pass.read
      /\ pass'.came = pass.came /\ pass'.user = user
  BY <1>1, <1>2, <1>3 DEF Passes
<1>5. place = "delete" /\ ~Script => \A v \in user : v \notin pass.keys
  BY <1>1, <1>3 DEF BookInv, Found
<1> QED
  BY <1>1, <1>2, <1>3, <1>4, <1>5, LateBook DEF BookTypes

LEMMA DeleteBook ==
    ASSUME Book!BookAssumption, BookInv, Book!Delete
    PROVE  BookInv'
<1>1. /\ pass.at = "delete" /\ pass' = [pass EXCEPT !.at = "clean", !.user = {}]
      /\ rate' = [u \in Owners |-> IF u \in pass.user THEN {} ELSE rate[u]]
      /\ now' = now /\ listed' = listed /\ super' = super
  BY DEF Book!Delete, Book!At
<1>2. BookTypes /\ pass \in Passes /\ rate \in [Owners -> SUBSET Rated]
  BY <1>1 DEF BookInv, BookTypes
<1>3. /\ pass' \in Passes /\ pass'.at = "clean" /\ pass'.keys = pass.keys /\ pass'.total = pass.total
      /\ pass'.reward = pass.reward /\ pass'.sum = pass.sum /\ pass'.done = pass.done /\ pass'.read = pass.read
      /\ pass'.came = pass.came /\ pass'.user = {}
  BY <1>1, <1>2 DEF Passes
<1>4. rate' \in [Owners -> SUBSET Rated] /\ \A u \in Owners : \A r \in rate'[u] : r \in rate[u]
  BY <1>1, <1>2
<1>5. CASE Script
  <2>1. BookTypes'
    BY <1>1, <1>2, <1>3, <1>4 DEF BookTypes
  <2>2. Turn'
    BY <1>1, <1>3 DEF BookInv, Turn
  <2>3. Nesting'
    BY <1>3, <1>4 DEF BookInv, Nesting
  <2> QED
    BY <1>5, <2>1, <2>2, <2>3 DEF BookInv
<1>6. CASE ~Script
  <2>1. \A u \in pass.done : rate'[u] = rate[u]
    <3>1. pass.done = pass.keys /\ pass.done \in SUBSET Owners /\ \A u \in pass.user : u \notin pass.keys
      BY <1>1, <1>2, <1>6 DEF BookInv, Turn, Found, Passes
    <3> QED
      BY <1>1, <3>1
  <2> QED
    BY <1>1, <1>2, <1>3, <1>4, <2>1, LateBook DEF BookTypes
<1> QED
  BY <1>5, <1>6, BookAllowed

LEMMA SetSuperBook ==
    ASSUME Book!BookAssumption, BookInv, Book!SetSuper
    PROVE  BookInv'
<1>1. /\ pass.at = "clean" /\ pass' = [pass EXCEPT !.at = "idle"] /\ super' = pass.sum
      /\ now' = now /\ listed' = listed /\ rate' = rate
  BY DEF Book!SetSuper, Book!At
<1>2. BookTypes /\ pass \in Passes /\ pass.user = {}
  BY <1>1 DEF BookInv, BookTypes, Turn
<1>3. /\ pass' \in Passes /\ pass'.at = "idle" /\ pass'.keys = pass.keys /\ pass'.total = pass.total
      /\ pass'.reward = pass.reward /\ pass'.sum = pass.sum /\ pass'.done = pass.done /\ pass'.read = pass.read
      /\ pass'.came = pass.came /\ pass'.user = {} /\ pass.sum \in [Buckets -> Nat]
  BY <1>1, <1>2 DEF Passes
<1> QED
  BY <1>1, <1>2, <1>3, LateBook DEF BookTypes

LEMMA RecordBook ==
    ASSUME Book!BookAssumption, BookInv, NEW u \in Owners, NEW diff \in Diffs, Book!Record(u, diff)
    PROVE  BookInv'
<1> DEFINE share == [at |-> now, diff |-> diff]
           came  == IF pass.at \in {"total", "write", "put"} THEN pass.came + diff ELSE pass.came
<1>1. /\ listed' = [listed EXCEPT ![u] = Append(listed[u], share)] /\ pass' = [pass EXCEPT !.came = came]
      /\ now' = now /\ rate' = rate /\ super' = super
  BY DEF Book!Record
<1>2. BookTypes /\ pass \in Passes /\ listed \in [Owners -> Seq(Listed)] /\ diff \in Nat /\ diff > 0 /\ pass.came \in Nat
  BY BookAllowed, SMTT(40) DEF BookInv, BookTypes, Passes
<1>3. share \in Listed
  BY <1>2, BookAllowed DEF BookTypes, Listed
<1>4. came \in Nat /\ (came = 0 => pass.came = 0 /\ pass.at \notin {"total", "write", "put"})
  BY <1>2
<1> HIDE DEF share, came
<1>5. /\ pass' \in Passes /\ pass'.start = pass.start /\ pass'.keys = pass.keys /\ pass'.total = pass.total
      /\ pass'.done = pass.done /\ pass'.user = pass.user /\ pass'.read = pass.read /\ pass'.came = came
      /\ pass'.sum = pass.sum /\ pass'.at = pass.at /\ pass'.left = pass.left /\ pass'.reward = pass.reward
  BY <1>1, <1>2, <1>4 DEF Passes
<1>6. listed' \in [Owners -> Seq(Listed)] /\ \A v \in Owners : listed[v] # <<>> => listed'[v] # <<>>
  <2>1. listed[u] \in Seq(Listed)
    BY <1>2
  <2>2. Append(listed[u], share) \in Seq(Listed) /\ Append(listed[u], share) # <<>>
    BY <1>3, <2>1
  <2>3. listed'[u] = Append(listed[u], share) /\ \A v \in Owners : v # u => listed'[v] = listed[v]
    BY <1>1, <1>2
  <2>4. listed' \in [Owners -> Seq(Listed)]
    BY <1>1, <1>2, <2>2
  <2> QED
    BY <2>2, <2>3, <2>4
<1>7. BookTypes'
  BY <1>1, <1>2, <1>5, <1>6 DEF BookTypes
<1>8. Turn'
  BY <1>5 DEF BookInv, Turn
<1>9. Nesting'
  BY <1>1, <1>5 DEF BookInv, Nesting
<1>10. ASSUME ~Script PROVE Found'
  <2>1. pass.keys \in SUBSET Owners
    BY <1>2 DEF Passes
  <2> QED
    BY <1>1, <1>5, <1>6, <1>10, <2>1 DEF BookInv, Found
<1>11. ASSUME ~Script PROVE Summed'
  BY <1>1, <1>5, <1>11 DEF BookInv, Summed
<1>12. ASSUME ~Script PROVE Divided'
  BY <1>1, <1>4, <1>5, <1>12 DEF BookInv, Divided
<1> QED
  BY <1>7, <1>8, <1>9, <1>10, <1>11, <1>12 DEF BookInv

LEMMA CleanBook ==
    ASSUME Book!BookAssumption, BookInv, NEW u \in Owners, Book!Clean(u)
    PROVE  BookInv'
<1>1. PICK n \in 1 .. Len(listed[u]) : listed' = [listed EXCEPT ![u] = SubSeq(listed[u], n + 1, Len(listed[u]))]
  BY DEF Book!Clean
<1>2. /\ pass' = (IF pass.at = "idle" THEN Book!Idle ELSE pass) /\ (Script \/ pass.at = "idle")
      /\ now' = now /\ rate' = rate /\ super' = super
  BY DEF Book!Clean, Book!At
<1>3. BookTypes /\ listed \in [Owners -> Seq(Listed)]
  BY DEF BookInv, BookTypes
<1>4. listed' \in [Owners -> Seq(Listed)]
  <2>1. listed[u] \in Seq(Listed)
    BY <1>3
  <2>2. SubSeq(listed[u], n + 1, Len(listed[u])) \in Seq(Listed)
    BY <2>1
  <2> QED
    BY <1>1, <1>3, <2>2
<1>5. CASE pass.at = "idle"
  BY <1>2, <1>3, <1>4, <1>5, BookIdle DEF BookTypes, BookInv, Nesting
<1>6. CASE pass.at # "idle"
  <2>1. pass' = pass /\ Script
    BY <1>2, <1>6
  <2> QED
    BY <1>2, <1>4, <2>1 DEF BookInv, BookTypes, Turn, Nesting
<1> QED
  BY <1>5, <1>6

LEMMA NextBook ==
    ASSUME Book!BookAssumption, BookInv, [Book!Next]_(Book!vars)
    PROVE  BookInv'
<1>1. CASE Book!Begin \/ Book!ListOld \/ Book!Delete \/ Book!SetSuper
  BY <1>1, BeginBook, ListOldBook, DeleteBook, SetSuperBook
<1>2. CASE Book!Write
  BY <1>2, WriteBook DEF Book!Write
<1>3. CASE \E u \in Owners : Book!Read(u) \/ Book!Look(u) \/ \E reward \in Rewards : Book!AddUp(u, reward)
  BY <1>3, ReadBook, LookBook, AddUpBook
<1>4. CASE (\E u \in Owners : Book!ScriptEnds(u)) \/ Book!Fail
  <2>1. pass' = Book!Idle /\ now' = now /\ listed' = listed /\ rate' = rate /\ super' = super
    BY <1>4 DEF Book!ScriptEnds, Book!Fail
  <2> QED
    BY <2>1, BookIdle DEF BookInv, BookTypes, Nesting
<1>5. CASE \E u \in Owners : Book!Clean(u) \/ \E diff \in Diffs : Book!Record(u, diff)
  BY <1>5, CleanBook, RecordBook
<1>6. CASE Book!Tick \/ UNCHANGED Book!vars
  <2>1. now' \in 0 .. MaxTime
    BY <1>6, BookAllowed DEF Book!Tick, Book!vars, BookInv, BookTypes
  <2>2. pass' = pass /\ listed' = listed /\ rate' = rate /\ super' = super
    BY <1>6 DEF Book!Tick, Book!vars
  <2> QED
    BY <2>1, <2>2 DEF BookInv, BookTypes, Turn, Nesting, Found, Summed, Divided
<1> QED
  BY <1>1, <1>2, <1>3, <1>4, <1>5, <1>6 DEF Book!Next, Book!Steps

LEMMA BookHolds ==
    ASSUME Book!BookAssumption, BookInv
    PROVE  Book!TypeOK /\ Book!SuperExact /\ Book!NobodyLeftOut /\ Book!EstimatesDivide /\ Book!WindowsNest
<1> USE DEF Book!Complete, Book!At
<1>1. BookTypes /\ Turn /\ Nesting
  BY DEF BookInv
<1>2. Book!TypeOK
  <2>1. \A u \in Owners : \A r \in rate[u] : r.rate \in [Buckets -> Nat] /\ r.est \in Nat
    BY <1>1 DEF BookTypes, Rated
  <2>2. pass.done \subseteq pass.keys
    BY <1>1 DEF BookTypes, Turn, Passes
  <2> QED
    BY <1>1, <2>1, <2>2 DEF BookTypes, Turn, Passes, Book!TypeOK, Book!Rates
<1>3. Book!WindowsNest
  BY <1>1 DEF Nesting, Nests, Book!WindowsNest
<1>4. \A k : SumFunctionOnSet([u \in Owners |-> Book!RateOf(u, k)], pass.done) = RateSum(rate, k, pass.done)
  BY BookSums DEF Book!RateOf, RateSum
<1>5. Book!SuperExact
  <2> SUFFICES ASSUME pass.at = "idle", pass.keys # {}, ~Script, NEW k \in Buckets
               PROVE  super[k] = Book!SumFunctionOnSet([u \in Owners |-> Book!RateOf(u, k)], pass.done)
    BY DEF Book!SuperExact
  <2>1. super[k] = RateSum(rate, k, pass.done)
    BY DEF BookInv, Summed
  <2> QED
    BY <1>4, <2>1, BookSums
<1>6. Book!NobodyLeftOut
  BY DEF Book!NobodyLeftOut, BookInv, Turn, Found, Single
<1>7. Book!EstimatesDivide
  <2> SUFFICES ASSUME pass.at = "idle", pass.keys # {}, ~Script, pass.came = 0
               PROVE  LET told == Book!SumFunctionOnSet([u \in Owners |-> Book!Est(u)], pass.done)
                      IN  told <= pass.reward
                          /\ (pass.total > 0 => told + Book!Cardinality(pass.done) > pass.reward)
    BY DEF Book!EstimatesDivide
  <2>1. SumFunctionOnSet([u \in Owners |-> Book!Est(u)], pass.done) = EstSum(rate, pass.done)
    BY BookSums DEF Book!Est, EstSum
  <2>2. EstSum(rate, pass.done) <= pass.reward
        /\ (pass.total > 0 => EstSum(rate, pass.done) + Cardinality(pass.done) > pass.reward)
    BY DEF BookInv, Divided
  <2> QED
    BY <2>1, <2>2, BookSums, BookSizes
<1> QED
  BY <1>2, <1>3, <1>5, <1>6, <1>7

(* When a pass is over the sum is that of the users it found, none was     *)
(* left out, and what they are told is the reward, rounding apart.         *)
THEOREM BookInvariant ==
    ASSUME Book!BookAssumption
    PROVE  Book!Spec => [](Book!TypeOK /\ Book!SuperExact /\ Book!NobodyLeftOut /\ Book!EstimatesDivide
                           /\ Book!WindowsNest)
<1>1. Book!Init => BookInv
  BY InitBook
<1>2. BookInv /\ [Book!Next]_(Book!vars) => BookInv'
  BY NextBook
<1>3. BookInv => Book!TypeOK /\ Book!SuperExact /\ Book!NobodyLeftOut /\ Book!EstimatesDivide /\ Book!WindowsNest
  BY BookHolds
<1> QED
  BY <1>1, <1>2, <1>3, PTL DEF Book!Spec

---------------------------------------------------------------------------
CONSTANTS Enabled, Interval, Grace, MaxTask
VARIABLES pc, at, running, since, left, pidFile, script, waited, needs, calls, ran, killed
Tasks == INSTANCE TaskLoop WITH splits <- calls

---------------------------------------------------------------------------
(* The daemon's loop (TaskLoop).  How far a cycle is says which tasks have *)
(* had their turn, and asleep the daemon has spent what is not left.       *)
LoopTypes ==
    /\ pc \in {"off", "tasks", "sleep"} /\ at \in 1 .. 4
    /\ since \in 0 .. Interval + MaxTask /\ left \in 0 .. Interval
    /\ pidFile \in {"none", "live", "stale"} /\ script \in {"idle", "stopping"} /\ waited \in 0 .. Grace
    /\ ran \subseteq Enabled /\ killed \in {"none", "task"}

LoopFlags == running \in BOOLEAN /\ needs \in BOOLEAN /\ calls \in BOOLEAN

LoopAt ==  /\ LoopTypes /\ Tasks!FileNamesDaemon /\ Tasks!AllTurns
           /\ pc = "sleep" => since + left = Interval
           /\ pc = "tasks" => since <= MaxTask
           /\ pc = "tasks" => \A i \in 1 .. at - 1 : Tasks!Tasks[i] \in Enabled => Tasks!Tasks[i] \in ran

LoopInv == LoopAt /\ LoopFlags

LEMMA ThreeTasks ==
    /\ Len(Tasks!Tasks) = 3 /\ DOMAIN Tasks!Tasks = 1 .. 3
    /\ \A i \in 1 .. 3 : Tasks!Tasks[i] \in {"cleaner", "exporter", "hashrate"}
BY DEF Tasks!Tasks

LEMMA LoopBounds ==
    ASSUME Tasks!LoopAssumption
    PROVE  /\ Interval \in Nat /\ Interval > 0 /\ Grace \in Nat /\ MaxTask \in Nat
           /\ \A t \in Enabled : \E i \in 1 .. 3 : t = Tasks!Tasks[i]
<1>1. Interval \in Nat /\ Interval > 0 /\ Grace \in Nat /\ MaxTask \in Nat
  BY DEF Tasks!LoopAssumption
<1>2. \A t \in Enabled : \E i \in 1 .. 3 : t = Tasks!Tasks[i]
  BY ThreeTasks, Zenon DEF Tasks!LoopAssumption
<1> QED
  BY <1>1, <1>2

LEMMA LoopTyped == LoopTypes /\ LoopFlags => Tasks!TypeOK
<1> SUFFICES ASSUME LoopTypes, LoopFlags PROVE Tasks!TypeOK
  OBVIOUS
<1>1. at \in 1 .. (Len(Tasks!Tasks) + 1)
  BY ThreeTasks DEF LoopTypes
<1>2. {needs, calls} \subseteq BOOLEAN
  BY Zenon DEF LoopFlags
<1>3. /\ pc \in {"off", "tasks", "sleep"} /\ running \in BOOLEAN
      /\ since \in 0 .. (Interval + MaxTask) /\ left \in 0 .. Interval
      /\ pidFile \in {"none", "live", "stale"} /\ script \in {"idle", "stopping"} /\ waited \in 0 .. Grace
      /\ ran \subseteq Enabled /\ killed \in {"none", "task"}
  BY Zenon DEF LoopTypes, LoopFlags
<1> QED
  BY <1>1, <1>2, <1>3, Zenon DEF Tasks!TypeOK

LEMMA InitLoop ==
    ASSUME Tasks!LoopAssumption, Tasks!Init
    PROVE  LoopInv
<1>1. LoopFlags
  BY Zenon DEF Tasks!Init, LoopFlags
<1>2. LoopAt
  BY LoopBounds DEF Tasks!Init, LoopAt, LoopTypes, Tasks!FileNamesDaemon, Tasks!AllTurns
<1> QED
  BY <1>1, <1>2 DEF LoopInv

LEMMA NextFlags ==
    ASSUME LoopFlags, [Tasks!Next]_(Tasks!vars)
    PROVE  LoopFlags'
<1>1. \/ running' \in BOOLEAN
      \/ running' = running
  BY Zenon DEF Tasks!Next, Tasks!Start, Tasks!Blocks, Tasks!Task, Tasks!CycleEnds, Tasks!Wakes, Tasks!Loop, Tasks!Tick,
     Tasks!Stop, Tasks!Interrupt, Tasks!Stopped, Tasks!Kill, Tasks!Status, Tasks!Crash, Tasks!Gone, Tasks!vars
<1>2. needs' = ~needs \/ needs' = needs
  BY Zenon DEF Tasks!Next, Tasks!Start, Tasks!Blocks, Tasks!Task, Tasks!CycleEnds, Tasks!Wakes, Tasks!Tick,
     Tasks!Stop, Tasks!Interrupt, Tasks!Stopped, Tasks!Kill, Tasks!Status, Tasks!Crash, Tasks!vars
<1>3. (\E x \in BOOLEAN : calls' = (calls \/ x)) \/ calls' = calls
  <2>1. CASE Tasks!Task
    <3>1. calls' = (calls \/ (Tasks!Tasks[at] = "cleaner" /\ Tasks!Runs(Tasks!Tasks[at]) /\ needs))
      BY <2>1, Zenon DEF Tasks!Task
    <3> QED
      BY <3>1, Zenon
  <2>2. CASE ~Tasks!Task
    BY <2>2, Zenon DEF Tasks!Next, Tasks!Start, Tasks!Blocks, Tasks!CycleEnds, Tasks!Wakes, Tasks!Tick,
       Tasks!Stop, Tasks!Interrupt, Tasks!Stopped, Tasks!Kill, Tasks!Status, Tasks!Crash, Tasks!vars
  <2> QED
    BY <2>1, <2>2
<1> QED
  BY <1>1, <1>2, <1>3, Zenon DEF LoopFlags

LEMMA LoopGoesOn ==
    ASSUME Tasks!LoopAssumption, LoopAt, pc # "off", Tasks!Loop, UNCHANGED <<script, waited, needs, calls, killed>>
    PROVE  LoopAt'
BY LoopBounds DEF LoopAt, LoopTypes, Tasks!FileNamesDaemon, Tasks!AllTurns,
   Tasks!Loop, Tasks!Begin, Tasks!Gone

LEMMA NextAt ==
    ASSUME Tasks!LoopAssumption, LoopAt, [Tasks!Next]_(Tasks!vars)
    PROVE  LoopAt'
<1> USE LoopBounds, ThreeTasks DEF LoopAt, LoopTypes, Tasks!FileNamesDaemon, Tasks!AllTurns
<1>1. CASE Tasks!Start
  BY <1>1 DEF Tasks!Start, Tasks!Begin, Tasks!cycle
<1>2. CASE Tasks!Blocks \/ Tasks!Interrupt
  BY <1>2 DEF Tasks!Blocks, Tasks!Interrupt, Tasks!cycle
<1>3. CASE Tasks!Task
  <2>1. /\ at \in 1 .. 3 /\ at' = at + 1 /\ ran \subseteq ran' /\ ran' \subseteq Enabled
        /\ Tasks!Tasks[at] \in Enabled => Tasks!Tasks[at] \in ran'
        /\ UNCHANGED <<pc, running, since, left, pidFile, script, waited, needs, killed>>
    BY <1>3 DEF Tasks!Task, Tasks!NextTask, Tasks!Runs
  <2> QED
    BY <1>3, <2>1 DEF Tasks!Task
<1>4. CASE Tasks!CycleEnds
  <2>1. CASE Tasks!SleepTime(since) > 0
    <3>1. /\ pc = "tasks" /\ pc' = "sleep" /\ left' = Interval - since /\ since < Interval
          /\ at = 4 /\ UNCHANGED <<running, at, since, ran, pidFile, script, waited, needs, calls, killed>>
      BY <1>4, <2>1 DEF Tasks!CycleEnds, Tasks!SleepTime
    <3>2. ran = Enabled
      <4>1. \A i \in 1 .. 3 : Tasks!Tasks[i] \in Enabled => Tasks!Tasks[i] \in ran
        BY <3>1
      <4> QED
        BY <4>1
    <3> QED
      BY <3>1, <3>2
  <2>2. CASE ~(Tasks!SleepTime(since) > 0)
    BY <1>4, <2>2, LoopGoesOn DEF Tasks!CycleEnds
  <2> QED
    BY <2>1, <2>2
<1>5. CASE Tasks!Wakes
  BY <1>5, LoopGoesOn DEF Tasks!Wakes
<1>6. CASE Tasks!Tick
  BY <1>6 DEF Tasks!Tick
<1>7. CASE Tasks!Stop \/ Tasks!Stopped \/ Tasks!Status
  BY <1>7 DEF Tasks!Stop, Tasks!Stopped, Tasks!Status, Tasks!Forgets, Tasks!cycle
<1>8. CASE Tasks!Kill \/ Tasks!Crash
  BY <1>8 DEF Tasks!Kill, Tasks!Crash, Tasks!Gone, Tasks!Begin
<1>9. CASE UNCHANGED Tasks!vars
  BY <1>9 DEF Tasks!vars
<1> QED
  BY <1>1, <1>2, <1>3, <1>4, <1>5, <1>6, <1>7, <1>8, <1>9 DEF Tasks!Next

LEMMA NextLoop ==
    ASSUME Tasks!LoopAssumption, LoopInv, [Tasks!Next]_(Tasks!vars)
    PROVE  LoopInv'
BY NextAt, NextFlags DEF LoopInv

(* A daemon that lives is the one the file names, and every task it is to  *)
(* run has run when it sleeps.                                             *)
THEOREM LoopInvariant ==
    ASSUME Tasks!LoopAssumption
    PROVE  Tasks!Spec => [](Tasks!TypeOK /\ Tasks!FileNamesDaemon /\ Tasks!AllTurns)
<1>1. Tasks!Init => LoopInv
  BY InitLoop
<1>2. LoopInv /\ [Tasks!Next]_(Tasks!vars) => LoopInv'
  BY NextLoop
<1>3. LoopInv => Tasks!TypeOK /\ Tasks!FileNamesDaemon /\ Tasks!AllTurns
  BY LoopTyped DEF LoopInv, LoopAt
<1> QED
  BY <1>1, <1>2, <1>3, PTL DEF Tasks!Spec

(* A cycle begins an interval after the last, or late and then at once.    *)
LEMMA LoopPaced ==
    ASSUME Tasks!LoopAssumption, LoopInv, [Tasks!Next]_(Tasks!vars)
    PROVE  Tasks!Paced
<1> USE LoopBounds, ThreeTasks DEF LoopInv, LoopAt, LoopTypes, Tasks!Paced
<1>1. CASE Tasks!CycleEnds
  BY <1>1 DEF Tasks!CycleEnds, Tasks!SleepTime, Tasks!Loop
<1>2. CASE Tasks!Wakes
  BY <1>2 DEF Tasks!Wakes
<1>3. CASE Tasks!Task
  BY <1>3 DEF Tasks!Task, Tasks!NextTask
<1>4. CASE Tasks!Kill \/ Tasks!Crash \/ Tasks!Start
  BY <1>4 DEF Tasks!Kill, Tasks!Crash, Tasks!Gone, Tasks!Start
<1>5. CASE UNCHANGED at
  BY <1>5
<1> QED
  BY <1>1, <1>2, <1>3, <1>4, <1>5 DEF Tasks!Next, Tasks!Blocks, Tasks!Interrupt, Tasks!Tick, Tasks!Stop,
     Tasks!Stopped, Tasks!Status, Tasks!cycle, Tasks!vars

THEOREM LoopKeepsPace ==
    ASSUME Tasks!LoopAssumption
    PROVE  Tasks!Spec => [][Tasks!Paced]_(Tasks!vars)
<1>1. Tasks!Init => LoopInv
  BY InitLoop
<1>2. LoopInv /\ [Tasks!Next]_(Tasks!vars) => LoopInv'
  BY NextLoop
<1>3. LoopInv /\ [Tasks!Next]_(Tasks!vars) => [Tasks!Paced]_(Tasks!vars)
  BY LoopPaced
<1> QED
  BY <1>1, <1>2, <1>3, PTL DEF Tasks!Spec

---------------------------------------------------------------------------
CONSTANTS Old, MaxCrashes
VARIABLES place, latest, shares, window, log, graph, answer, reading, overlap, dirty, parsed, crashes
Files == INSTANCE StatsFiles WITH pc <- place

---------------------------------------------------------------------------
(* The files of the statistics (StatsFiles).  A file that is empty is the  *)
(* one that is being written or one over which the daemon died, and since  *)
(* then it has not come to the removal of what is broken.                  *)
Places == {"idle", "old", "download", "store", "broken", "parse", "shares", "window", "fill"}
Before == {"idle", "old", "download", "store", "broken"}  \* ... the removal

FileTypes == /\ place \in Places /\ latest \in [Files!Ages -> {"none", "empty", "whole"}]
             /\ shares \in {"none", "empty", "whole"} /\ window \in {"none", "empty", "whole"}
             /\ graph \subseteq Files!Ages /\ answer \in {"none", "ok", "fail"} /\ crashes \in 0 .. MaxCrashes

FileFlags == log \in BOOLEAN /\ reading \in BOOLEAN /\ overlap \in BOOLEAN /\ dirty \in BOOLEAN /\ parsed \in BOOLEAN

Empty(a) == latest[a] = "empty"

HalfWritten ==
    /\ \A a \in Files!Ages : Empty(a) => place \in Before /\ a <= crashes /\ (dirty \/ (place = "store" /\ a = 0))
    /\ place = "idle" => \A a \in Files!Ages : Empty(a) => a < crashes

Limited == place \notin {"idle", "old"} => latest[Old + 1] = "none"

Written == parsed /\ ~dirty => /\ place \in Before => shares = "whole" /\ window = "whole"
                               /\ place \in {"window", "fill"} => shares = "whole"

Readable == reading /\ ~overlap /\ ~dirty => \A a \in graph : latest[a] = "whole"

FilesInv == FileTypes /\ FileFlags /\ HalfWritten /\ Limited /\ Written /\ Readable

LEMMA AgesAre ==
    ASSUME Files!FilesAssumption
    PROVE  /\ Old \in Nat /\ Old > 0 /\ MaxCrashes \in Nat
           /\ Old + 1 \in Files!Ages /\ 0 \in Files!Ages /\ \A a \in Files!Ages : a \in Nat /\ a <= Old + 1
           /\ \A a \in Files!Ages : a # 0 => a - 1 \in Files!Ages
           /\ \A a \in Files!Ages : a # Old + 1 => a + 1 \in Files!Ages
BY DEF Files!FilesAssumption, Files!Ages

LEMMA FilesTyped == FileTypes /\ FileFlags => Files!TypeOK
<1> SUFFICES ASSUME FileTypes, FileFlags PROVE Files!TypeOK
  OBVIOUS
<1>1. {log, reading, overlap, dirty, parsed} \subseteq BOOLEAN
  BY Zenon DEF FileFlags
<1>2. {shares, window} \subseteq {"none", "empty", "whole"}
  BY Zenon DEF FileTypes
<1> QED
  BY <1>1, <1>2, Zenon DEF FileTypes, Places, Files!TypeOK

LEMMA InitFiles ==
    ASSUME Files!FilesAssumption, Files!Init
    PROVE  FilesInv
<1>1. FileFlags
  BY Zenon DEF Files!Init, FileFlags
<1>2. FileTypes /\ HalfWritten /\ Limited
  BY AgesAre DEF Files!Init, FileTypes, HalfWritten, Limited, Places, Empty
<1>3. Written /\ Readable
  BY Zenon DEF Files!Init, Written, Readable
<1> QED
  BY <1>1, <1>2, <1>3 DEF FilesInv

LEMMA NextFileTypes ==
    ASSUME Files!FilesAssumption, FileTypes, [Files!Next]_(Files!vars)
    PROVE  FileTypes'
<1> USE AgesAre DEF FileTypes, Places
<1>1. CASE Files!Cycle
  <2>1. graph' \subseteq Files!Ages
    BY <1>1 DEF Files!Cycle
  <2>2. latest' \in [Files!Ages -> {"none", "empty", "whole"}]
    BY <1>1 DEF Files!Cycle
  <2> QED
    BY <1>1, <2>1, <2>2 DEF Files!Cycle
<1>2. CASE Files!RemoveOld
  BY <1>2 DEF Files!RemoveOld, Files!app
<1>3. CASE Files!Download \/ Files!Store
  BY <1>3 DEF Files!Download, Files!Store, Files!app
<1>4. CASE Files!RemoveBroken
  BY <1>4 DEF Files!RemoveBroken, Files!app
<1>5. CASE Files!Parse \/ Files!Shares \/ Files!OpenWindow \/ Files!Window
  BY <1>5 DEF Files!Parse, Files!Shares, Files!OpenWindow, Files!Window, Files!SharesBecome, Files!app
<1>6. CASE Files!Logged \/ Files!Rotated \/ Files!Crash
  BY <1>6 DEF Files!Logged, Files!Rotated, Files!Crash, Files!app
<1>7. CASE Files!GraphAsked \/ Files!GraphRead \/ Files!GraphDone
  BY <1>7 DEF Files!GraphAsked, Files!GraphRead, Files!GraphDone
<1>8. CASE UNCHANGED Files!vars
  BY <1>8 DEF Files!vars
<1> QED
  BY <1>1, <1>2, <1>3, <1>4, <1>5, <1>6, <1>7, <1>8 DEF Files!Next, Files!Exporter

LEMMA NextFileFlags ==
    ASSUME FileFlags, [Files!Next]_(Files!vars)
    PROVE  FileFlags'
<1>1. CASE Files!Exporter
  BY <1>1, Zenon DEF FileFlags, Files!Exporter, Files!Works, Files!app, Files!Cycle, Files!RemoveOld, Files!Download,
     Files!Store, Files!RemoveBroken, Files!Parse, Files!Shares, Files!OpenWindow, Files!Window
<1>2. CASE Files!Logged \/ Files!Rotated \/ Files!Crash
  BY <1>2, Zenon DEF FileFlags, Files!Logged, Files!Rotated, Files!Crash, Files!app
<1>3. CASE Files!GraphAsked \/ Files!GraphRead \/ Files!GraphDone
  BY <1>3, Zenon DEF FileFlags, Files!GraphAsked, Files!GraphRead, Files!GraphDone
<1>4. CASE UNCHANGED Files!vars
  BY <1>4, Zenon DEF FileFlags, Files!vars
<1> QED
  BY <1>1, <1>2, <1>3, <1>4 DEF Files!Next

LEMMA NextHalfWritten ==
    ASSUME Files!FilesAssumption, FileTypes, HalfWritten, [Files!Next]_(Files!vars)
    PROVE  HalfWritten'
<1> USE AgesAre DEF FileTypes, HalfWritten, Empty, Places, Before
<1>1. CASE Files!Cycle
  <2>1. \A a \in Files!Ages : Empty(a)' => a <= crashes /\ dirty
    BY <1>1 DEF Files!Cycle, Files!Present
  <2> QED
    BY <1>1, <2>1 DEF Files!Cycle
<1>2. CASE Files!RemoveOld
  BY <1>2 DEF Files!RemoveOld
<1>3. CASE Files!Download
  BY <1>3 DEF Files!Download
<1>4. CASE Files!Store
  BY <1>4 DEF Files!Store
<1>5. CASE Files!RemoveBroken
  BY <1>5 DEF Files!RemoveBroken, Files!Short
<1>6. CASE Files!Parse \/ Files!Shares \/ Files!OpenWindow \/ Files!Window
  BY <1>6 DEF Files!Parse, Files!Shares, Files!OpenWindow, Files!Window
<1>7. CASE Files!Logged \/ Files!Rotated
  BY <1>7 DEF Files!Logged, Files!Rotated
<1>8. CASE Files!Crash
  BY <1>8 DEF Files!Crash
<1>9. CASE Files!GraphAsked \/ Files!GraphRead \/ Files!GraphDone \/ UNCHANGED Files!vars
  BY <1>9 DEF Files!GraphAsked, Files!GraphRead, Files!GraphDone, Files!vars
<1> QED
  BY <1>1, <1>2, <1>3, <1>4, <1>5, <1>6, <1>7, <1>8, <1>9 DEF Files!Next, Files!Exporter

LEMMA NextLimited ==
    ASSUME Files!FilesAssumption, FileTypes, Limited, [Files!Next]_(Files!vars)
    PROVE  Limited'
<1> USE AgesAre DEF FileTypes, Limited, Places
<1>1. CASE Files!RemoveOld \/ Files!RemoveBroken
  BY <1>1 DEF Files!RemoveOld, Files!TooOld, Files!RemoveBroken
<1>2. CASE Files!Download \/ Files!Store
  BY <1>2 DEF Files!Download, Files!Store
<1>3. CASE ~(Files!RemoveOld \/ Files!RemoveBroken \/ Files!Download \/ Files!Store)
  BY <1>3 DEF Files!Next, Files!Exporter, Files!Cycle, Files!Parse, Files!Shares, Files!OpenWindow, Files!Window,
     Files!Logged, Files!Rotated, Files!Crash, Files!GraphAsked, Files!GraphRead, Files!GraphDone, Files!vars
<1> QED
  BY <1>1, <1>2, <1>3

LEMMA NextWritten ==
    ASSUME Written, [Files!Next]_(Files!vars)
    PROVE  Written'
BY DEF Written, Before, Files!Next, Files!Exporter, Files!Cycle, Files!RemoveOld, Files!Download, Files!Store,
   Files!RemoveBroken, Files!Parse, Files!Shares, Files!SharesBecome, Files!OpenWindow, Files!Window,
   Files!Logged, Files!Rotated, Files!Crash, Files!GraphAsked, Files!GraphRead, Files!GraphDone, Files!vars

LEMMA NextReadable ==
    ASSUME FilesInv, [Files!Next]_(Files!vars)
    PROVE  Readable'
<1>1. CASE Files!Exporter
  <2>1. overlap' = reading /\ reading' = reading
    BY <1>1, Zenon DEF Files!Exporter, Files!Works, Files!app, Files!Cycle, Files!RemoveOld, Files!Download,
     Files!Store, Files!RemoveBroken, Files!Parse, Files!Shares, Files!OpenWindow, Files!Window
  <2> QED
    BY <2>1, Zenon DEF Readable
<1>2. CASE Files!GraphAsked
  <2>1. ASSUME ~overlap', ~dirty, NEW a \in graph' PROVE latest'[a] = "whole"
    <3>1. place = "idle" /\ a \in Files!Ages /\ latest[a] # "none" /\ latest' = latest
      BY <1>2, <2>1 DEF Files!GraphAsked, Files!Present
    <3>2. latest[a] # "empty"
      BY <2>1, <3>1 DEF FilesInv, HalfWritten, Empty
    <3> QED
      BY <3>1, <3>2 DEF FilesInv, FileTypes
  <2> QED
    BY <1>2, <2>1 DEF Files!GraphAsked, Readable
<1>3. CASE Files!GraphRead
  <2>1. graph' \subseteq graph /\ latest' = latest /\ overlap' = overlap /\ dirty' = dirty /\ (reading' => reading)
    BY <1>3 DEF Files!GraphRead
  <2> QED
    BY <2>1 DEF FilesInv, Readable
<1>4. CASE Files!GraphDone \/ Files!Logged \/ Files!Rotated \/ Files!Crash \/ UNCHANGED Files!vars
  BY <1>4 DEF FilesInv, Readable, Files!GraphDone, Files!Logged, Files!Rotated, Files!Crash, Files!vars, Files!app
<1> QED
  BY <1>1, <1>2, <1>3, <1>4 DEF Files!Next

LEMMA NextFiles ==
    ASSUME Files!FilesAssumption, FilesInv, [Files!Next]_(Files!vars)
    PROVE  FilesInv'
BY NextFileTypes, NextFileFlags, NextHalfWritten, NextLimited, NextWritten, NextReadable DEF FilesInv

LEMMA FilesFound ==
    ASSUME Files!FilesAssumption, FilesInv
    PROVE  Files!TypeOK /\ Files!StatsFound /\ Files!FilesBounded /\ Files!BrokenGo
<1>1. Files!TypeOK
  BY FilesTyped DEF FilesInv
<1>2. Files!StatsFound
  BY DEF FilesInv, Written, Before, Files!StatsFound, Files!StatsAnswer
<1>3. Files!BrokenGo
  BY DEF FilesInv, HalfWritten, Empty, Files!BrokenGo
<1>4. ASSUME place \notin {"idle", "old"}
      PROVE  Files!Cardinality({a \in Files!Ages : Files!Present(a)}) <= Old + 1
  <2> DEFINE P == {a \in Files!Ages : Files!Present(a)}
  <2>1. P \subseteq 0 .. Old
    <3>1. latest[Old + 1] = "none"
      BY <1>4 DEF FilesInv, Limited
    <3> QED
      BY <3>1, AgesAre DEF Files!Present, Files!Ages
  <2>2. IsFiniteSet(0 .. Old) /\ Cardinality(0 .. Old) = Old + 1
    BY AgesAre, FS_Interval
  <2>3. Cardinality(P) <= Old + 1
    BY <2>1, <2>2, FS_Subset
  <2>4. Files!Cardinality(P) = Cardinality(P)
    BY DEF Files!Cardinality, Cardinality
  <2> QED
    BY <2>3, <2>4
<1> QED
  BY <1>1, <1>2, <1>3, <1>4 DEF Files!FilesBounded

(* What a cycle asks for is there, the files are bounded, and what was     *)
(* left half written goes.                                                 *)
THEOREM FilesInvariant ==
    ASSUME Files!FilesAssumption
    PROVE  Files!Spec => [](Files!TypeOK /\ Files!StatsFound /\ Files!FilesBounded /\ Files!BrokenGo)
<1>1. Files!Init => FilesInv
  BY InitFiles
<1>2. FilesInv /\ [Files!Next]_(Files!vars) => FilesInv'
  BY NextFiles
<1>3. FilesInv => Files!TypeOK /\ Files!StatsFound /\ Files!FilesBounded /\ Files!BrokenGo
  BY FilesFound
<1> QED
  BY <1>1, <1>2, <1>3, PTL DEF Files!Spec

(* A graph is refused only beside the exporter or after a death.           *)
LEMMA GraphsFail ==
    ASSUME FilesInv
    PROVE  Files!GraphFailsBeside
BY DEF FilesInv, Readable, Files!GraphFailsBeside, Files!GraphRead

THEOREM GraphsServed ==
    ASSUME Files!FilesAssumption
    PROVE  Files!Spec => [][Files!GraphFailsBeside]_(Files!vars)
<1>1. Files!Init => FilesInv
  BY InitFiles
<1>2. FilesInv /\ [Files!Next]_(Files!vars) => FilesInv'
  BY NextFiles
<1>3. FilesInv => [Files!GraphFailsBeside]_(Files!vars)
  BY GraphsFail
<1> QED
  BY <1>1, <1>2, <1>3, PTL DEF Files!Spec

---------------------------------------------------------------------------
CONSTANTS Miners, MaxSubmits, LastJob, Answers, Pieces, Waits, Hellos, Resets, Oddities, StoreFails, MaxSockets
VARIABLES link, inputs, ready, entry, inbox, pool, peer, credit, death
Tap == INSTANCE StratumTap WITH list <- inputs, user <- entry

---------------------------------------------------------------------------
(* The proxy of the unencrypted port (StratumTap).  A share is at one      *)
(* place at a time: it is on its way to the proxy, or in the list of what  *)
(* was submitted, or recorded (SharesOnce).  Where miners wait there is    *)
(* one request or answer between a miner and the pool (OneOnTheWay), so    *)
(* that what matches the present job is the share the answer is for        *)
(* (Outstanding).                                                          *)
FromMiner == [kind : {"login", "hello", "submit", "eof", "reset", "odd"}, job : 0 .. LastJob, n : 0 .. MaxSubmits]
FromPool  == [kind : {"welcome", "job", "ok", "refused", "error", "eof", "reset", "odd"},
              job : 0 .. LastJob, n : 0 .. MaxSubmits]
Entries   == [in : BOOLEAN, login : BOOLEAN, job : 0 .. LastJob, submitted : [Tap!Shares -> 0 .. LastJob],
              odd : BOOLEAN, accepted : Nat, rejected : Nat]
PoolEnds  == [due : Seq(0 .. MaxSubmits), took : SUBSET Tap!Shares, job : 0 .. LastJob]
PeerEnds  == [sent : 0 .. MaxSubmits, job : 0 .. LastJob, waits : BOOLEAN, gone : SUBSET Tap!Sides,
              odd : SUBSET Tap!Sides]

ToProxy(m) == inbox[<<m, "miner">>]    \* what the miner has sent
ToMiner(m) == inbox[<<m, "pool">>]

TapTypes ==
    /\ link \in [Miners -> {"none", "asks", "open", "closed"}]
    /\ inputs \in Seq(Tap!Sockets \cup {Tap!Server}) /\ ready \in Seq(Tap!Sockets \cup {Tap!Server})
    /\ entry \in [Miners -> Entries]
    /\ inbox = [s \in Tap!Sockets |-> inbox[s]]
    /\ \A m \in Miners : ToProxy(m) \in Seq(FromMiner) /\ ToMiner(m) \in Seq(FromPool)
    /\ pool \in [Miners -> PoolEnds] /\ peer \in [Miners -> PeerEnds]
    /\ credit \in [Miners -> [Tap!Shares -> Nat]]
    /\ death \in {"none", "closed", "reset", "no job", "pipe", "message", "store", "full"}

(* Sockets in input_list, and those of a round of select.                  *)
ListedOnce ==
    /\ \A i, j \in DOMAIN inputs : inputs[i] = inputs[j] => i = j
    /\ \A m \in Miners : \A side \in Tap!Sides :
         (\E i \in DOMAIN inputs : inputs[i] = <<m, side>>) <=> link[m] = "open"

RoundOf ==
    /\ \A i, j \in DOMAIN ready : ready[i] = ready[j] => i = j
    /\ ~Hellos => \A i \in DOMAIN ready : \E j \in DOMAIN inputs : inputs[j] = ready[i]

(* What the ends may send.                                                 *)
Fair(msg) == /\ msg.kind = "hello" => Hellos
             /\ msg.kind = "reset" => Resets
             /\ msg.kind = "odd" => Oddities

Accidents ==
    /\ \A m \in Miners : \A i \in DOMAIN ToProxy(m) : Fair(ToProxy(m)[i])
    /\ \A m \in Miners : \A i \in DOMAIN ToMiner(m) : Fair(ToMiner(m)[i])
    /\ \A m \in Miners : entry[m].odd => Oddities
    /\ Tap!DiesOnly

Submits(m) == {i \in DOMAIN ToProxy(m) : ToProxy(m)[i].kind = "submit"}

(* Of an entry u: recorded shares are among the accepted.                  *)
Counts(u, recorded) ==
    u.in => recorded <= u.accepted /\ (Pieces \/ StoreFails \/ recorded = u.accepted)

(* Of an entry u, the recorded c, and q on its way, which submits at subs.  *)
OnceOf(l, u, sent, c, q, subs) ==
    /\ l \in {"none", "asks"} => sent = 0
    /\ \A n \in Tap!Shares : /\ c[n] <= 1
                             /\ c[n] > 0 => n <= sent
                             /\ u.submitted[n] # 0 => n <= sent /\ c[n] = 0
    /\ \A i \in subs : q[i].n \in 1 .. sent /\ q[i].job > 0 /\ c[q[i].n] = 0 /\ u.submitted[q[i].n] = 0
    /\ \A i, j \in subs : q[i].n = q[j].n => i = j
    /\ Counts(u, Cardinality({n \in Tap!Shares : c[n] > 0}))

SharesOnce ==
    \A m \in Miners : OnceOf(link[m], entry[m], peer[m].sent, credit[m], ToProxy(m), Submits(m))

New(e, p, q, t) == q = <<>> /\ t = <<>> /\ p.due = <<>> /\ p.job = 0 /\ e.sent = 0 /\ e.job = 0 /\ ~e.waits

On(q, kinds) == {i \in DOMAIN q : q[i].kind \in kinds}
Asks    == {"login", "hello", "submit"}
Replies == {"welcome", "ok", "refused", "error"}
News    == {"welcome", "job"}
Given   == {"submit"}
Logins  == {"login"}
Welcomes == {"welcome"}

(* Where messages are whole, a miner whose login was not read has no job,  *)
(* so that nothing is accepted of it that is not recorded.                 *)
Mute(e, p, u, q, t) ==
    /\ e.job = 0 /\ p.job = 0 /\ p.due = <<>> /\ On(q, Given) = {} /\ On(t, News) = {}
    /\ \A n \in Tap!Shares : u.submitted[n] = 0

NamedOf(l, e, p, u, q, t) ==
    /\ l \in {"none", "asks"} => New(e, p, q, t)
    /\ l = "open" => u.in
    /\ l = "open" /\ ~u.login => Mute(e, p, u, q, t)

NamedInv ==
    ~Pieces => \A m \in Miners : NamedOf(link[m], peer[m], pool[m], entry[m], ToProxy(m), ToMiner(m))

TapInv == TapTypes /\ ListedOnce /\ RoundOf /\ Accidents /\ SharesOnce /\ NamedInv

(* Where miners wait, pools answer with a status, and messages are whole.  *)
Exact == Waits /\ ~Pieces /\ "error" \notin Answers

(* Of a miner e, what the pool p has of it, the entry u, and the queues to *)
(* the proxy from the miner (q) and from the pool (t).                     *)
OneOnTheWay(e, p, q, t) ==
    /\ ~e.waits => On(q, Asks) = {} /\ p.due = <<>> /\ On(t, Replies) = {}
    /\ \A i, j \in On(q, Asks) : i = j
    /\ On(q, Asks) # {} => p.due = <<>> /\ On(t, Replies) = {}
    /\ p.due # <<>> => Len(p.due) = 1 /\ p.due[1] = e.sent /\ On(t, Replies) = {}
    /\ \A i, j \in On(t, Replies) : i = j

WhatItIs(e, p, q, t) ==
    /\ \A i \in On(q, Given) : q[i].n = e.sent /\ q[i].job <= e.job
    /\ \A i \in On(q, Logins) : p.job = 0 /\ q[i].n = 0
    /\ p.due # <<>> /\ p.due[1] = 0 => p.job = 0
    /\ \A i \in On(t, Replies) : /\ t[i].kind # "error"
                                 /\ t[i].kind \in {"ok", "refused"} => e.sent > 0
                                 /\ t[i].kind = "ok" => e.sent \in p.took

JobsInOrder(e, p, u, t) ==
    /\ e.job <= p.job
    /\ e.sent > 0 => e.job > 0
    /\ ~e.waits /\ e.job = 0 => p.job = 0
    /\ \A i \in On(t, News) : e.job < t[i].job /\ t[i].job <= p.job
    /\ \A i, j \in On(t, News) : i < j => t[i].job < t[j].job
    /\ \A i \in On(t, Welcomes) : e.job = 0 /\ t[i].job = 1
    /\ u.job = e.job \/ (u.job = 0 /\ e.job <= 1)

Outstanding(e, u) ==
    /\ u.in
    /\ \A n \in Tap!Shares : /\ u.submitted[n] <= e.job
                             /\ u.submitted[n] # 0 /\ u.submitted[n] >= u.job => n = e.sent /\ e.waits

Known(e, p, u, q, t) ==
    OneOnTheWay(e, p, q, t) /\ WhatItIs(e, p, q, t) /\ JobsInOrder(e, p, u, t) /\ Outstanding(e, u)

ExactOf(l, e, p, u, c, q, t) ==
    /\ l \in {"none", "asks"} => New(e, p, q, t)
    /\ l = "open" => Known(e, p, u, q, t)
    /\ \A n \in Tap!Shares : c[n] > 0 => n \in p.took

ExactInv == \A m \in Miners : ExactOf(link[m], peer[m], pool[m], entry[m], credit[m], ToProxy(m), ToMiner(m))

LEMMA TapAllowed ==
    ASSUME Tap!TapAssumption
    PROVE  /\ MaxSubmits \in Nat /\ LastJob \in Nat /\ LastJob > 0
           /\ Answers \subseteq {"ok", "refused", "error"}
           /\ Hellos \in BOOLEAN /\ Resets \in BOOLEAN /\ Pieces \in BOOLEAN /\ Waits \in BOOLEAN
           /\ Oddities \in BOOLEAN /\ StoreFails \in BOOLEAN /\ MaxSockets \in Nat
BY DEF Tap!TapAssumption

LEMMA Ends ==
    /\ \A m \in Miners : <<m, "miner">> \in Tap!Sockets /\ <<m, "pool">> \in Tap!Sockets
    /\ \A s \in Tap!Sockets : \E m \in Miners : s = <<m, "miner">> \/ s = <<m, "pool">>
    /\ \A m \in Miners : Tap!Other(<<m, "miner">>) = <<m, "pool">> /\ Tap!Other(<<m, "pool">>) = <<m, "miner">>
BY DEF Tap!Sockets, Tap!Sides, Tap!Other

(* What is put at the end of an inbox.                                     *)
LEMMA PutAt ==
    ASSUME TapTypes, NEW m \in Miners, NEW side \in Tap!Sides, NEW msg, Tap!Puts(<<m, side>>, msg)
    PROVE  /\ inbox' = [s \in Tap!Sockets |-> inbox'[s]]
           /\ \A k \in Miners : k # m => ToProxy(k)' = ToProxy(k) /\ ToMiner(k)' = ToMiner(k)
           /\ side = "miner" => ToProxy(m)' = Append(ToProxy(m), msg) /\ ToMiner(m)' = ToMiner(m)
           /\ side = "pool" => ToMiner(m)' = Append(ToMiner(m), msg) /\ ToProxy(m)' = ToProxy(m)
<1>1. inbox' = [inbox EXCEPT ![<<m, side>>] = Append(@, msg)]
  BY DEF Tap!Puts
<1>2. <<m, side>> \in Tap!Sockets /\ DOMAIN inbox = Tap!Sockets
  BY DEF TapTypes, Tap!Sockets
<1>3. /\ inbox'[<<m, side>>] = Append(inbox[<<m, side>>], msg)
      /\ \A s \in Tap!Sockets : s # <<m, side>> => inbox'[s] = inbox[s]
      /\ inbox' = [s \in Tap!Sockets |-> inbox'[s]]
  BY ONLY <1>1, <1>2
<1>4. \A k \in Miners : <<k, "miner">> \in Tap!Sockets /\ <<k, "pool">> \in Tap!Sockets
  BY Ends
<1> QED
  BY <1>3, <1>4 DEF ToProxy, ToMiner

LEMMA PutToProxy ==
    ASSUME TapTypes, NEW m \in Miners, NEW msg \in FromMiner, Tap!Puts(<<m, "miner">>, msg)
    PROVE  /\ inbox' = [s \in Tap!Sockets |-> inbox'[s]]
           /\ \A k \in Miners : ToProxy(k)' \in Seq(FromMiner) /\ ToMiner(k)' = ToMiner(k)
           /\ \A k \in Miners : k # m => ToProxy(k)' = ToProxy(k)
           /\ ToProxy(m)' = Append(ToProxy(m), msg)
<1>1. \A k \in Miners : ToProxy(k) \in Seq(FromMiner)
  BY DEF TapTypes
<1>2. Append(ToProxy(m), msg) \in Seq(FromMiner)
  BY ONLY <1>1, m \in Miners, msg \in FromMiner
<1> QED
  BY <1>1, <1>2, PutAt DEF Tap!Sides

LEMMA PutToMiner ==
    ASSUME TapTypes, NEW m \in Miners, NEW msg \in FromPool, Tap!Puts(<<m, "pool">>, msg)
    PROVE  /\ inbox' = [s \in Tap!Sockets |-> inbox'[s]]
           /\ \A k \in Miners : ToMiner(k)' \in Seq(FromPool) /\ ToProxy(k)' = ToProxy(k)
           /\ \A k \in Miners : k # m => ToMiner(k)' = ToMiner(k)
           /\ ToMiner(m)' = Append(ToMiner(m), msg)
<1>1. \A k \in Miners : ToMiner(k) \in Seq(FromPool)
  BY DEF TapTypes
<1>2. Append(ToMiner(m), msg) \in Seq(FromPool)
  BY ONLY <1>1, m \in Miners, msg \in FromPool
<1> QED
  BY <1>1, <1>2, PutAt DEF Tap!Sides

(* The same for what is taken from the front.                              *)
LEMMA TakenFrom ==
    ASSUME TapTypes, NEW m \in Miners, NEW side \in Tap!Sides, inbox[<<m, side>>] # <<>>,
           inbox' = [inbox EXCEPT ![<<m, side>>] = Tail(@)]
    PROVE  /\ inbox' = [s \in Tap!Sockets |-> inbox'[s]]
           /\ \A k \in Miners : ToProxy(k)' \in Seq(FromMiner) /\ ToMiner(k)' \in Seq(FromPool)
           /\ \A k \in Miners : k # m => ToProxy(k)' = ToProxy(k) /\ ToMiner(k)' = ToMiner(k)
           /\ side = "miner" => ToProxy(m)' = Tail(ToProxy(m)) /\ ToMiner(m)' = ToMiner(m)
           /\ side = "pool"  => ToMiner(m)' = Tail(ToMiner(m)) /\ ToProxy(m)' = ToProxy(m)
<1>1. <<m, side>> \in Tap!Sockets /\ DOMAIN inbox = Tap!Sockets
  BY DEF TapTypes, Tap!Sockets
<1>2. /\ inbox'[<<m, side>>] = Tail(inbox[<<m, side>>])
      /\ \A s \in Tap!Sockets : s # <<m, side>> => inbox'[s] = inbox[s]
  BY <1>1
<1>3. \A k \in Miners : /\ <<k, "miner">> \in Tap!Sockets /\ <<k, "pool">> \in Tap!Sockets
                        /\ k # m => <<k, "miner">> # <<m, side>> /\ <<k, "pool">> # <<m, side>>
  BY Ends
<1>5. inbox' = [s \in Tap!Sockets |-> inbox'[s]]
  BY <1>1
<1>6. \A k \in Miners : k # m => ToProxy(k)' = ToProxy(k) /\ ToMiner(k)' = ToMiner(k)
  BY <1>2, <1>3 DEF ToProxy, ToMiner
<1>7. side = "miner" => ToProxy(m)' = Tail(ToProxy(m)) /\ ToMiner(m)' = ToMiner(m)
  <2>1. side = "miner" => <<m, "pool">> # <<m, side>>
    OBVIOUS
  <2> QED
    BY <1>2, <1>3, <2>1 DEF ToProxy, ToMiner
<1>8. side = "pool" => ToMiner(m)' = Tail(ToMiner(m)) /\ ToProxy(m)' = ToProxy(m)
  <2>1. side = "pool" => <<m, "miner">> # <<m, side>>
    OBVIOUS
  <2> QED
    BY <1>2, <1>3, <2>1 DEF ToProxy, ToMiner
<1>9. \A k \in Miners : ToProxy(k) \in Seq(FromMiner) /\ ToMiner(k) \in Seq(FromPool)
  BY DEF TapTypes
<1>10. (side = "miner" => ToProxy(m) # <<>>) /\ (side = "pool" => ToMiner(m) # <<>>)
  BY DEF ToProxy, ToMiner
<1>12. side = "miner" => Tail(ToProxy(m)) \in Seq(FromMiner)
  <2>1. ToProxy(m) \in Seq(FromMiner)
    BY <1>9
  <2> QED
    BY ONLY <2>1, <1>10, HeadTailProperties
<1>13. side = "pool" => Tail(ToMiner(m)) \in Seq(FromPool)
  <2>1. ToMiner(m) \in Seq(FromPool)
    BY <1>9
  <2> QED
    BY ONLY <2>1, <1>10, HeadTailProperties
<1>11. side = "miner" \/ side = "pool"
  BY DEF Tap!Sides
<1>14. \A k \in Miners : ToProxy(k)' \in Seq(FromMiner) /\ ToMiner(k)' \in Seq(FromPool)
  BY ONLY <1>6, <1>7, <1>8, <1>9, <1>11, <1>12, <1>13
<1> QED
  BY <1>5, <1>6, <1>7, <1>8, <1>14

LEMMA FrontOff ==
    ASSUME NEW T, NEW q \in Seq(T), q # <<>>
    PROVE  /\ Head(q) = q[1] /\ q[1] \in T /\ 1 \in DOMAIN q
           /\ Tail(q) \in Seq(T) /\ Len(Tail(q)) = Len(q) - 1
           /\ \A i \in DOMAIN Tail(q) : i + 1 \in DOMAIN q /\ i + 1 > 1 /\ Tail(q)[i] = q[i + 1]
OBVIOUS

LEMMA PutLast ==
    ASSUME NEW T, NEW q \in Seq(T), NEW e
    PROVE  /\ DOMAIN Append(q, e) = DOMAIN q \cup {Len(q) + 1} /\ Len(q) + 1 \notin DOMAIN q
           /\ Append(q, e)[Len(q) + 1] = e /\ \A i \in DOMAIN q : Append(q, e)[i] = q[i] /\ i < Len(q) + 1
OBVIOUS

LEMMA TapParts ==
    ASSUME TapTypes, NEW m \in Miners
    PROVE  /\ link[m] \in {"none", "asks", "open", "closed"}
           /\ entry[m] \in Entries /\ pool[m] \in PoolEnds /\ peer[m] \in PeerEnds
           /\ credit[m] \in [Tap!Shares -> Nat]
           /\ ToProxy(m) \in Seq(FromMiner) /\ ToMiner(m) \in Seq(FromPool)
BY DEF TapTypes

LEMMA PoolIs ==
    ASSUME NEW p \in PoolEnds
    PROVE  p.due \in Seq(0 .. MaxSubmits) /\ p.took \subseteq Tap!Shares /\ p.job \in 0 .. LastJob
BY DEF PoolEnds

LEMMA PeerIs ==
    ASSUME NEW p \in PeerEnds
    PROVE  p.sent \in 0 .. MaxSubmits /\ p.job \in 0 .. LastJob /\ p.gone \subseteq Tap!Sides
BY DEF PeerEnds

LEMMA EntryFields ==
    ASSUME NEW u \in Entries
    PROVE  /\ u.job \in 0 .. LastJob /\ u.submitted \in [Tap!Shares -> 0 .. LastJob]
           /\ u.accepted \in Nat /\ u.rejected \in Nat /\ u.in \in BOOLEAN /\ u.login \in BOOLEAN
BY DEF Entries

LEMMA PoolPut ==
    ASSUME TapTypes, NEW m \in Miners, NEW p \in PoolEnds, pool' = [pool EXCEPT ![m] = p]
    PROVE  pool' \in [Miners -> PoolEnds] /\ pool'[m] = p /\ \A k \in Miners : k # m => pool'[k] = pool[k]
BY DEF TapTypes

LEMMA PeerPut ==
    ASSUME TapTypes, NEW m \in Miners, NEW p \in PeerEnds, peer' = [peer EXCEPT ![m] = p]
    PROVE  peer' \in [Miners -> PeerEnds] /\ peer'[m] = p /\ \A k \in Miners : k # m => peer'[k] = peer[k]
BY DEF TapTypes

(* A pool's answer.                                                        *)
LEMMA SettledAs ==
    ASSUME Tap!TapAssumption, TapTypes, NEW m \in Miners, Tap!Settle(m)
    PROVE  /\ pool[m].due # <<>> /\ pool[m].due \in Seq(0 .. MaxSubmits) /\ pool[m].due[1] \in 0 .. MaxSubmits
           /\ \A k \in Miners : k # m => pool'[k] = pool[k]
           /\ pool'[m].due = Tail(pool[m].due) /\ pool' \in [Miners -> PoolEnds]
           /\ \E kind \in {"welcome", "ok", "refused", "error"}, job \in 0 .. LastJob :
                /\ Tap!Puts(<<m, "pool">>, Tap!Msg(kind, job, pool[m].due[1]))
                /\ Tap!Msg(kind, job, pool[m].due[1]) \in FromPool
                /\ (kind = "welcome" <=> pool[m].due[1] = 0) /\ (kind # "welcome" => kind \in Answers)
                /\ kind = "welcome" => job = 1 /\ pool'[m].job = 1 /\ pool'[m].took = pool[m].took
                /\ kind # "welcome" =>
                     /\ pool'[m].job = pool[m].job
                     /\ pool'[m].took = IF kind = "ok" THEN pool[m].took \cup {pool[m].due[1]} ELSE pool[m].took
<1>0. MaxSubmits \in Nat /\ LastJob \in Nat /\ LastJob > 0 /\ Answers \subseteq {"ok", "refused", "error"}
  BY TapAllowed
<1>1. pool[m] \in PoolEnds /\ pool[m].due # <<>> /\ pool \in [Miners -> PoolEnds]
  BY DEF TapTypes, Tap!Settle
<1> DEFINE n == pool[m].due[1]
<1>2. pool[m].due \in Seq(0 .. MaxSubmits) /\ n \in 0 .. MaxSubmits /\ Head(pool[m].due) = n
      /\ Tail(pool[m].due) \in Seq(0 .. MaxSubmits)
  <2>1. pool[m].due \in Seq(0 .. MaxSubmits)
    BY <1>1, PoolIs
  <2> QED
    BY <1>1, <2>1, FrontOff DEF n
<1> HIDE DEF n
<1>3. CASE n = 0
  <2>1. pool' = [pool EXCEPT ![m].due = Tail(@), ![m].job = 1] /\ Tap!Puts(<<m, "pool">>, Tap!Msg("welcome", 1, 0))
    BY <1>2, <1>3 DEF Tap!Settle
  <2>2. Tap!Msg("welcome", 1, 0) \in FromPool
    BY <1>0 DEF Tap!Msg, FromPool
  <2>5. [pool[m] EXCEPT !.due = Tail(pool[m].due), !.job = 1] \in PoolEnds
    <3> DEFINE d == Tail(pool[m].due)
    <3>1. pool[m] \in PoolEnds /\ d \in Seq(0 .. MaxSubmits) /\ 1 \in 0 .. LastJob
      BY <1>0, <1>1, <1>2
    <3> HIDE DEF d
    <3>2. [pool[m] EXCEPT !.due = d, !.job = 1] \in PoolEnds
      BY ONLY <3>1 DEF PoolEnds
    <3> QED
      BY <3>2 DEF d
  <2>3. pool' = [pool EXCEPT ![m] = [pool[m] EXCEPT !.due = Tail(pool[m].due), !.job = 1]]
    BY <1>1, <2>1
  <2>6. pool'[m] = [pool[m] EXCEPT !.due = Tail(pool[m].due), !.job = 1] /\ pool' \in [Miners -> PoolEnds]
        /\ \A k \in Miners : k # m => pool'[k] = pool[k]
    BY ONLY <2>3, <2>5, PoolPut, TapTypes, m \in Miners
  <2>4. pool'[m].due = Tail(pool[m].due) /\ pool'[m].job = 1 /\ pool'[m].took = pool[m].took
    BY <1>1, <2>6 DEF PoolEnds
  <2> QED
    BY <1>0, <1>1, <1>2, <1>3, <2>1, <2>2, <2>4, <2>6 DEF n
<1>4. CASE n # 0
  <2>1. PICK kind \in Answers :
           /\ pool' = [pool EXCEPT ![m].due = Tail(@), ![m].took = IF kind = "ok" THEN @ \cup {n} ELSE @]
           /\ Tap!Puts(<<m, "pool">>, Tap!Msg(kind, 0, n))
    BY <1>2, <1>4 DEF Tap!Settle
  <2>2. Tap!Msg(kind, 0, n) \in FromPool
    BY <1>0, <1>2, <2>1 DEF Tap!Msg, FromPool
  <2>3. n \in Tap!Shares
    BY <1>0, <1>2, <1>4 DEF Tap!Shares
  <2> DEFINE took == IF kind = "ok" THEN pool[m].took \cup {n} ELSE pool[m].took
             p    == [pool[m] EXCEPT !.due = Tail(pool[m].due), !.took = took]
  <2>7. took \in SUBSET Tap!Shares
    BY <1>1, <2>3, PoolIs
  <2>8. pool' = [pool EXCEPT ![m] = p]
    BY <1>1, <2>1
  <2> HIDE DEF took
  <2>9. p \in PoolEnds
    <3> DEFINE d == Tail(pool[m].due)
    <3>1. pool[m] \in PoolEnds /\ d \in Seq(0 .. MaxSubmits)
      BY <1>1, <1>2
    <3> HIDE DEF d
    <3>2. [pool[m] EXCEPT !.due = d, !.took = took] \in PoolEnds
      BY ONLY <3>1, <2>7 DEF PoolEnds
    <3> QED
      BY <3>2 DEF d
  <2>10. p.due = Tail(pool[m].due) /\ p.job = pool[m].job /\ p.took = took
    BY <1>1 DEF PoolEnds
  <2> HIDE DEF p
  <2>5. pool' \in [Miners -> PoolEnds] /\ pool'[m] = p /\ \A k \in Miners : k # m => pool'[k] = pool[k]
    BY ONLY <2>8, <2>9, PoolPut, TapTypes, m \in Miners
  <2>4. /\ pool'[m].due = Tail(pool[m].due) /\ pool'[m].job = pool[m].job
        /\ pool'[m].took = IF kind = "ok" THEN pool[m].took \cup {n} ELSE pool[m].took
        /\ \A k \in Miners : k # m => pool'[k] = pool[k]
    BY <2>5, <2>10 DEF took
  <2>6. kind \in {"ok", "refused", "error"} /\ 0 \in 0 .. LastJob
    BY <1>0, <2>1
  <2> QED
    BY <1>1, <1>2, <1>4, <2>1, <2>2, <2>4, <2>5, <2>6, ZenonT(60) DEF n
<1> QED
  BY <1>3, <1>4

(* What is on its way, after one was added and after one was taken.        *)
LEMMA OnLast ==
    ASSUME NEW T, NEW q \in Seq(T), NEW msg, NEW kinds
    PROVE  /\ On(Append(q, msg), kinds) = IF msg.kind \in kinds THEN On(q, kinds) \cup {Len(q) + 1} ELSE On(q, kinds)
           /\ \A i \in On(q, kinds) : Append(q, msg)[i] = q[i] /\ i < Len(q) + 1
           /\ Append(q, msg)[Len(q) + 1] = msg
<1>1. On(Append(q, msg), kinds) = IF msg.kind \in kinds THEN On(q, kinds) \cup {Len(q) + 1} ELSE On(q, kinds)
  BY PutLast DEF On
<1>2. \A i \in On(q, kinds) : Append(q, msg)[i] = q[i] /\ i < Len(q) + 1
  BY PutLast DEF On
<1>3. Append(q, msg)[Len(q) + 1] = msg
  BY PutLast DEF On
<1> QED
  BY <1>1, <1>2, <1>3

LEMMA OnPast ==
    ASSUME NEW T, NEW q \in Seq(T), NEW msg, NEW kinds, msg.kind \notin kinds
    PROVE  On(Append(q, msg), kinds) = On(q, kinds) /\ \A i \in On(q, kinds) : Append(q, msg)[i] = q[i]
<1>1. On(Append(q, msg), kinds) = On(q, kinds)
  BY PutLast DEF On
<1>2. \A i \in On(q, kinds) : Append(q, msg)[i] = q[i]
  BY PutLast DEF On
<1> QED
  BY <1>1, <1>2

LEMMA Kinds ==
    /\ \A k \in {"login", "hello"} : k \in Asks /\ k \notin Given
    /\ "submit" \in Asks /\ "submit" \in Given /\ "submit" \notin Logins
    /\ "login" \in Logins
    /\ "job" \in News /\ "job" \notin Replies /\ "job" \notin Welcomes
    /\ "welcome" \in News /\ "welcome" \in Replies /\ "welcome" \in Welcomes
    /\ \A k \in {"ok", "refused", "error"} : k \in Replies /\ k \notin News /\ k \notin Welcomes
    /\ \A k \in {"eof", "reset", "odd"} : /\ k \notin Asks /\ k \notin Given /\ k \notin Logins
                                          /\ k \notin Replies /\ k \notin News /\ k \notin Welcomes
BY DEF Asks, Given, Logins, News, Replies, Welcomes

LEMMA PartOf ==
    \A q : On(q, Given) \subseteq On(q, Asks) /\ On(q, Logins) \subseteq On(q, Asks) /\ On(q, Welcomes) \subseteq On(q, News)
BY DEF On, Asks, Given, Logins, News, Welcomes

LEMMA OnTail ==
    ASSUME NEW T, NEW q \in Seq(T), q # <<>>, NEW kinds
    PROVE  /\ q[1].kind \in kinds => 1 \in On(q, kinds)
           /\ \A i \in On(Tail(q), kinds) : i \in Nat /\ i + 1 \in On(q, kinds) /\ i + 1 > 1 /\ Tail(q)[i] = q[i + 1]
           /\ \A i, j \in On(q, kinds) : i \in Nat /\ (i < j => i # j)
<1>1. /\ 1 \in DOMAIN q /\ \A i \in DOMAIN q : i \in Nat
      /\ \A i \in DOMAIN Tail(q) : i \in Nat /\ i + 1 \in DOMAIN q /\ i + 1 > 1 /\ Tail(q)[i] = q[i + 1]
  <2>1. Tail(q) \in Seq(T)
    BY FrontOff
  <2> QED
    BY <2>1, FrontOff, LenProperties
<1> QED
  BY ONLY <1>1 DEF On

LEMMA NoneLeft ==
    ASSUME NEW T, NEW q \in Seq(T), q # <<>>, NEW kinds,
           (q[1].kind \in kinds /\ \A i, j \in On(q, kinds) : i = j) \/ On(q, kinds) = {}
    PROVE  On(Tail(q), kinds) = {}
<1> SUFFICES ASSUME NEW i \in On(Tail(q), kinds) PROVE FALSE
  OBVIOUS
<1> DEFINE k == i + 1
<1>1. k \in On(q, kinds) /\ k > 1 /\ (q[1].kind \in kinds => 1 \in On(q, kinds))
  BY OnTail
<1> HIDE DEF k
<1>2. k = 1
  BY ONLY <1>1, (q[1].kind \in kinds /\ \A x, y \in On(q, kinds) : x = y) \/ On(q, kinds) = {}
<1> QED
  BY ONLY <1>1, <1>2

(* What is left of a queue, kind by kind and in its order.                 *)
Left(q, q2) ==
    \A kinds :
      /\ \A i \in On(q2, kinds) : \E k \in On(q, kinds) : q2[i] = q[k]
      /\ \A i, j \in On(q2, kinds) : i < j => \E k, l \in On(q, kinds) : k < l /\ q2[i] = q[k] /\ q2[j] = q[l]
      /\ (\A i, j \in On(q, kinds) : i = j) => \A i, j \in On(q2, kinds) : i = j

LEMMA TailLeft ==
    ASSUME NEW T, NEW q \in Seq(T), q # <<>>
    PROVE  Left(q, Tail(q))
<1> SUFFICES ASSUME NEW kinds
             PROVE  /\ \A i \in On(Tail(q), kinds) : \E k \in On(q, kinds) : Tail(q)[i] = q[k]
                    /\ \A i, j \in On(Tail(q), kinds) : i < j =>
                         \E k, l \in On(q, kinds) : k < l /\ Tail(q)[i] = q[k] /\ Tail(q)[j] = q[l]
                    /\ (\A i, j \in On(q, kinds) : i = j) => \A i, j \in On(Tail(q), kinds) : i = j
  BY DEF Left
<1> DEFINE Aft(i) == i + 1
<1>1. \A i \in On(Tail(q), kinds) : i \in Nat /\ Aft(i) \in On(q, kinds) /\ Tail(q)[i] = q[Aft(i)]
  BY OnTail
<1>2. \A i, j \in Nat : (i < j <=> Aft(i) < Aft(j)) /\ (Aft(i) = Aft(j) => i = j)
  OBVIOUS
<1> HIDE DEF Aft
<1> QED
  BY ONLY <1>1, <1>2

LEMMA OrderLeft ==
    ASSUME NEW q, NEW q2, Left(q, q2), \A i, j \in On(q, News) : i < j => q[i].job < q[j].job
    PROVE  \A i, j \in On(q2, News) : i < j => q2[i].job < q2[j].job
BY DEF Left

LEMMA NumbersOf ==
    ASSUME Tap!TapAssumption, NEW e \in PeerEnds, NEW p \in PoolEnds, NEW u \in Entries
    PROVE  /\ e.sent \in Nat /\ e.job \in Nat /\ p.job \in Nat /\ u.job \in Nat
           /\ \A n \in Tap!Shares : n \in Nat /\ n > 0 /\ u.submitted[n] \in Nat
<1>0. MaxSubmits \in Nat /\ LastJob \in Nat
  BY TapAllowed
<1>1. e.sent \in 0 .. MaxSubmits /\ e.job \in 0 .. LastJob /\ p.job \in 0 .. LastJob /\ u.job \in 0 .. LastJob
  BY PeerIs, PoolIs, EntryFields
<1>2. \A n \in Tap!Shares : n \in Nat /\ n > 0
  BY <1>0 DEF Tap!Shares
<1>3. \A n \in Tap!Shares : u.submitted[n] \in 0 .. LastJob
  <2>1. u.submitted \in [Tap!Shares -> 0 .. LastJob]
    BY EntryFields
  <2> QED
    BY <2>1
<1> QED
  BY <1>0, <1>1, <1>2, <1>3

LEMMA JobsAre ==
    ASSUME Tap!TapAssumption, NEW t \in Seq(FromPool), NEW i \in On(t, News)
    PROVE  t[i].job \in Nat
<1>1. t[i] \in FromPool
  BY DEF On
<1>2. t[i].job \in 0 .. LastJob
  BY <1>1 DEF FromPool
<1> QED
  BY <1>2, TapAllowed

LEMMA KnownConnect ==
    ASSUME NEW e, NEW e2, NEW p, NEW p2, NEW q, NEW t,
           e2.sent = e.sent, e2.job = e.job, e2.waits <=> e.waits,
           p2.due = p.due, p2.job = p.job, New(e, p, q, t)
    PROVE  New(e2, p2, q, t)
BY DEF New

(* The ends.                                                               *)
LEMMA EndsTyped ==
    ASSUME Tap!TapAssumption, TapTypes, Tap!Ends
    PROVE  TapTypes'
<1>0. MaxSubmits \in Nat /\ LastJob \in Nat /\ LastJob > 0 /\ Answers \subseteq {"ok", "refused", "error"}
  BY TapAllowed
<1>1. ASSUME NEW m \in Miners, Tap!Connect(m) PROVE TapTypes'
  <2>1. link' = [link EXCEPT ![m] = "asks"] /\ UNCHANGED <<inputs, ready, entry, inbox, pool, peer, credit, death>>
    BY <1>1 DEF Tap!Connect
  <2> QED
    BY <2>1 DEF TapTypes, ToProxy, ToMiner
<1>2. ASSUME NEW m \in Miners, Tap!Login(m) PROVE TapTypes'
  <2>1. PICK kind \in {"login", "hello"} : Tap!Puts(<<m, "miner">>, Tap!Plain(kind))
    BY <1>2 DEF Tap!Login
  <2>2. Tap!Plain(kind) \in FromMiner
    BY <1>0, <2>1 DEF Tap!Plain, Tap!Msg, FromMiner
  <2>3. peer' = [peer EXCEPT ![m].waits = TRUE] /\ UNCHANGED <<link, inputs, ready, entry, pool, credit, death>>
    BY <1>2 DEF Tap!Login
  <2>4. peer' \in [Miners -> PeerEnds]
    <3>1. peer[m] \in PeerEnds
      BY TapParts
    <3>2. [peer[m] EXCEPT !.waits = TRUE] \in PeerEnds
      BY ONLY <3>1 DEF PeerEnds
    <3>3. peer' = [peer EXCEPT ![m] = [peer[m] EXCEPT !.waits = TRUE]]
      BY <2>3
    <3> QED
      BY ONLY <3>2, <3>3, PeerPut, TapTypes, m \in Miners
  <2>5. inbox' = [s \in Tap!Sockets |-> inbox'[s]]
        /\ \A k \in Miners : ToProxy(k)' \in Seq(FromMiner) /\ ToMiner(k)' \in Seq(FromPool)
    BY <2>1, <2>2, PutToProxy DEF TapTypes
  <2> QED
    BY <2>3, <2>4, <2>5 DEF TapTypes
<1>3. ASSUME NEW m \in Miners, Tap!Submit(m) PROVE TapTypes'
  <2>1. Tap!Puts(<<m, "miner">>, Tap!Msg("submit", peer[m].job, peer[m].sent + 1)) /\ peer[m].sent < MaxSubmits
    BY <1>3 DEF Tap!Submit
  <2>2. Tap!Msg("submit", peer[m].job, peer[m].sent + 1) \in FromMiner
    <3>1. peer[m] \in PeerEnds /\ peer[m].sent + 1 \in 0 .. MaxSubmits /\ peer[m].job \in 0 .. LastJob
      BY <1>0, <2>1, TapParts, PeerIs
    <3> QED
      BY <3>1 DEF Tap!Msg, FromMiner
  <2>3. /\ peer' = [peer EXCEPT ![m].sent = @ + 1, ![m].waits = TRUE]
        /\ UNCHANGED <<link, inputs, ready, entry, pool, credit, death>>
    BY <1>3 DEF Tap!Submit
  <2>4. peer' \in [Miners -> PeerEnds]
    <3>1. peer[m] \in PeerEnds /\ peer[m].sent + 1 \in 0 .. MaxSubmits
      BY <1>0, <2>1, TapParts, PeerIs
    <3>2. [peer[m] EXCEPT !.sent = peer[m].sent + 1, !.waits = TRUE] \in PeerEnds
      BY ONLY <3>1 DEF PeerEnds
    <3>3. peer' = [peer EXCEPT ![m] = [peer[m] EXCEPT !.sent = peer[m].sent + 1, !.waits = TRUE]]
      BY <2>3
    <3> QED
      BY ONLY <3>2, <3>3, PeerPut, TapTypes, m \in Miners
  <2>5. inbox' = [s \in Tap!Sockets |-> inbox'[s]]
        /\ \A k \in Miners : ToProxy(k)' \in Seq(FromMiner) /\ ToMiner(k)' \in Seq(FromPool)
    BY <2>1, <2>2, PutToProxy DEF TapTypes
  <2> QED
    BY <2>3, <2>4, <2>5 DEF TapTypes
<1>4. ASSUME NEW m \in Miners, Tap!NewJob(m) PROVE TapTypes'
  <2>1. Tap!Puts(<<m, "pool">>, Tap!Msg("job", pool[m].job + 1, 0)) /\ pool[m].job \in 1 .. (LastJob - 1)
    BY <1>4 DEF Tap!NewJob
  <2>2. Tap!Msg("job", pool[m].job + 1, 0) \in FromPool
    BY <1>0, <2>1 DEF Tap!Msg, FromPool
  <2>3. pool' = [pool EXCEPT ![m].job = @ + 1] /\ UNCHANGED <<link, inputs, ready, entry, peer, credit, death>>
    BY <1>4 DEF Tap!NewJob
  <2>4. pool' \in [Miners -> PoolEnds]
    <3>1. pool[m] \in PoolEnds /\ pool[m].job + 1 \in 0 .. LastJob
      BY <1>0, <2>1, TapParts
    <3>2. [pool[m] EXCEPT !.job = pool[m].job + 1] \in PoolEnds
      BY ONLY <3>1 DEF PoolEnds
    <3>3. pool' = [pool EXCEPT ![m] = [pool[m] EXCEPT !.job = pool[m].job + 1]]
      BY <2>3
    <3> QED
      BY ONLY <3>2, <3>3, PoolPut, TapTypes, m \in Miners
  <2>5. inbox' = [s \in Tap!Sockets |-> inbox'[s]]
        /\ \A k \in Miners : ToProxy(k)' \in Seq(FromMiner) /\ ToMiner(k)' \in Seq(FromPool)
    BY <2>1, <2>2, PutToMiner DEF TapTypes
  <2> QED
    BY <2>3, <2>4, <2>5 DEF TapTypes
<1>5. ASSUME NEW m \in Miners, Tap!Settle(m) PROVE TapTypes'
  <2>1. PICK msg : Tap!Puts(<<m, "pool">>, msg) /\ msg \in FromPool
    BY <1>0, <1>5, SettledAs DEF Tap!Settle
  <2>4. pool' \in [Miners -> PoolEnds]
    BY <1>0, <1>5, SettledAs
  <2>3. UNCHANGED <<link, inputs, ready, entry, peer, credit, death>>
    BY <1>5 DEF Tap!Settle
  <2>5. inbox' = [s \in Tap!Sockets |-> inbox'[s]]
        /\ \A k \in Miners : ToProxy(k)' \in Seq(FromMiner) /\ ToMiner(k)' \in Seq(FromPool)
    BY <2>1, PutToMiner DEF TapTypes
  <2> QED
    BY <2>3, <2>4, <2>5 DEF TapTypes
<1>6. ASSUME NEW m \in Miners, NEW side \in Tap!Sides, Tap!Leave(<<m, side>>) \/ Tap!Babble(<<m, side>>)
      PROVE  TapTypes'
  <2>1. PICK kind \in {"eof", "reset", "odd"} : Tap!Puts(<<m, side>>, Tap!Plain(kind))
    BY <1>6 DEF Tap!Leave, Tap!Babble
  <2>2. Tap!Plain(kind) \in FromMiner /\ Tap!Plain(kind) \in FromPool
    BY <1>0, <2>1 DEF Tap!Plain, Tap!Msg, FromMiner, FromPool
  <2>3. /\ \/ peer' = [peer EXCEPT ![m].gone = @ \cup {side}]
           \/ peer' = [peer EXCEPT ![m].odd = @ \cup {side}]
        /\ UNCHANGED <<link, inputs, ready, entry, pool, credit, death>>
    BY <1>6 DEF Tap!Leave, Tap!Babble
  <2>4. peer' \in [Miners -> PeerEnds]
    <3>1. /\ [peer[m] EXCEPT !.gone = peer[m].gone \cup {side}] \in PeerEnds
          /\ [peer[m] EXCEPT !.odd = peer[m].odd \cup {side}] \in PeerEnds
      BY TapParts DEF PeerEnds
    <3>2. \/ peer' = [peer EXCEPT ![m] = [peer[m] EXCEPT !.gone = peer[m].gone \cup {side}]]
          \/ peer' = [peer EXCEPT ![m] = [peer[m] EXCEPT !.odd = peer[m].odd \cup {side}]]
      BY <2>3
    <3> QED
      BY ONLY <3>1, <3>2, PeerPut, TapTypes, m \in Miners
  <2>5. inbox' = [s \in Tap!Sockets |-> inbox'[s]]
        /\ \A k \in Miners : ToProxy(k)' \in Seq(FromMiner) /\ ToMiner(k)' \in Seq(FromPool)
    <3>1. CASE side = "miner"
      BY <2>1, <2>2, <3>1, PutToProxy DEF TapTypes
    <3>2. CASE side = "pool"
      BY <2>1, <2>2, <3>2, PutToMiner DEF TapTypes
    <3> QED
      BY <3>1, <3>2 DEF Tap!Sides
  <2> QED
    BY <2>3, <2>4, <2>5 DEF TapTypes
<1> QED
  BY <1>1, <1>2, <1>3, <1>4, <1>5, <1>6 DEF Tap!Ends, Tap!Sockets

(* The ends change no list, and bring what accidents they may.             *)
LEMMA EndsListed ==
    ASSUME TapTypes, ListedOnce, RoundOf, Tap!Ends
    PROVE  ListedOnce' /\ RoundOf'
<1>1. inputs' = inputs /\ ready' = ready
  BY DEF Tap!Ends, Tap!Connect, Tap!Login, Tap!Submit, Tap!NewJob, Tap!Settle, Tap!Leave, Tap!Babble
<1>2. \A k \in Miners : link'[k] = "open" <=> link[k] = "open"
  <2>1. CASE link' = link
    BY <2>1
  <2>2. CASE \E m \in Miners : Tap!Connect(m)
    BY <2>2 DEF Tap!Connect, TapTypes
  <2> QED
    BY <2>1, <2>2 DEF Tap!Ends, Tap!Login, Tap!Submit, Tap!NewJob, Tap!Settle, Tap!Leave, Tap!Babble
<1> QED
  BY <1>1, <1>2 DEF ListedOnce, RoundOf

(* What the step of an end does.                                           *)
KeepsPeer(m) == peer'[m].sent = peer[m].sent /\ peer'[m].job = peer[m].job /\ (peer'[m].waits <=> peer[m].waits)
KeepsPool(m) == pool'[m].due = pool[m].due /\ pool'[m].job = pool[m].job /\ pool'[m].took = pool[m].took
Sends(m, msg) == ToProxy(m)' = Append(ToProxy(m), msg) /\ ToMiner(m)' = ToMiner(m)
Gets(m, msg)  == ToMiner(m)' = Append(ToMiner(m), msg) /\ ToProxy(m)' = ToProxy(m)

Connects(m) == /\ link[m] = "none" /\ link'[m] = "asks" /\ KeepsPeer(m) /\ KeepsPool(m)
               /\ ToProxy(m)' = ToProxy(m) /\ ToMiner(m)' = ToMiner(m)
LogsIn(m) ==
    /\ link[m] = "open" /\ link'[m] = "open" /\ KeepsPool(m)
    /\ ~peer[m].waits /\ peer[m].job = 0
    /\ peer'[m].sent = peer[m].sent /\ peer'[m].job = peer[m].job /\ peer'[m].waits
    /\ \E msg \in FromMiner :
        /\ Sends(m, msg) /\ msg.kind \in {"login", "hello"} /\ msg.n = 0 /\ Fair(msg)
Hands(m) ==
    /\ link[m] = "open" /\ link'[m] = "open" /\ KeepsPool(m)
    /\ Waits => ~peer[m].waits
    /\ peer[m].job > 0 /\ peer[m].sent < MaxSubmits
    /\ peer'[m].sent = peer[m].sent + 1 /\ peer'[m].job = peer[m].job /\ peer'[m].waits
    /\ \E msg \in FromMiner : Sends(m, msg) /\ msg.kind = "submit" /\ msg.job = peer[m].job /\ msg.n = peer[m].sent + 1
Announces(m) ==
    /\ link[m] = "open" /\ link'[m] = "open" /\ KeepsPeer(m)
    /\ pool[m].job > 0 /\ pool'[m].job = pool[m].job + 1
    /\ pool'[m].due = pool[m].due /\ pool'[m].took = pool[m].took
    /\ \E msg \in FromPool : Gets(m, msg) /\ msg.kind = "job" /\ msg.job = pool[m].job + 1
Settles(m) ==
    /\ link[m] = "open" /\ link'[m] = "open" /\ KeepsPeer(m)
    /\ pool[m].due # <<>> /\ pool'[m].due = Tail(pool[m].due)
    /\ \E msg \in FromPool :
        /\ Gets(m, msg)
        /\ \/ /\ pool[m].due[1] = 0 /\ msg.kind = "welcome" /\ msg.job = 1
              /\ pool'[m].job = 1 /\ pool'[m].took = pool[m].took
           \/ /\ pool[m].due[1] # 0 /\ msg.kind \in Answers /\ pool'[m].job = pool[m].job
              /\ pool'[m].took = IF msg.kind = "ok" THEN pool[m].took \cup {pool[m].due[1]} ELSE pool[m].took
(* A close, a reset or an oddity.                                          *)
Departs(m) ==
    /\ link[m] = "open" /\ link'[m] = "open" /\ KeepsPeer(m) /\ KeepsPool(m)
    /\ \/ \E msg \in FromMiner : Sends(m, msg) /\ msg.kind \in {"eof", "reset", "odd"} /\ Fair(msg)
       \/ \E msg \in FromPool : Gets(m, msg) /\ msg.kind \in {"eof", "reset", "odd"} /\ Fair(msg)

Others(m) == \A k \in Miners : k # m => /\ ToProxy(k)' = ToProxy(k) /\ ToMiner(k)' = ToMiner(k)
                                        /\ peer'[k] = peer[k] /\ pool'[k] = pool[k] /\ link'[k] = link[k]

EndStep(m) == /\ entry' = entry /\ credit' = credit /\ death' = death /\ inputs' = inputs /\ Others(m)
              /\ Connects(m) \/ LogsIn(m) \/ Hands(m) \/ Announces(m) \/ Settles(m) \/ Departs(m)

LEMMA EndsStep ==
    ASSUME Tap!TapAssumption, TapTypes, Tap!Ends
    PROVE  \E m \in Miners : EndStep(m)
<1>0. MaxSubmits \in Nat /\ LastJob \in Nat /\ LastJob > 0 /\ Answers \subseteq {"ok", "refused", "error"}
  BY TapAllowed
<1>a. DOMAIN peer = Miners /\ DOMAIN pool = Miners /\ DOMAIN link = Miners
  BY DEF TapTypes
<1>b. \A m \in Miners : peer[m] \in PeerEnds /\ pool[m] \in PoolEnds
  BY TapParts
<1>1. ASSUME NEW m \in Miners, Tap!Connect(m) PROVE EndStep(m)
  <2>1. UNCHANGED <<entry, credit, death, inputs, peer, pool, inbox>> /\ link[m] = "none" /\ link'[m] = "asks"
        /\ \A k \in Miners : k # m => link'[k] = link[k]
    BY <1>1, <1>a DEF Tap!Connect
  <2> QED
    BY <2>1 DEF EndStep, Others, Connects, KeepsPeer, KeepsPool, ToProxy, ToMiner
<1>2. ASSUME NEW m \in Miners, Tap!Login(m) PROVE EndStep(m)
  <2>1. PICK kind \in {"login"} \cup (IF Hellos THEN {"hello"} ELSE {}) : Tap!Puts(<<m, "miner">>, Tap!Plain(kind))
    BY <1>2 DEF Tap!Login
  <2>2. kind \in {"login", "hello"} /\ (kind = "hello" => Hellos)
    BY <2>1
  <2> DEFINE msg == Tap!Plain(kind)
  <2>3. msg \in FromMiner /\ msg.kind = kind /\ msg.n = 0 /\ Fair(msg)
    BY <1>0, <2>2 DEF Tap!Plain, Tap!Msg, FromMiner, Fair
  <2>4. /\ UNCHANGED <<entry, credit, death, inputs, pool, link>> /\ peer' = [peer EXCEPT ![m].waits = TRUE]
        /\ link[m] = "open" /\ ~peer[m].waits /\ peer[m].job = 0
    BY <1>2 DEF Tap!Login, Tap!Speaks
  <2>5. peer'[m].sent = peer[m].sent /\ peer'[m].job = peer[m].job /\ peer'[m].waits
    BY <1>a, <1>b, <2>4 DEF PeerEnds
  <2>6. \A k \in Miners : k # m => peer'[k] = peer[k]
    BY <1>a, <2>4
  <2> HIDE DEF msg
  <2>7. /\ \A k \in Miners : ToMiner(k)' = ToMiner(k) /\ (k # m => ToProxy(k)' = ToProxy(k))
        /\ ToProxy(m)' = Append(ToProxy(m), msg)
    BY <2>1, <2>3, PutToProxy DEF msg
  <2>8. LogsIn(m)
    BY <2>2, <2>3, <2>4, <2>5, <2>7 DEF LogsIn, KeepsPool, Sends
  <2> QED
    BY <2>4, <2>6, <2>7, <2>8 DEF EndStep, Others
<1>3. ASSUME NEW m \in Miners, Tap!Submit(m) PROVE EndStep(m)
  <2> DEFINE msg == Tap!Msg("submit", peer[m].job, peer[m].sent + 1)
  <2>1. /\ UNCHANGED <<entry, credit, death, inputs, pool, link>> /\ peer' = [peer EXCEPT ![m].sent = @ + 1, ![m].waits = TRUE]
        /\ link[m] = "open" /\ peer[m].job > 0 /\ peer[m].sent < MaxSubmits /\ (Waits => ~peer[m].waits)
        /\ Tap!Puts(<<m, "miner">>, msg)
    BY <1>3 DEF Tap!Submit, Tap!Speaks
  <2>2. peer[m].sent + 1 \in 0 .. MaxSubmits /\ peer[m].job \in 0 .. LastJob
    BY <1>0, <1>b, <2>1, PeerIs
  <2>3. msg \in FromMiner /\ msg.kind = "submit" /\ msg.job = peer[m].job /\ msg.n = peer[m].sent + 1
    BY <2>2 DEF Tap!Msg, FromMiner
  <2>5. peer'[m].sent = peer[m].sent + 1 /\ peer'[m].job = peer[m].job /\ peer'[m].waits
    BY <1>a, <1>b, <2>1 DEF PeerEnds
  <2>6. \A k \in Miners : k # m => peer'[k] = peer[k]
    BY <1>a, <2>1
  <2> HIDE DEF msg
  <2>7. /\ \A k \in Miners : ToMiner(k)' = ToMiner(k) /\ (k # m => ToProxy(k)' = ToProxy(k))
        /\ ToProxy(m)' = Append(ToProxy(m), msg)
    BY <2>1, <2>3, PutToProxy
  <2>8. Hands(m)
    BY <2>1, <2>3, <2>5, <2>7 DEF Hands, KeepsPool, Sends
  <2> QED
    BY <2>1, <2>6, <2>7, <2>8 DEF EndStep, Others
<1>4. ASSUME NEW m \in Miners, Tap!NewJob(m) PROVE EndStep(m)
  <2> DEFINE msg == Tap!Msg("job", pool[m].job + 1, 0)
  <2>1. /\ UNCHANGED <<entry, credit, death, inputs, peer, link>> /\ pool' = [pool EXCEPT ![m].job = @ + 1]
        /\ link[m] = "open" /\ pool[m].job \in 1 .. (LastJob - 1) /\ Tap!Puts(<<m, "pool">>, msg)
    BY <1>4 DEF Tap!NewJob, Tap!Speaks
  <2>3. msg \in FromPool /\ msg.kind = "job" /\ msg.job = pool[m].job + 1
    BY <1>0, <2>1 DEF Tap!Msg, FromPool
  <2>5. pool'[m].job = pool[m].job + 1 /\ pool'[m].due = pool[m].due /\ pool'[m].took = pool[m].took
    BY <1>a, <1>b, <2>1 DEF PoolEnds
  <2>6. (\A k \in Miners : k # m => pool'[k] = pool[k]) /\ pool[m].job > 0
    BY <1>a, <2>1
  <2> HIDE DEF msg
  <2>7. /\ \A k \in Miners : ToProxy(k)' = ToProxy(k) /\ (k # m => ToMiner(k)' = ToMiner(k))
        /\ ToMiner(m)' = Append(ToMiner(m), msg)
    BY <2>1, <2>3, PutToMiner
  <2>8. Announces(m)
    BY <2>1, <2>3, <2>5, <2>6, <2>7 DEF Announces, KeepsPeer, Gets
  <2> QED
    BY <2>1, <2>6, <2>7, <2>8 DEF EndStep, Others
<1>5. ASSUME NEW m \in Miners, Tap!Settle(m) PROVE EndStep(m)
  <2>1. UNCHANGED <<entry, credit, death, inputs, peer, link>> /\ link[m] = "open"
    BY <1>5 DEF Tap!Settle, Tap!Speaks
  <2>2. /\ pool[m].due # <<>> /\ pool'[m].due = Tail(pool[m].due)
        /\ \A k \in Miners : k # m => pool'[k] = pool[k]
    BY <1>5, SettledAs
  <2> DEFINE Answered(msg) ==
           \/ /\ pool[m].due[1] = 0 /\ msg.kind = "welcome" /\ msg.job = 1
              /\ pool'[m].job = 1 /\ pool'[m].took = pool[m].took
           \/ /\ pool[m].due[1] # 0 /\ msg.kind \in Answers /\ pool'[m].job = pool[m].job
              /\ pool'[m].took = IF msg.kind = "ok" THEN pool[m].took \cup {pool[m].due[1]} ELSE pool[m].took
  <2>3. PICK msg \in FromPool : Tap!Puts(<<m, "pool">>, msg) /\ Answered(msg)
    <3>1. PICK kind \in {"welcome", "ok", "refused", "error"}, job \in 0 .. LastJob :
                /\ Tap!Puts(<<m, "pool">>, Tap!Msg(kind, job, pool[m].due[1]))
                /\ Tap!Msg(kind, job, pool[m].due[1]) \in FromPool
                /\ (kind = "welcome" <=> pool[m].due[1] = 0) /\ (kind # "welcome" => kind \in Answers)
                /\ kind = "welcome" => job = 1 /\ pool'[m].job = 1 /\ pool'[m].took = pool[m].took
                /\ kind # "welcome" =>
                     /\ pool'[m].job = pool[m].job
                     /\ pool'[m].took = IF kind = "ok" THEN pool[m].took \cup {pool[m].due[1]} ELSE pool[m].took
      BY <1>5, SettledAs
    <3> DEFINE msg == Tap!Msg(kind, job, pool[m].due[1])
    <3>2. msg.kind = kind /\ msg.job = job
      BY DEF Tap!Msg
    <3>3. Answered(msg)
      BY <3>1, <3>2
    <3> QED
      BY <3>1, <3>3
  <2>7. /\ \A k \in Miners : ToProxy(k)' = ToProxy(k) /\ (k # m => ToMiner(k)' = ToMiner(k))
        /\ ToMiner(m)' = Append(ToMiner(m), msg)
    BY <2>3, PutToMiner
  <2>8. Settles(m)
    BY <2>1, <2>2, <2>3, <2>7 DEF Settles, KeepsPeer, Gets, Answered
  <2> QED
    BY <2>1, <2>2, <2>7, <2>8 DEF EndStep, Others
<1>6. ASSUME NEW m \in Miners, NEW side \in Tap!Sides, Tap!Leave(<<m, side>>) \/ Tap!Babble(<<m, side>>)
      PROVE  EndStep(m)
  <2>1. PICK kind \in {"eof", "reset", "odd"} :
           Tap!Puts(<<m, side>>, Tap!Plain(kind)) /\ (kind = "reset" => Resets) /\ (kind = "odd" => Oddities)
    BY <1>6 DEF Tap!Leave, Tap!Babble
  <2> DEFINE msg == Tap!Plain(kind)
  <2>3. msg \in FromMiner /\ msg \in FromPool /\ msg.kind \in {"eof", "reset", "odd"} /\ Fair(msg)
    BY <1>0, <2>1 DEF Tap!Plain, Tap!Msg, FromMiner, FromPool, Fair
  <2>4. /\ UNCHANGED <<entry, credit, death, inputs, pool, link>> /\ link[m] = "open"
        /\ \/ peer' = [peer EXCEPT ![m].gone = @ \cup {side}]
           \/ peer' = [peer EXCEPT ![m].odd = @ \cup {side}]
    BY <1>6 DEF Tap!Leave, Tap!Babble, Tap!Speaks
  <2>5. peer'[m].sent = peer[m].sent /\ peer'[m].job = peer[m].job /\ (peer'[m].waits <=> peer[m].waits)
    BY <1>a, <1>b, <2>4 DEF PeerEnds
  <2>6. \A k \in Miners : k # m => peer'[k] = peer[k]
    BY <1>a, <2>4
  <2> HIDE DEF msg
  <2>7. /\ \A k \in Miners : k # m => ToProxy(k)' = ToProxy(k) /\ ToMiner(k)' = ToMiner(k)
        /\ Sends(m, msg) \/ Gets(m, msg)
    <3>1. CASE side = "miner"
      BY <2>1, <2>3, <3>1, PutToProxy DEF Sends, msg
    <3>2. CASE side = "pool"
      BY <2>1, <2>3, <3>2, PutToMiner DEF Gets, msg
    <3> QED
      BY <3>1, <3>2 DEF Tap!Sides
  <2>8. Departs(m)
    BY <2>3, <2>4, <2>5, <2>7 DEF Departs, KeepsPeer, KeepsPool
  <2> QED
    BY <2>4, <2>6, <2>7, <2>8 DEF EndStep, Others
<1>13. \/ \E m \in Miners : \/ Tap!Connect(m) \/ Tap!Login(m) \/ Tap!Submit(m) \/ Tap!NewJob(m) \/ Tap!Settle(m)
       \/ \E m \in Miners, side \in Tap!Sides : Tap!Leave(<<m, side>>) \/ Tap!Babble(<<m, side>>)
  BY DEF Tap!Ends, Tap!Sockets
<1> QED
  BY <1>1, <1>2, <1>3, <1>4, <1>5, <1>6, <1>13

(* What is sent, and taken, leaves what is on its way fair.                *)
Follows(q, q2) == q2 = q \/ (q # <<>> /\ q2 = Tail(q)) \/ \E msg : q2 = Append(q, msg) /\ Fair(msg)

LEMMA FairRest ==
    ASSUME NEW T, NEW q \in Seq(T), NEW q2, Follows(q, q2), \A i \in DOMAIN q : Fair(q[i])
    PROVE  \A i \in DOMAIN q2 : Fair(q2[i])
<1>1. CASE q2 = q
  BY <1>1
<1>2. CASE q # <<>> /\ q2 = Tail(q)
  BY <1>2, FrontOff
<1>3. ASSUME NEW msg, q2 = Append(q, msg), Fair(msg) PROVE \A i \in DOMAIN q2 : Fair(q2[i])
  BY <1>3, PutLast
<1> QED
  BY <1>1, <1>2, <1>3 DEF Follows

LEMMA FairStays ==
    ASSUME TapTypes, Accidents, NEW m \in Miners, Follows(ToProxy(m), ToProxy(m)'), Follows(ToMiner(m), ToMiner(m)'),
           \A k \in Miners : k # m => ToProxy(k)' = ToProxy(k) /\ ToMiner(k)' = ToMiner(k),
           \A k \in Miners : entry'[k].odd => entry[k].odd \/ Oddities, Tap!DiesOnly'
    PROVE  Accidents'
<1>1. \A k \in Miners : Follows(ToProxy(k), ToProxy(k)') /\ Follows(ToMiner(k), ToMiner(k)')
  BY DEF Follows
<1>2. ASSUME NEW k \in Miners
      PROVE  /\ \A i \in DOMAIN ToProxy(k)' : Fair(ToProxy(k)'[i])
             /\ \A i \in DOMAIN ToMiner(k)' : Fair(ToMiner(k)'[i])
  <2>1. /\ ToProxy(k) \in Seq(FromMiner) /\ \A i \in DOMAIN ToProxy(k) : Fair(ToProxy(k)[i])
        /\ ToMiner(k) \in Seq(FromPool) /\ \A i \in DOMAIN ToMiner(k) : Fair(ToMiner(k)[i])
    BY TapParts DEF Accidents
  <2> QED
    BY ONLY <1>1, <2>1, FairRest, k \in Miners
<1>3. \A k \in Miners : entry'[k].odd => Oddities
  BY DEF Accidents
<1> QED
  BY <1>2, <1>3 DEF Accidents

LEMMA EndsAccidents ==
    ASSUME Tap!TapAssumption, TapTypes, Accidents, NEW m \in Miners, EndStep(m)
    PROVE  Accidents'
<1>1. Answers \subseteq {"ok", "refused", "error"}
  BY TapAllowed
<1>2. \/ ToProxy(m)' = ToProxy(m) /\ ToMiner(m)' = ToMiner(m)
      \/ \E msg : (Sends(m, msg) \/ Gets(m, msg)) /\ Fair(msg)
  <2>1. CASE LogsIn(m) \/ Departs(m)
    BY <2>1 DEF LogsIn, Departs
  <2>2. CASE Hands(m)
    BY <2>2 DEF Hands, Fair
  <2>3. CASE Announces(m)
    BY <2>3 DEF Announces, Fair
  <2>4. CASE Settles(m)
    <3>1. PICK msg : Gets(m, msg) /\ (msg.kind = "welcome" \/ msg.kind \in Answers)
      BY <2>4 DEF Settles
    <3> QED
      BY <1>1, <3>1 DEF Fair
  <2> QED
    BY <2>1, <2>2, <2>3, <2>4 DEF EndStep, Connects
<1>5. Follows(ToProxy(m), ToProxy(m)') /\ Follows(ToMiner(m), ToMiner(m)')
  BY <1>2 DEF Sends, Gets, Follows
<1>6. /\ entry' = entry /\ death' = death /\ inputs' = inputs
      /\ \A k \in Miners : k # m => ToProxy(k)' = ToProxy(k) /\ ToMiner(k)' = ToMiner(k)
  BY DEF EndStep, Others
<1>7. Tap!DiesOnly'
  BY <1>6 DEF Accidents, Tap!DiesOnly, Tap!Full
<1> QED
  BY ONLY <1>5, <1>6, <1>7, TapTypes, Accidents, m \in Miners, FairStays

(* A miner whose login was not read stays without a job.                   *)
LEMMA NamedEnds ==
    ASSUME TapTypes, NamedInv, NEW m \in Miners, EndStep(m)
    PROVE  NamedInv'
<1> SUFFICES ASSUME ~Pieces, NEW k \in Miners
             PROVE  NamedOf(link'[k], peer'[k], pool'[k], entry'[k], ToProxy(k)', ToMiner(k)')
  BY DEF NamedInv
<1>1. NamedOf(link[k], peer[k], pool[k], entry[k], ToProxy(k), ToMiner(k)) /\ entry'[k] = entry[k]
  BY DEF NamedInv, EndStep
<1>2. CASE k # m
  BY <1>1, <1>2 DEF EndStep, Others
<1>3. CASE k = m /\ Connects(m)
  <2>1. New(peer'[m], pool'[m], ToProxy(m)', ToMiner(m)')
    BY <1>1, <1>3 DEF NamedOf, Connects, KeepsPeer, KeepsPool, New
  <2> QED
    BY <1>3, <2>1 DEF NamedOf, Connects
<1>4. CASE k = m /\ ~Connects(m)
  <2>1. link[m] = "open" /\ link'[m] = "open"
    BY <1>4 DEF EndStep, LogsIn, Hands, Announces, Settles, Departs
  <2>2. ASSUME ~entry[m].login PROVE Mute(peer'[m], pool'[m], entry[m], ToProxy(m)', ToMiner(m)')
    <3>1. Mute(peer[m], pool[m], entry[m], ToProxy(m), ToMiner(m))
      BY <1>1, <1>4, <2>1, <2>2 DEF NamedOf
    <3>2. LogsIn(m) \/ Departs(m)
      <4>1. ~(peer[m].job > 0) /\ ~(pool[m].job > 0) /\ pool[m].due = <<>>
        BY <3>1 DEF Mute
      <4> QED
        BY <1>4, <4>1 DEF EndStep, Hands, Announces, Settles
    <3>3. ToProxy(m) \in Seq(FromMiner) /\ ToMiner(m) \in Seq(FromPool)
      BY TapParts
    <3>4. PICK msg : (Sends(m, msg) \/ Gets(m, msg)) /\ msg.kind \notin Given /\ msg.kind \notin News
      <4>1. CASE LogsIn(m)
        <5>1. PICK msg : Sends(m, msg) /\ msg.kind \in {"login", "hello"}
          BY <4>1 DEF LogsIn
        <5> QED
          BY <5>1 DEF Given, News
      <4>2. CASE Departs(m)
        <5>1. PICK msg : (Sends(m, msg) \/ Gets(m, msg)) /\ msg.kind \in {"eof", "reset", "odd"}
          BY <4>2 DEF Departs
        <5> QED
          BY <5>1, Kinds
      <4> QED
        BY <3>2, <4>1, <4>2
    <3>5. On(ToProxy(m)', Given) = On(ToProxy(m), Given) /\ On(ToMiner(m)', News) = On(ToMiner(m), News)
      <4>1. CASE Sends(m, msg)
        BY <3>3, <3>4, <4>1, OnPast DEF Sends
      <4>2. CASE Gets(m, msg)
        BY <3>3, <3>4, <4>2, OnPast DEF Gets
      <4> QED
        BY <3>4, <4>1, <4>2
    <3>6. peer'[m].job = peer[m].job /\ pool'[m].job = pool[m].job /\ pool'[m].due = pool[m].due
      BY <3>2 DEF LogsIn, Departs, KeepsPeer, KeepsPool
    <3> QED
      BY ONLY <3>1, <3>5, <3>6 DEF Mute
  <2> QED
    BY <1>1, <1>4, <2>1, <2>2 DEF NamedOf
<1> QED
  BY <1>2, <1>3, <1>4

(* An end submits a share that is at no other place.                       *)
LEMMA EndsOnce ==
    ASSUME Tap!TapAssumption, TapTypes, TapTypes', SharesOnce, NEW m \in Miners, EndStep(m)
    PROVE  SharesOnce'
<1>1. ToProxy(m) \in Seq(FromMiner) /\ peer[m].sent \in Nat /\ peer[m].sent \in 0 .. MaxSubmits /\ MaxSubmits \in Nat
  BY TapParts, PeerIs, TapAllowed
<1>2. \A k \in Miners : k # m => Submits(k)' = Submits(k)
  BY DEF Submits, EndStep, Others
<1>3. entry' = entry /\ credit' = credit /\ Others(m)
  BY DEF EndStep
<1>4. CASE Connects(m) \/ LogsIn(m) \/ Announces(m) \/ Settles(m) \/ Departs(m)
  <2>1. ToProxy(m)' = ToProxy(m) \/ \E msg : ToProxy(m)' = Append(ToProxy(m), msg) /\ msg.kind # "submit"
    <3>1. CASE Connects(m) \/ Announces(m) \/ Settles(m)
      BY <3>1 DEF Connects, Announces, Settles, Gets
    <3>2. CASE LogsIn(m)
      <4>1. PICK msg : Sends(m, msg) /\ msg.kind \in {"login", "hello"}
        BY <3>2 DEF LogsIn
      <4> QED
        BY <4>1 DEF Sends
    <3>3. CASE Departs(m)
      <4>1. \/ \E msg : Sends(m, msg) /\ msg.kind \in {"eof", "reset", "odd"}
            \/ \E msg : Gets(m, msg)
        BY <3>3 DEF Departs
      <4> QED
        BY <4>1 DEF Sends, Gets
    <3> QED
      BY <1>4, <3>1, <3>2, <3>3
  <2>2. Submits(m)' = Submits(m) /\ \A i \in Submits(m) : ToProxy(m)'[i] = ToProxy(m)[i]
    BY <1>1, <2>1, PutLast, SMTT(40) DEF Submits
  <2>3. peer'[m].sent = peer[m].sent /\ (link'[m] \in {"none", "asks"} => link[m] \in {"none", "asks"})
    BY <1>4 DEF Connects, LogsIn, Announces, Settles, Departs, KeepsPeer
  <2> QED
    BY <1>2, <1>3, <2>2, <2>3, SMTT(40) DEF SharesOnce, OnceOf, Others
<1>5. CASE Hands(m)
  <2> DEFINE last == Len(ToProxy(m)) + 1
  <2>0. PICK msg : /\ ToProxy(m)' = Append(ToProxy(m), msg)
                   /\ msg.kind = "submit" /\ msg.job = peer[m].job /\ msg.n = peer[m].sent + 1
    BY <1>5 DEF Hands, Sends
  <2>1. /\ Submits(m)' = Submits(m) \cup {last} /\ last \notin Submits(m)
        /\ \A i \in Submits(m) : ToProxy(m)'[i] = ToProxy(m)[i]
        /\ ToProxy(m)'[last].n = peer[m].sent + 1 /\ ToProxy(m)'[last].job > 0
    BY <1>1, <1>5, <2>0, PutLast DEF Submits, Hands
  <2> HIDE DEF last
  <2>2. peer[m].sent + 1 \in Tap!Shares
    BY <1>1, <1>5 DEF Tap!Shares, Hands
  <2>3. /\ credit[m][peer[m].sent + 1] = 0 /\ entry[m].submitted[peer[m].sent + 1] = 0
    <3>1. credit[m] \in [Tap!Shares -> Nat] /\ entry[m].submitted \in [Tap!Shares -> 0 .. LastJob]
      BY TapParts, EntryFields
    <3>2. ~(peer[m].sent + 1 <= peer[m].sent) /\ credit[m][peer[m].sent + 1] \in Nat
      BY <1>1, <2>2, <3>1
    <3>3. /\ credit[m][peer[m].sent + 1] > 0 => peer[m].sent + 1 <= peer[m].sent
          /\ entry[m].submitted[peer[m].sent + 1] # 0 => peer[m].sent + 1 <= peer[m].sent
      BY <2>2 DEF SharesOnce, OnceOf
    <3> QED
      BY ONLY <3>2, <3>3
  <2>4. \A i \in Submits(m) : ToProxy(m)[i].n \in 1 .. peer[m].sent
    BY DEF SharesOnce, OnceOf
  <2>5. peer'[m].sent = peer[m].sent + 1 /\ link'[m] = "open"
    BY <1>5 DEF Hands
  <2>6. /\ \A n \in Tap!Shares : n <= peer[m].sent => n <= peer'[m].sent
        /\ \A n \in 1 .. peer[m].sent : n \in 1 .. peer'[m].sent /\ n # peer[m].sent + 1
        /\ peer[m].sent + 1 \in 1 .. peer'[m].sent
    BY <1>1, <2>5 DEF Tap!Shares
  <2> QED
    BY <1>2, <1>3, <2>1, <2>3, <2>4, <2>5, <2>6, SMTT(40) DEF SharesOnce, OnceOf, Others
<1> QED
  BY <1>4, <1>5 DEF EndStep

LEMMA TapSizes ==
    ASSUME NEW S PROVE Tap!Cardinality(S) = Cardinality(S) /\ (Tap!IsFiniteSet(S) <=> IsFiniteSet(S))
BY DEF Cardinality, Tap!Cardinality, IsFiniteSet, Tap!IsFiniteSet

Lists(q, x) == \E i \in DOMAIN q : q[i] = x
Distinct(q) == \A i, j \in DOMAIN q : q[i] = q[j] => i = j

(* What list.remove leaves.                                                *)
LEMMA WithoutIs ==
    ASSUME NEW T, NEW q \in Seq(T), Distinct(q), NEW e, Lists(q, e)
    PROVE  /\ Tap!Without(q, e) \in Seq(T) /\ Distinct(Tap!Without(q, e))
           /\ \A x : Lists(Tap!Without(q, e), x) <=> x # e /\ Lists(q, x)
<1> USE DEF Lists, Distinct
<1> DEFINE k == CHOOSE i \in DOMAIN q : q[i] = e
           w == Tap!Without(q, e)
<1>1. k \in DOMAIN q /\ q[k] = e
  OBVIOUS
<1>2. w = SubSeq(q, 1, k - 1) \o SubSeq(q, k + 1, Len(q))
  BY DEF Tap!Without, Tap!RemoveAt
<1> HIDE DEF k, w
<1>3. k \in 1 .. Len(q) /\ Len(q) \in Nat /\ DOMAIN q = 1 .. Len(q)
  BY <1>1
<1>4. /\ w \in Seq(T) /\ Len(w) = Len(q) - 1
      /\ \A i \in 1 .. Len(w) : w[i] = IF i < k THEN q[i] ELSE q[i + 1]
  <2> DEFINE a == SubSeq(q, 1, k - 1)
             b == SubSeq(q, k + 1, Len(q))
  <2>0. /\ k - 1 \in Int /\ k + 1 \in Int /\ Len(q) \in Int
        /\ \A i \in 1 .. k - 1 : q[i] \in T
        /\ \A i \in k + 1 .. Len(q) : q[i] \in T
    <3>1. \A i \in 1 .. Len(q) : q[i] \in T
      BY <1>3
    <3> QED
      BY ONLY <1>3, <3>1
  <2>1. a \in Seq(T) /\ Len(a) = k - 1 /\ \A i \in 1 .. k - 1 : a[i] = q[i]
    <3>1. /\ a \in Seq(T) /\ Len(a) = IF 1 <= k - 1 THEN k - 1 - 1 + 1 ELSE 0
          /\ \A i \in 1 .. k - 1 - 1 + 1 : a[i] = q[1 + i - 1]
      BY ONLY <2>0, SubSeqProperties
    <3> HIDE DEF a
    <3> QED
      BY ONLY <1>3, <3>1
  <2>2. b \in Seq(T) /\ Len(b) = Len(q) - k /\ \A i \in 1 .. Len(q) - k : b[i] = q[k + i]
    <3>1. /\ b \in Seq(T) /\ Len(b) = IF k + 1 <= Len(q) THEN Len(q) - (k + 1) + 1 ELSE 0
          /\ \A i \in 1 .. Len(q) - (k + 1) + 1 : b[i] = q[k + 1 + i - 1]
      BY ONLY <2>0, SubSeqProperties
    <3> HIDE DEF b
    <3>2. Len(b) = Len(q) - k
      <4>1. Len(b) = IF k + 1 <= Len(q) THEN Len(q) - (k + 1) + 1 ELSE 0
        BY ONLY <3>1, Zenon
      <4> DEFINE n == Len(q)
                 y == Len(b)
      <4>2. k \in 1 .. n /\ n \in Nat /\ y = IF k + 1 <= n THEN n - (k + 1) + 1 ELSE 0
        BY <1>3, <4>1
      <4> HIDE DEF n, y
      <4>3. y = n - k
        BY ONLY <4>2
      <4> QED
        BY <4>3 DEF n, y
    <3>3. ASSUME NEW i \in 1 .. Len(q) - k PROVE b[i] = q[k + i]
      <4>1. i \in 1 .. Len(q) - (k + 1) + 1 /\ k + 1 + i - 1 = k + i
        BY ONLY <1>3, <3>3
      <4>2. b[i] = q[k + 1 + i - 1]
        BY ONLY <3>1, <4>1
      <4> QED
        BY ONLY <4>1, <4>2
    <3> QED
      BY ONLY <3>1, <3>2, <3>3
  <2> HIDE DEF a, b
  <2>4. /\ a \o b \in Seq(T) /\ Len(a \o b) = Len(a) + Len(b)
        /\ \A i \in 1 .. Len(a) + Len(b) : (a \o b)[i] = IF i <= Len(a) THEN a[i] ELSE b[i - Len(a)]
    BY ONLY <2>1, <2>2, ConcatProperties
  <2>5. w = a \o b
    BY <1>2, Zenon DEF a, b
  <2>6. w \in Seq(T) /\ Len(w) = Len(q) - 1
    <3>1. w \in Seq(T) /\ Len(w) = Len(a) + Len(b)
      BY ONLY <2>4, <2>5, Zenon
    <3>2. Len(a) + Len(b) = Len(q) - 1
      BY ONLY <1>3, <2>1, <2>2
    <3> QED
      BY ONLY <3>1, <3>2, Zenon
  <2>7. ASSUME NEW i \in 1 .. Len(q) - 1
        PROVE  w[i] = IF i < k THEN q[i] ELSE q[i + 1]
    <3>1. CASE i < k
      <4>1. i \in 1 .. Len(a) + Len(b) /\ i <= Len(a) /\ i \in 1 .. k - 1
        BY ONLY <1>3, <2>1, <2>2, <2>7, <3>1
      <4> QED
        BY ONLY <2>1, <2>4, <2>5, <3>1, <4>1
    <3>2. CASE ~(i < k)
      <4>1. /\ i \in 1 .. Len(a) + Len(b) /\ ~(i <= Len(a)) /\ i - Len(a) \in 1 .. Len(q) - k
            /\ k + (i - Len(a)) = i + 1
        BY ONLY <1>3, <2>1, <2>2, <2>7, <3>2
      <4> QED
        BY ONLY <2>2, <2>4, <2>5, <3>2, <4>1
    <3> QED
      BY <3>1, <3>2
  <2> QED
    BY ONLY <2>6, <2>7
<1>5. DOMAIN w = 1 .. Len(q) - 1
  BY <1>4, LenProperties
<1>6. \A i, j \in DOMAIN w : w[i] = w[j] => i = j
  <2> SUFFICES ASSUME NEW i \in DOMAIN w, NEW j \in DOMAIN w, w[i] = w[j] PROVE i = j
    OBVIOUS
  <2> DEFINE At(n) == IF n < k THEN n ELSE n + 1
  <2>1. w[i] = q[At(i)] /\ w[j] = q[At(j)] /\ At(i) \in DOMAIN q /\ At(j) \in DOMAIN q
    BY <1>3, <1>4, <1>5
  <2>2. At(i) = At(j)
    BY <2>1
  <2> QED
    BY <1>3, <1>5, <2>2
<1>7. ASSUME NEW x, x # e, NEW i \in DOMAIN q, q[i] = x PROVE \E j \in DOMAIN w : w[j] = x
  <2>1. i # k
    BY <1>1, <1>7
  <2>2. CASE i < k
    <3>1. i \in DOMAIN w /\ w[i] = x
      BY <1>3, <1>4, <1>5, <1>7, <2>2
    <3> QED
      BY <3>1
  <2>3. CASE i > k
    <3>1. i - 1 \in DOMAIN w /\ w[i - 1] = x
      BY <1>3, <1>4, <1>5, <1>7, <2>3
    <3> QED
      BY <3>1
  <2> QED
    BY <1>3, <2>1, <2>2, <2>3
<1>8. ASSUME NEW x, NEW j \in DOMAIN w, w[j] = x PROVE x # e /\ \E i \in DOMAIN q : q[i] = x
  <2>1. PICK i \in DOMAIN q : i # k /\ q[i] = x
    BY <1>3, <1>4, <1>5, <1>8, SMTT(40)
  <2> QED
    BY <1>1, <2>1
<1>9. \A x : (\E i \in DOMAIN w : w[i] = x) <=> x # e /\ \E i \in DOMAIN q : q[i] = x
  BY <1>7, <1>8
<1> QED
  BY <1>4, <1>6, <1>9 DEF w

(* select.                                                                 *)
LEMMA Selected ==
    ASSUME TapTypes, ListedOnce, Tap!Select
    PROVE  /\ UNCHANGED <<link, inputs, entry, inbox, pool, peer, credit, death>>
           /\ ready' \in Seq(Tap!Sockets \cup {Tap!Server})
           /\ \A i, j \in DOMAIN ready' : ready'[i] = ready'[j] => i = j
           /\ \A i \in DOMAIN ready' : \E j \in DOMAIN inputs : inputs[j] = ready'[i]
<1> DEFINE found == {i \in DOMAIN inputs : Tap!Readable(inputs[i])}
           size  == Tap!Cardinality(found)
<1>1. PICK pick \in [1 .. size -> found] :
           /\ \A i, j \in DOMAIN pick : i < j => pick[i] < pick[j]
           /\ ready' = [i \in DOMAIN pick |-> inputs[pick[i]]]
  BY DEF Tap!Select
<1>2. size \in Nat
  <2>1. IsFiniteSet(DOMAIN inputs)
    <3>1. DOMAIN inputs = 1 .. Len(inputs) /\ Len(inputs) \in Nat
      <4>1. inputs \in Seq(Tap!Sockets \cup {Tap!Server})
        BY DEF TapTypes
      <4> QED
        BY ONLY <4>1, LenProperties
    <3> QED
      BY ONLY <3>1, FS_Interval
  <2>2. IsFiniteSet(found)
    BY <2>1, FS_Subset
  <2> QED
    BY <2>2, FS_CardinalityType, TapSizes
<1>3. found \subseteq DOMAIN inputs /\ inputs \in Seq(Tap!Sockets \cup {Tap!Server})
  BY DEF TapTypes
<1> HIDE DEF size, found
<1>4. /\ DOMAIN ready' = 1 .. size /\ \A i \in 1 .. size : ready'[i] = inputs[pick[i]] /\ pick[i] \in DOMAIN inputs
  BY <1>1, <1>3
<1>5. ready' \in Seq(Tap!Sockets \cup {Tap!Server})
  <2>1. \A i \in 1 .. size : inputs[pick[i]] \in Tap!Sockets \cup {Tap!Server}
    BY <1>3, <1>4
  <2>2. ready' = [i \in 1 .. size |-> inputs[pick[i]]]
    BY <1>1
  <2> QED
    BY ONLY <1>2, <2>1, <2>2, IsASeq
<1>6. \A i, j \in 1 .. size : pick[i] = pick[j] => i = j
  <2>1. \A i \in 1 .. size : pick[i] \in Nat
    BY <1>3, <1>4
  <2> QED
    BY <1>1, <1>2, <2>1
<1>7. \A i, j \in DOMAIN ready' : ready'[i] = ready'[j] => i = j
  BY <1>4, <1>6 DEF ListedOnce
<1> QED
  BY <1>4, <1>5, <1>7 DEF Tap!Select

(* The proxy's lists, and its entries.                                     *)
LEMMA FreshEntry ==
    ASSUME Tap!TapAssumption
    PROVE  /\ Tap!NoUser \in Entries /\ [Tap!NoUser EXCEPT !.in = TRUE] \in Entries
           /\ Tap!NoUser.in = FALSE /\ [Tap!NoUser EXCEPT !.in = TRUE].in = TRUE
           /\ \A u \in {Tap!NoUser, [Tap!NoUser EXCEPT !.in = TRUE]} :
                u.job = 0 /\ u.submitted = [n \in Tap!Shares |-> 0] /\ u.accepted = 0 /\ ~u.odd
<1>1. LastJob \in Nat
  BY TapAllowed
<1> DEFINE none == [n \in Tap!Shares |-> 0]
<1>2. none \in [Tap!Shares -> 0 .. LastJob]
  BY <1>1
<1>3. Tap!NoUser = [in |-> FALSE, login |-> FALSE, job |-> 0, submitted |-> none, odd |-> FALSE,
                    accepted |-> 0, rejected |-> 0]
  BY DEF Tap!NoUser
<1> HIDE DEF none
<1>4. Tap!NoUser \in Entries
  BY ONLY <1>1, <1>2, <1>3 DEF Entries
<1>5. /\ Tap!NoUser.in = FALSE /\ Tap!NoUser.job = 0
      /\ Tap!NoUser.submitted = none /\ Tap!NoUser.accepted = 0 /\ ~Tap!NoUser.odd
  BY ONLY <1>3
<1>6. ASSUME NEW u \in Entries
      PROVE  /\ [u EXCEPT !.in = TRUE] \in Entries /\ [u EXCEPT !.in = TRUE].in = TRUE
             /\ [u EXCEPT !.in = TRUE].job = u.job /\ [u EXCEPT !.in = TRUE].submitted = u.submitted
             /\ [u EXCEPT !.in = TRUE].accepted = u.accepted /\ [u EXCEPT !.in = TRUE].odd = u.odd
  BY ONLY u \in Entries DEF Entries
<1> QED
  BY <1>4, <1>5, <1>6 DEF none

(* What the steps of the proxy do that accept or close.                    *)
Fresh(u)    == u.job = 0 /\ u.submitted = [n \in Tap!Shares |-> 0] /\ u.accepted = 0 /\ ~u.odd

Quiet(m) == /\ inbox' = inbox /\ pool' = pool /\ peer' = peer /\ credit' = credit
            /\ \A k \in Miners : k # m => link'[k] = link[k] /\ entry'[k] = entry[k]
            /\ link' \in [Miners -> {"none", "asks", "open", "closed"}] /\ entry' \in [Miners -> Entries]
            /\ inputs' \in Seq(Tap!Sockets \cup {Tap!Server}) /\ Distinct(inputs')
            /\ death = "none" /\ death' = death

Opens(m) == /\ Quiet(m) /\ ready' = <<>> /\ link[m] = "asks" /\ link'[m] = "open"
            /\ \A x : Lists(inputs', x) <=> Lists(inputs, x) \/ x \in {<<m, "miner">>, <<m, "pool">>}
            /\ Fresh(entry'[m]) /\ entry'[m].in
Refuses(m) == /\ Quiet(m) /\ ready' = <<>> /\ link[m] = "asks" /\ link'[m] = "closed"
              /\ inputs' = inputs /\ entry' = entry
Drops(m) == /\ Quiet(m) /\ link[m] = "open" /\ link'[m] = "closed"
            /\ \A x : Lists(inputs', x) <=> Lists(inputs, x) /\ x \notin {<<m, "miner">>, <<m, "pool">>}
            /\ entry'[m] = entry[m] \/ (Fresh(entry'[m]) /\ ~entry'[m].in)
            /\ ready' = <<>> \/ (Hellos /\ ready # <<>> /\ ready' = Tail(ready))

LEMMA SomeEnd ==
    ASSUME TapTypes, ListedOnce, NEW m \in Miners, NEW side \in Tap!Sides, link[m] # "open"
    PROVE  ~Lists(inputs, <<m, side>>)
BY DEF ListedOnce, Lists

LEMMA AcceptIs ==
    ASSUME Tap!TapAssumption, TapInv, NEW m \in Miners, Tap!OnAccept(m)
    PROVE  Opens(m) \/ Refuses(m)
<1>0. TapTypes /\ ListedOnce
  BY DEF TapInv
<1>1. /\ link[m] = "asks" /\ ready' = <<>> /\ UNCHANGED <<inbox, pool, peer, credit, death>>
      /\ link \in [Miners -> {"none", "asks", "open", "closed"}] /\ entry \in [Miners -> Entries]
      /\ inputs \in Seq(Tap!Sockets \cup {Tap!Server}) /\ Distinct(inputs)
      /\ death = "none"
  BY <1>0 DEF Tap!OnAccept, Tap!Alive, TapTypes, ListedOnce, Distinct
<1>2. CASE link' = [link EXCEPT ![m] = "closed"] /\ UNCHANGED <<inputs, entry>>
  <2>1. /\ link' \in [Miners -> {"none", "asks", "open", "closed"}] /\ link'[m] = "closed"
        /\ \A k \in Miners : k # m => link'[k] = link[k]
    BY <1>1, <1>2
  <2> QED
    BY <1>1, <1>2, <2>1 DEF Refuses, Quiet
<1>3. CASE /\ link' = [link EXCEPT ![m] = "open"]
           /\ inputs' = inputs \o <<<<m, "miner">>, <<m, "pool">>>>
           /\ entry' = [entry EXCEPT ![m] = [Tap!NoUser EXCEPT !.in = TRUE]]
  <2>1. /\ link' \in [Miners -> {"none", "asks", "open", "closed"}] /\ link'[m] = "open"
        /\ \A k \in Miners : k # m => link'[k] = link[k]
    BY <1>1, <1>3
  <2> DEFINE new == [Tap!NoUser EXCEPT !.in = TRUE]
  <2>2. new \in Entries /\ Fresh(new) /\ new.in
    BY FreshEntry DEF Fresh
  <2>3. entry' = [entry EXCEPT ![m] = new]
    BY <1>3
  <2> HIDE DEF new
  <2>4. /\ entry' \in [Miners -> Entries] /\ entry'[m] = new
        /\ \A k \in Miners : k # m => entry'[k] = entry[k]
    BY <1>1, <2>2, <2>3
  <2> DEFINE T == Tap!Sockets \cup {Tap!Server}
             a == <<m, "miner">>
             b == <<m, "pool">>
  <2>5. a \in T /\ b \in T /\ a # b /\ ~Lists(inputs, a) /\ ~Lists(inputs, b)
    <3>1. "miner" \in Tap!Sides /\ "pool" \in Tap!Sides
      BY DEF Tap!Sides
    <3> QED
      BY <1>0, <1>1, <3>1, Ends, SomeEnd
  <2>6. inputs' = Append(Append(inputs, a), b) /\ inputs \in Seq(T)
    <3>1. inputs \in Seq(T) /\ inputs' = inputs \o <<a, b>>
      BY <1>1, <1>3
    <3> HIDE DEF T, a, b
    <3>2. \A q \in Seq(T) : q \o <<a, b>> = Append(Append(q, a), b)
      BY <2>5
    <3> QED
      BY ONLY <3>1, <3>2
  <2> HIDE DEF T, a, b
  <2>7. /\ Append(inputs, a) \in Seq(T) /\ Len(Append(inputs, a)) = Len(inputs) + 1
        /\ DOMAIN Append(inputs, a) = DOMAIN inputs \cup {Len(inputs) + 1}
        /\ Append(inputs, a)[Len(inputs) + 1] = a /\ \A i \in DOMAIN inputs : Append(inputs, a)[i] = inputs[i]
    BY <2>5, <2>6, PutLast
  <2>8. /\ inputs' \in Seq(T)
        /\ DOMAIN inputs' = DOMAIN Append(inputs, a) \cup {Len(inputs) + 2}
        /\ inputs'[Len(inputs) + 2] = b /\ \A i \in DOMAIN Append(inputs, a) : inputs'[i] = Append(inputs, a)[i]
    <3>1. Len(Append(inputs, a)) + 1 = Len(inputs) + 2 /\ Append(Append(inputs, a), b) \in Seq(T)
      BY <2>5, <2>6, <2>7
    <3> HIDE DEF Lists
    <3> QED
      BY ONLY <2>6, <2>7, <3>1, PutLast
  <2>9. \A x : Lists(inputs', x) <=> Lists(inputs, x) \/ x \in {a, b}
    BY ONLY <2>7, <2>8 DEF Lists
  <2>10. Distinct(inputs')
    BY ONLY <1>1, <2>5, <2>7, <2>8 DEF Lists, Distinct
  <2> QED
    BY <1>1, <2>1, <2>2, <2>4, <2>8, <2>9, <2>10 DEF Opens, Quiet, T, a, b
<1> QED
  BY <1>2, <1>3 DEF Tap!OnAccept

LEMMA InRange ==
    ASSUME NEW q, NEW x
    PROVE  x \in Tap!Range(q) <=> Lists(q, x)
BY DEF Tap!Range, Lists

LEMMA ClosesParts ==
    ASSUME Tap!TapAssumption, TapInv, NEW m \in Miners, NEW side \in Tap!Sides,
           Lists(inputs, <<m, side>>), Tap!Closes(<<m, side>>), Tap!Alive, UNCHANGED <<inbox, pool, peer, credit, death>>,
           ready' = <<>> \/ (Hellos /\ ready # <<>> /\ ready' = Tail(ready))
    PROVE  Drops(m)
<1>0. TapTypes /\ ListedOnce
  BY DEF TapInv
<1>1. /\ link \in [Miners -> {"none", "asks", "open", "closed"}] /\ entry \in [Miners -> Entries]
      /\ inputs \in Seq(Tap!Sockets \cup {Tap!Server}) /\ Distinct(inputs) /\ death = "none"
  BY <1>0 DEF TapTypes, ListedOnce, Distinct, Tap!Alive
<1>2. link[m] = "open"
  BY <1>0 DEF ListedOnce, Lists
<1> DEFINE s == <<m, side>>
           t == Tap!Other(s)
           T == Tap!Sockets \cup {Tap!Server}
<1>3. t # s /\ {s, t} = {<<m, "miner">>, <<m, "pool">>} /\ Lists(inputs, s) /\ Lists(inputs, t)
  <2>1. side = "miner" \/ side = "pool"
    BY DEF Tap!Sides
  <2>2. Lists(inputs, <<m, "miner">>) /\ Lists(inputs, <<m, "pool">>)
    BY <1>0, <1>2 DEF ListedOnce, Lists, Tap!Sides
  <2>3. CASE side = "miner"
    BY <2>2, <2>3, Ends, SMTT(40)
  <2>4. CASE side = "pool"
    BY <2>2, <2>4, Ends, SMTT(40)
  <2> QED
    BY <2>1, <2>3, <2>4
<1>4. link' \in [Miners -> {"none", "asks", "open", "closed"}] /\ link'[m] = "closed"
      /\ \A k \in Miners : k # m => link'[k] = link[k]
  <2>1. link' = [link EXCEPT ![m] = "closed"]
    BY DEF Tap!Closes
  <2> QED
    BY <1>1, <2>1
<1>5. /\ entry' \in [Miners -> Entries] /\ \A k \in Miners : k # m => entry'[k] = entry[k]
      /\ entry'[m] = entry[m] \/ (Fresh(entry'[m]) /\ ~entry'[m].in)
  <2>1. entry' = [entry EXCEPT ![m] = Tap!NoUser] \/ entry' = entry
    BY DEF Tap!Closes
  <2>2. Tap!NoUser \in Entries /\ Fresh(Tap!NoUser) /\ ~Tap!NoUser.in
    BY FreshEntry DEF Fresh
  <2> DEFINE none == Tap!NoUser
  <2>3. entry' = [entry EXCEPT ![m] = none] => /\ entry' \in [Miners -> Entries] /\ entry'[m] = none
                                               /\ \A k \in Miners : k # m => entry'[k] = entry[k]
    <3>1. none \in Entries
      BY <2>2
    <3> HIDE DEF none
    <3> QED
      BY ONLY <1>1, <3>1, m \in Miners
  <2>4. entry' = entry => /\ entry' \in [Miners -> Entries] /\ entry'[m] = entry[m]
                          /\ \A k \in Miners : k # m => entry'[k] = entry[k]
    BY <1>1
  <2> HIDE DEF none
  <2>5. none \in Entries /\ Fresh(none) /\ ~none.in /\ (entry' = [entry EXCEPT ![m] = none] \/ entry' = entry)
    BY <2>1, <2>2 DEF none
  <2> QED
    BY ONLY <2>3, <2>4, <2>5
<1>6. inputs' = Tap!Without(Tap!Without(inputs, s), t)
  BY DEF Tap!Closes
<1> HIDE DEF s, t, T
<1> DEFINE q == Tap!Without(inputs, s)
<1>7. q \in Seq(T) /\ Distinct(q) /\ \A x : Lists(q, x) <=> x # s /\ Lists(inputs, x)
  <2>1. inputs \in Seq(T)
    BY <1>1 DEF T
  <2> QED
    BY <1>1, <1>3, <2>1, WithoutIs
<1> HIDE DEF q
<1>8. inputs' \in Seq(T) /\ Distinct(inputs') /\ \A x : Lists(inputs', x) <=> x # t /\ Lists(q, x)
  <2>1. inputs' = Tap!Without(q, t)
    BY <1>6 DEF q
  <2>2. Lists(q, t)
    BY <1>3, <1>7
  <2> QED
    BY ONLY <1>7, <2>1, <2>2, WithoutIs
<1>9. \A x : Lists(inputs', x) <=> Lists(inputs, x) /\ x \notin {<<m, "miner">>, <<m, "pool">>}
  BY <1>3, <1>7, <1>8
<1> QED
  BY <1>1, <1>2, <1>4, <1>5, <1>8, <1>9 DEF Drops, Quiet, T

LEMMA HeadIs ==
    ASSUME TapTypes, Accidents, NEW m \in Miners, NEW side \in Tap!Sides, inbox[<<m, side>>] # <<>>
    PROVE  /\ Fair(Head(inbox[<<m, side>>]))
           /\ side = "miner" => /\ ToProxy(m) # <<>> /\ Head(inbox[<<m, side>>]) = ToProxy(m)[1]
                                /\ Head(inbox[<<m, side>>]) \in FromMiner
           /\ side = "pool" => /\ ToMiner(m) # <<>> /\ Head(inbox[<<m, side>>]) = ToMiner(m)[1]
                               /\ Head(inbox[<<m, side>>]) \in FromPool
<1>1. ToProxy(m) \in Seq(FromMiner) /\ ToMiner(m) \in Seq(FromPool)
  BY TapParts
<1>2. CASE side = "miner"
  <2>1. inbox[<<m, side>>] = ToProxy(m) /\ ToProxy(m) # <<>>
    BY <1>2 DEF ToProxy
  <2>2. 1 \in DOMAIN ToProxy(m) /\ Head(ToProxy(m)) = ToProxy(m)[1] /\ ToProxy(m)[1] \in FromMiner
    BY ONLY <1>1, <2>1, FrontOff
  <2> QED
    BY <1>2, <2>1, <2>2 DEF Accidents
<1>3. CASE side = "pool"
  <2>1. inbox[<<m, side>>] = ToMiner(m) /\ ToMiner(m) # <<>>
    BY <1>3 DEF ToMiner
  <2>2. 1 \in DOMAIN ToMiner(m) /\ Head(ToMiner(m)) = ToMiner(m)[1] /\ ToMiner(m)[1] \in FromPool
    BY ONLY <1>1, <2>1, FrontOff
  <2> QED
    BY <1>3, <2>1, <2>2 DEF Accidents
<1> QED
  BY <1>2, <1>3 DEF Tap!Sides

LEMMA CloseIs ==
    ASSUME Tap!TapAssumption, TapInv, NEW m \in Miners, NEW side \in Tap!Sides,
           Tap!OnClose(<<m, side>>) \/ Tap!OnHello(<<m, side>>)
    PROVE  Drops(m)
<1>1. CASE Tap!OnClose(<<m, side>>)
  <2>1. Lists(inputs, <<m, side>>) /\ Tap!Closes(<<m, side>>) /\ ready' = <<>>
        /\ Tap!Alive /\ UNCHANGED <<inbox, pool, peer, credit, death>>
    BY <1>1, InRange DEF Tap!OnClose
  <2> QED
    BY <2>1, ClosesParts
<1>2. CASE Tap!OnHello(<<m, side>>)
  <2>1. Lists(inputs, <<m, side>>) /\ Tap!Closes(<<m, side>>) /\ ready # <<>> /\ ready' = Tail(ready)
        /\ Tap!Alive /\ UNCHANGED <<inbox, pool, peer, credit, death>>
    BY <1>2, InRange DEF Tap!OnHello
  <2>2. inbox[<<m, side>>] # <<>> /\ Head(inbox[<<m, side>>]).kind = "hello" /\ TapTypes /\ Accidents
    BY <1>2 DEF Tap!OnHello, TapInv
  <2>3. Hellos
    BY <2>2, HeadIs DEF Fair
  <2> QED
    BY <2>1, <2>3, ClosesParts
<1> QED
  BY <1>1, <1>2

(* These steps keep the invariant.                                         *)
LEMMA QuietKeeps ==
    ASSUME Tap!TapAssumption, TapInv, NEW m \in Miners, Opens(m) \/ Refuses(m) \/ Drops(m)
    PROVE  TapInv'
<1>0. TapTypes /\ ListedOnce /\ RoundOf /\ Accidents /\ SharesOnce /\ NamedInv
  BY DEF TapInv
<1>1. Quiet(m)
  BY DEF Opens, Refuses, Drops
<1>2. ready \in Seq(Tap!Sockets \cup {Tap!Server})
  BY <1>0 DEF TapTypes
<1>3. /\ ready' \in Seq(Tap!Sockets \cup {Tap!Server})
      /\ ready' = <<>> \/ (Hellos /\ \A i \in DOMAIN ready' : i + 1 \in DOMAIN ready /\ ready'[i] = ready[i + 1])
      /\ Distinct(ready')
  <2>1. CASE ready' = <<>>
    BY <2>1 DEF Distinct
  <2>2. CASE Hellos /\ ready # <<>> /\ ready' = Tail(ready)
    <3>1. /\ ready' \in Seq(Tap!Sockets \cup {Tap!Server})
          /\ \A i \in DOMAIN ready' : i \in Nat /\ i + 1 \in DOMAIN ready /\ ready'[i] = ready[i + 1]
      BY ONLY <1>2, <2>2, FrontOff, LenProperties
    <3>2. Distinct(ready)
      BY <1>0 DEF RoundOf, Distinct
    <3>3. Distinct(ready')
      BY ONLY <3>1, <3>2 DEF Distinct
    <3> QED
      BY <2>2, <3>1, <3>3
  <2> QED
    BY <2>1, <2>2 DEF Opens, Refuses, Drops
<1>4. TapTypes'
  BY <1>0, <1>1, <1>3 DEF TapTypes, Quiet, ToProxy, ToMiner
<1>5. ListedOnce'
  <2>1. \A k \in Miners : \A side \in Tap!Sides : Lists(inputs, <<k, side>>) <=> link[k] = "open"
    BY <1>0 DEF ListedOnce, Lists
  <2>2. \A k \in Miners, side \in Tap!Sides : <<k, side>> \in {<<m, "miner">>, <<m, "pool">>} <=> k = m
    BY DEF Tap!Sides
  <2>3. ASSUME NEW k \in Miners, NEW side \in Tap!Sides PROVE Lists(inputs', <<k, side>>) <=> link'[k] = "open"
    <3>0. k # m => link'[k] = link[k]
      BY <1>1 DEF Quiet
    <3>1. CASE Opens(m)
      BY <2>1, <2>2, <3>0, <3>1 DEF Opens
    <3>2. CASE Refuses(m)
      <4>1. inputs' = inputs /\ link[m] # "open" /\ link'[m] # "open"
        BY <3>2 DEF Refuses
      <4> QED
        BY <2>1, <3>0, <4>1
    <3>3. CASE Drops(m)
      BY <2>1, <2>2, <3>0, <3>3 DEF Drops
    <3> QED
      BY <3>1, <3>2, <3>3
  <2> QED
    BY <1>1, <2>3 DEF ListedOnce, Lists, Quiet, Distinct
<1>6. RoundOf'
  <2>1. ~Hellos => ready' = <<>>
    BY <1>3
  <2> QED
    BY <1>3, <2>1 DEF RoundOf, Distinct
<1>7. ASSUME NEW k \in Miners, k # m PROVE entry'[k] = entry[k] /\ link'[k] = link[k]
  BY <1>1, <1>7 DEF Quiet
<1>8. /\ entry'[m] = entry[m] \/ (Fresh(entry'[m]) /\ (entry'[m].in => link[m] = "asks"))
      /\ link'[m] \notin {"none", "asks"}
  BY DEF Opens, Refuses, Drops
<1>9. Accidents'
  <2>1. death' = "none" /\ inbox' = inbox
    BY <1>1 DEF Quiet
  <2>2. \A k \in Miners : ToProxy(k)' = ToProxy(k) /\ ToMiner(k)' = ToMiner(k)
    BY <2>1 DEF ToProxy, ToMiner
  <2>3. \A k \in Miners : entry'[k].odd => entry[k].odd
    BY <1>7, <1>8 DEF Fresh
  <2>4. Tap!DiesOnly'
    BY ONLY <2>1 DEF Tap!DiesOnly
  <2> QED
    BY ONLY <1>0, <2>2, <2>3, <2>4 DEF Accidents
<1>10. ASSUME NEW k \in Miners PROVE Submits(k)' = Submits(k) /\ ToProxy(k)' = ToProxy(k)
  BY <1>1 DEF Quiet, Submits, ToProxy
<1> DEFINE Once(k, u, l) == OnceOf(l, u, peer[k].sent, credit[k], ToProxy(k), Submits(k))
<1>11. \A k \in Miners : Once(k, entry[k], link[k])
  BY <1>0 DEF SharesOnce
<1>12. ASSUME NEW k \in Miners PROVE Once(k, entry'[k], link'[k])
  <2>1. CASE k # m
    <3>1. entry'[k] = entry[k] /\ link'[k] = link[k]
      BY <1>7, <2>1
    <3> QED
      BY <1>11, <3>1
  <2>2. CASE k = m /\ entry'[m] = entry[m]
    BY <1>8, <1>11, <2>2 DEF OnceOf
  <2>3. CASE k = m /\ Fresh(entry'[m]) /\ (entry'[m].in => link[m] = "asks")
    <3>1. \A n \in Tap!Shares : entry'[m].submitted[n] = 0
      BY <2>3 DEF Fresh
    <3>2. \A i \in Submits(m) : ToProxy(m)[i].n \in Tap!Shares
      <4>1. peer[m].sent \in 0 .. MaxSubmits /\ MaxSubmits \in Nat
        BY <1>0, TapParts, PeerIs, TapAllowed
      <4>2. 1 .. peer[m].sent \subseteq Tap!Shares
        BY <4>1 DEF Tap!Shares
      <4> QED
        BY <1>11, <4>2 DEF OnceOf
    <3>3. Counts(entry'[m], Cardinality({n \in Tap!Shares : credit[m][n] > 0}))
      <4> SUFFICES ASSUME entry'[m].in PROVE entry'[m].accepted = Cardinality({n \in Tap!Shares : credit[m][n] > 0})
        <5>1. entry'[m].accepted \in Nat
          BY <1>4, TapParts, EntryFields DEF TapTypes
        <5> QED
          BY <5>1 DEF Counts
      <4>1. peer[m].sent = 0
        BY <1>11, <2>3 DEF OnceOf
      <4>2. \A n \in Tap!Shares : ~(credit[m][n] > 0)
        <5>1. \A n \in Tap!Shares : credit[m][n] > 0 => n <= 0
          BY <1>11, <4>1 DEF OnceOf
        <5>2. \A n \in Tap!Shares : ~(n <= 0)
          BY DEF Tap!Shares
        <5> QED
          BY <5>1, <5>2
      <4>3. {n \in Tap!Shares : credit[m][n] > 0} = {}
        BY <4>2
      <4>4. Cardinality({}) = 0
        BY FS_EmptySet
      <4> QED
        BY <2>3, <4>3, <4>4 DEF Fresh
    <3> QED
      BY <1>8, <1>11, <2>3, <3>1, <3>2, <3>3 DEF OnceOf
  <2> QED
    BY <1>8, <2>1, <2>2, <2>3
<1>13. SharesOnce'
  <2>1. peer' = peer /\ credit' = credit
    BY <1>1 DEF Quiet
  <2> QED
    BY ONLY <1>10, <1>12, <2>1 DEF SharesOnce
<1>14. ASSUME ~Pieces, NEW k \in Miners
       PROVE  NamedOf(link'[k], peer'[k], pool'[k], entry'[k], ToProxy(k)', ToMiner(k)')
  <2>1. NamedOf(link[k], peer[k], pool[k], entry[k], ToProxy(k), ToMiner(k))
    BY <1>0, <1>14 DEF NamedInv
  <2>2. peer' = peer /\ pool' = pool /\ ToProxy(k)' = ToProxy(k) /\ ToMiner(k)' = ToMiner(k)
    BY <1>1 DEF Quiet, ToProxy, ToMiner
  <2>3. CASE k # m
    BY <1>7, <2>1, <2>2, <2>3
  <2>4. CASE k = m /\ link'[m] = "closed"
    BY <2>4 DEF NamedOf
  <2>5. CASE k = m /\ Opens(m)
    <3>1. New(peer[m], pool[m], ToProxy(m), ToMiner(m)) /\ link'[m] = "open" /\ entry'[m].in
          /\ \A n \in Tap!Shares : entry'[m].submitted[n] = 0
      BY <2>1, <2>5 DEF Opens, Fresh, NamedOf
    <3>2. On(<<>>, Given) = {} /\ On(<<>>, News) = {}
      BY DEF On
    <3>3. Mute(peer[m], pool[m], entry'[m], ToProxy(m), ToMiner(m))
      BY ONLY <3>1, <3>2 DEF New, Mute
    <3> QED
      BY <2>2, <2>5, <3>1, <3>3 DEF NamedOf
  <2> QED
    BY <2>3, <2>4, <2>5 DEF Refuses, Drops
<1>15. NamedInv'
  BY <1>14 DEF NamedInv
<1> QED
  BY <1>4, <1>5, <1>6, <1>9, <1>13, <1>15 DEF TapInv

LEMMA TailOf ==
    ASSUME NEW T, NEW q \in Seq(T), q # <<>>, Distinct(q)
    PROVE  Tail(q) \in Seq(T) /\ Distinct(Tail(q)) /\ \A x : Lists(Tail(q), x) => Lists(q, x)
<1>1. /\ Tail(q) \in Seq(T)
      /\ \A i \in DOMAIN Tail(q) : i \in Nat /\ i + 1 \in DOMAIN q /\ Tail(q)[i] = q[i + 1]
  BY FrontOff, LenProperties
<1> QED
  BY ONLY <1>1, Distinct(q) DEF Distinct, Lists

(* A step that only selects, or ends the proxy.                            *)
Rests == /\ UNCHANGED <<link, inputs, entry, inbox, pool, peer, credit>>
         /\ ready' \in Seq(Tap!Sockets \cup {Tap!Server}) /\ RoundOf'
         /\ death' \in {"none", "closed", "reset", "no job", "pipe", "message", "store", "full"} /\ Tap!DiesOnly'

LEMMA RestKeeps ==
    ASSUME TapInv, Rests
    PROVE  TapInv'
<1>0. TapTypes /\ ListedOnce /\ Accidents /\ SharesOnce /\ NamedInv
  BY DEF TapInv
<1>1. /\ link' = link /\ inputs' = inputs /\ entry' = entry /\ inbox' = inbox
      /\ pool' = pool /\ peer' = peer /\ credit' = credit
  BY DEF Rests
<1>2. \A k \in Miners : ToProxy(k)' = ToProxy(k) /\ ToMiner(k)' = ToMiner(k) /\ Submits(k)' = Submits(k)
  BY <1>1 DEF ToProxy, ToMiner, Submits
<1>3. TapTypes'
  BY ONLY <1>0, <1>1, <1>2, Rests DEF TapTypes, Rests
<1>4. ListedOnce'
  BY ONLY <1>0, <1>1 DEF ListedOnce
<1>5. Accidents'
  BY ONLY <1>0, <1>1, <1>2, Rests DEF Accidents, Rests
<1>6. SharesOnce'
  BY ONLY <1>0, <1>1, <1>2 DEF SharesOnce
<1>7. NamedInv'
  BY ONLY <1>0, <1>1, <1>2 DEF NamedInv
<1> QED
  BY <1>3, <1>4, <1>5, <1>6, <1>7 DEF TapInv, Rests

(* It dies of what it reads.                                               *)
LEMMA EndsOf ==
    ASSUME TapInv, UNCHANGED <<link, inputs, ready, entry, inbox, pool, peer, credit>>,
           death' \in {"none", "closed", "reset", "no job", "pipe", "message", "store", "full"}, Tap!DiesOnly'
    PROVE  Rests
<1>1. TapTypes /\ RoundOf
  BY DEF TapInv
<1>2. ready' = ready /\ inputs' = inputs
  OBVIOUS
<1>3. RoundOf'
  BY ONLY <1>1, <1>2 DEF RoundOf
<1>4. ready' \in Seq(Tap!Sockets \cup {Tap!Server})
  BY <1>1, <1>2 DEF TapTypes
<1> QED
  BY <1>3, <1>4 DEF Rests

LEMMA DieKeeps ==
    ASSUME TapInv, NEW m \in Miners, NEW side \in Tap!Sides, Tap!Dies(<<m, side>>)
    PROVE  TapInv'
<1>0. TapTypes /\ RoundOf
  BY DEF TapInv
<1>1. UNCHANGED <<link, inputs, ready, entry, inbox, pool, peer, credit>>
  BY DEF Tap!Dies
<1>2. ready # <<>> /\ Head(ready) = <<m, side>>
  BY DEF Tap!Dies
<1>3. CASE death' = "closed" /\ ~Lists(inputs, <<m, side>>)
  <2>1. 1 \in DOMAIN ready /\ ready[1] = <<m, side>>
    <3>1. ready \in Seq(Tap!Sockets \cup {Tap!Server})
      BY <1>0 DEF TapTypes
    <3> QED
      BY ONLY <1>2, <3>1, FrontOff
  <2>2. Hellos
    <3> SUFFICES ASSUME ~Hellos PROVE FALSE
      OBVIOUS
    <3>1. Lists(inputs, ready[1])
      BY <1>0, <2>1 DEF RoundOf, Lists
    <3> QED
      BY <1>3, <2>1, <3>1
  <2>3. Tap!DiesOnly'
    BY ONLY <1>3, <2>2 DEF Tap!DiesOnly
  <2> QED
    BY <1>1, <1>3, <2>3, EndsOf, RestKeeps
<1>4. CASE death' = "reset" /\ Resets
  <2>1. Tap!DiesOnly'
    BY ONLY <1>4 DEF Tap!DiesOnly
  <2> QED
    BY <1>1, <1>4, <2>1, EndsOf, RestKeeps
<1> QED
  <2>1. <<m, side>> \in Tap!Range(inputs) <=> Lists(inputs, <<m, side>>)
    BY InRange
  <2>2. /\ death' = IF <<m, side>> \notin Tap!Range(inputs) THEN "closed" ELSE "reset"
        /\ <<m, side>> \notin Tap!Range(inputs) \/ Resets
    BY DEF Tap!Dies
  <2> QED
    BY <1>3, <1>4, <2>1, <2>2

LEMMA FullKeeps ==
    ASSUME TapInv, Tap!AcceptFails
    PROVE  TapInv'
<1>1. /\ UNCHANGED <<link, inputs, ready, entry, inbox, pool, peer, credit>>
      /\ death' = "full" /\ Tap!Full /\ inputs' = inputs
  BY DEF Tap!AcceptFails
<1>2. Tap!DiesOnly'
  BY ONLY <1>1 DEF Tap!DiesOnly, Tap!Full
<1> QED
  BY <1>1, <1>2, EndsOf, RestKeeps

(* What the proxy does with a message it reads: what it keeps of one, and  *)
(* what of the shares done, of which got are recorded.                     *)
EntryWith(m, job, submitted) ==
    /\ entry'[m].in = entry[m].in /\ entry'[m].job = job /\ entry'[m].submitted = submitted
    /\ entry'[m].accepted = entry[m].accepted
    /\ entry[m].login => entry'[m].login
    /\ entry'[m].odd => entry[m].odd \/ Oddities

Counted(m, got, done) ==
    /\ got \subseteq done /\ done \subseteq Tap!Matching(entry[m])
    /\ entry'[m].in = entry[m].in /\ entry'[m].job = entry[m].job
    /\ entry'[m].submitted = [n \in Tap!Shares |-> IF n \in done THEN 0 ELSE entry[m].submitted[n]]
    /\ entry[m].login => entry'[m].login
    /\ entry'[m].odd => entry[m].odd
    /\ \/ entry'[m].accepted = entry[m].accepted + Cardinality(done) /\ (Pieces \/ StoreFails \/ got = done)
       \/ entry'[m].accepted = entry[m].accepted /\ got = {}
    /\ credit'[m] = [n \in Tap!Shares |-> IF n \in got THEN credit[m][n] + 1 ELSE credit[m][n]]

Kept(m, msg, reads) ==
    IF reads /\ msg.kind \in {"ok", "refused"}
    THEN \E got : (got # {} => msg.kind = "ok") /\ Counted(m, got, Tap!Matching(entry[m]))
    ELSE /\ credit'[m] = credit[m]
         /\ EntryWith(m, IF reads /\ msg.kind = "job" THEN msg.job ELSE entry[m].job,
                      IF reads /\ msg.kind = "submit" THEN [entry[m].submitted EXCEPT ![msg.n] = msg.job]
                      ELSE entry[m].submitted)
         /\ reads /\ msg.kind = "login" => entry'[m].login

Passes1(m) == /\ link[m] = "open" /\ link' = link /\ inputs' = inputs
              /\ ready # <<>> /\ ready' = Tail(ready)
              /\ death = "none" /\ death' \in {"none", "pipe"} /\ (death' = "pipe" => Resets)
              /\ \A k \in Miners : k # m => /\ entry'[k] = entry[k] /\ credit'[k] = credit[k]
                                            /\ peer'[k] = peer[k] /\ pool'[k] = pool[k]
                                            /\ ToProxy(k)' = ToProxy(k) /\ ToMiner(k)' = ToMiner(k)

FromOne(m) == ToProxy(m) # <<>> /\ ToProxy(m)' = Tail(ToProxy(m)) /\ ToMiner(m)' = ToMiner(m)
FromTheOther(m) == ToMiner(m) # <<>> /\ ToMiner(m)' = Tail(ToMiner(m)) /\ ToProxy(m)' = ToProxy(m)

(* From the miner.                                                         *)
Upward(m, msg) ==
    /\ FromOne(m) /\ msg = ToProxy(m)[1] /\ msg.kind \in {"login", "submit"}
    /\ peer' = peer
    /\ pool'[m].due = Append(pool[m].due, msg.n) /\ pool'[m].job = pool[m].job /\ pool'[m].took = pool[m].took

(* From the pool.                                                          *)
Downward(m, msg) ==
    /\ FromTheOther(m) /\ msg = ToMiner(m)[1] /\ msg.kind \in {"welcome", "job", "ok", "refused", "error"}
    /\ pool' = pool
    /\ peer'[m].sent = peer[m].sent
    /\ peer'[m].job = IF msg.kind \in {"welcome", "job"} THEN msg.job ELSE peer[m].job
    /\ IF msg.kind = "job" THEN peer'[m].waits = peer[m].waits ELSE ~peer'[m].waits

(* From either, what neither takes for anything.                           *)
Oddly(m, msg) ==
    /\ peer' = peer /\ pool' = pool /\ msg.kind = "odd"
    /\ \/ FromOne(m) /\ msg = ToProxy(m)[1]
       \/ FromTheOther(m) /\ msg = ToMiner(m)[1]

Passed(m, msg, reads) ==
    /\ TapTypes' /\ Passes1(m) /\ Kept(m, msg, reads)
    /\ reads /\ msg.kind \in {"ok", "refused"} => entry[m].job # 0 \/ Tap!Held(entry[m]) = {}
    /\ msg.kind = "odd" => Oddities
    /\ Upward(m, msg) \/ Downward(m, msg) \/ Oddly(m, msg)

(* An exception among the shares an OK is for.                             *)
Stops(m) ==
    /\ UNCHANGED <<link, inputs, ready, inbox, pool, peer>> /\ link[m] = "open" /\ TapTypes' /\ Tap!DiesOnly'
    /\ \A k \in Miners : k # m => entry'[k] = entry[k] /\ credit'[k] = credit[k]
    /\ \E got : Counted(m, got, got) /\ (got # {} => ToMiner(m) # <<>> /\ ToMiner(m)[1].kind = "ok")

LEMMA MatchingIs ==
    ASSUME Tap!TapAssumption, NEW u \in Entries, NEW done \in SUBSET Tap!Matching(u)
    PROVE  /\ done \subseteq Tap!Shares /\ IsFiniteSet(done)
           /\ Cardinality(done) \in Nat /\ Tap!Cardinality(done) = Cardinality(done)
           /\ \A n \in done : u.submitted[n] # 0 /\ u.submitted[n] = u.job
<1>1. done \subseteq Tap!Shares
  BY DEF Tap!Matching, Tap!Held
<1>2. IsFiniteSet(Tap!Shares)
  <2>1. MaxSubmits \in Int
    BY TapAllowed
  <2> QED
    BY ONLY <2>1, FS_Interval DEF Tap!Shares
<1>3. IsFiniteSet(done)
  BY <1>1, <1>2, FS_Subset
<1>4. Cardinality(done) \in Nat
  BY <1>3, FS_CardinalityType
<1>5. \A n \in done : u.submitted[n] # 0 /\ u.submitted[n] = u.job
  BY DEF Tap!Matching, Tap!Held
<1> QED
  BY <1>1, <1>3, <1>4, <1>5, TapSizes

LEMMA AnsweredIs ==
    ASSUME Tap!TapAssumption, NEW u \in Entries, NEW ok \in BOOLEAN, NEW done \in SUBSET Tap!Matching(u),
           NEW v, v = Tap!Answered(u, ok, done)
    PROVE  /\ v \in Entries /\ v.in = u.in /\ v.job = u.job /\ v.login = u.login /\ v.odd = u.odd
           /\ v.submitted = [n \in Tap!Shares |-> IF n \in done THEN 0 ELSE u.submitted[n]]
           /\ v.accepted = IF ok THEN u.accepted + Cardinality(done) ELSE u.accepted
<1> DEFINE stays == [n \in Tap!Shares |-> IF n \in done THEN 0 ELSE u.submitted[n]]
           c    == Cardinality(done)
           rest == [u EXCEPT !.submitted = stays]
<1>1. stays \in [Tap!Shares -> 0 .. LastJob] /\ c \in Nat /\ u.accepted \in Nat /\ u.rejected \in Nat
  BY EntryFields, TapAllowed, MatchingIs
<1>2. v = IF ok THEN [rest EXCEPT !.accepted = @ + c] ELSE [rest EXCEPT !.rejected = @ + c]
  <2>1. [u EXCEPT !.submitted = [n \in Tap!Shares |-> IF n \in done THEN 0 ELSE @[n]]] = rest
    BY DEF Entries
  <2> QED
    BY <2>1, MatchingIs DEF Tap!Answered
<1> HIDE DEF stays, c
<1>3. /\ rest \in Entries /\ rest.in = u.in /\ rest.job = u.job /\ rest.submitted = stays
      /\ rest.login = u.login /\ rest.odd = u.odd
      /\ rest.accepted = u.accepted /\ rest.rejected = u.rejected
  BY ONLY <1>1, u \in Entries DEF Entries
<1> HIDE DEF rest
<1>4. rest.accepted + c \in Nat /\ rest.rejected + c \in Nat
  BY ONLY <1>1, <1>3
<1>5. CASE ok
  <2>1. /\ v \in Entries /\ v.in = rest.in /\ v.job = rest.job /\ v.submitted = rest.submitted
        /\ v.login = rest.login /\ v.odd = rest.odd /\ v.accepted = rest.accepted + c
    BY ONLY <1>2, <1>3, <1>4, <1>5 DEF Entries
  <2> QED
    BY ONLY <1>3, <1>5, <2>1 DEF stays, c
<1>6. CASE ~ok
  <2>1. /\ v \in Entries /\ v.in = rest.in /\ v.job = rest.job /\ v.submitted = rest.submitted
        /\ v.login = rest.login /\ v.odd = rest.odd /\ v.accepted = rest.accepted
    BY ONLY <1>2, <1>3, <1>4, <1>6 DEF Entries
  <2> QED
    BY ONLY <1>3, <1>6, <2>1 DEF stays, c
<1> QED
  BY <1>5, <1>6

LEMMA EntryPut ==
    ASSUME TapTypes, NEW m \in Miners, NEW u \in Entries, entry' = [entry EXCEPT ![m] = u]
    PROVE  entry' \in [Miners -> Entries] /\ entry'[m] = u /\ \A k \in Miners : k # m => entry'[k] = entry[k]
BY DEF TapTypes

LEMMA CreditPut ==
    ASSUME TapTypes, NEW m \in Miners, NEW c \in [Tap!Shares -> Nat], credit' = [credit EXCEPT ![m] = c]
    PROVE  /\ credit' \in [Miners -> [Tap!Shares -> Nat]] /\ credit'[m] = c
           /\ \A k \in Miners : k # m => credit'[k] = credit[k]
BY DEF TapTypes

(* What is read along, as far as it is of an entry.                        *)
LEMMA ReadsIs ==
    ASSUME Tap!TapAssumption, NEW u \in Entries, NEW msg, msg.job \in 0 .. LastJob,
           NEW v, v = Tap!ReadsAlong(u, msg)
    PROVE  /\ v \in Entries /\ v.in = u.in /\ v.accepted = u.accepted
           /\ v.job = IF msg.kind = "job" THEN msg.job ELSE u.job
           /\ v.submitted = IF msg.kind = "submit" THEN [u.submitted EXCEPT ![msg.n] = msg.job] ELSE u.submitted
           /\ u.login \/ msg.kind = "login" => v.login
           /\ v.odd => u.odd \/ msg.kind = "odd"
<1> DEFINE stays == [u.submitted EXCEPT ![msg.n] = msg.job]
           j == msg.job
<1>1. stays \in [Tap!Shares -> 0 .. LastJob] /\ j \in 0 .. LastJob
  <2>1. u.submitted \in [Tap!Shares -> 0 .. LastJob]
    BY EntryFields
  <2> QED
    BY ONLY <2>1, msg.job \in 0 .. LastJob
<1>2. CASE msg.kind = "submit"
  <2>1. v = [u EXCEPT !.submitted = stays]
    <3>1. [u EXCEPT !.submitted[msg.n] = msg.job] = [u EXCEPT !.submitted = stays]
      BY DEF Entries
    <3> QED
      BY <1>2, <3>1 DEF Tap!ReadsAlong
  <2> HIDE DEF stays
  <2>2. /\ v \in Entries /\ v.in = u.in /\ v.accepted = u.accepted /\ v.job = u.job /\ v.submitted = stays
        /\ v.login = u.login /\ v.odd = u.odd
    BY ONLY <1>1, <2>1, u \in Entries DEF Entries
  <2> QED
    BY ONLY <1>2, <2>2 DEF stays
<1> HIDE DEF stays
<1>3. CASE msg.kind = "job"
  <2>1. v = [u EXCEPT !.job = j]
    BY <1>3 DEF Tap!ReadsAlong
  <2> HIDE DEF j
  <2>2. /\ v \in Entries /\ v.in = u.in /\ v.accepted = u.accepted /\ v.job = j /\ v.submitted = u.submitted
        /\ v.login = u.login /\ v.odd = u.odd
    BY ONLY <1>1, <2>1, u \in Entries DEF Entries
  <2> QED
    BY ONLY <1>3, <2>2 DEF j
<1>4. CASE msg.kind = "login"
  <2>1. v = [u EXCEPT !.login = TRUE]
    BY <1>4 DEF Tap!ReadsAlong
  <2>2. /\ v \in Entries /\ v.in = u.in /\ v.accepted = u.accepted /\ v.job = u.job /\ v.submitted = u.submitted
        /\ v.login /\ v.odd = u.odd
    BY ONLY <2>1, u \in Entries DEF Entries
  <2> QED
    BY ONLY <1>4, <2>2
<1>5. CASE msg.kind = "odd"
  <2>1. v = [u EXCEPT !.odd = TRUE]
    BY <1>5 DEF Tap!ReadsAlong
  <2>2. /\ v \in Entries /\ v.in = u.in /\ v.accepted = u.accepted /\ v.job = u.job /\ v.submitted = u.submitted
        /\ v.login = u.login
    BY ONLY <2>1, u \in Entries DEF Entries
  <2> QED
    BY ONLY <1>5, <2>2
<1>6. CASE msg.kind \notin {"submit", "job", "login", "odd"}
  <2>1. v = u
    BY <1>6 DEF Tap!ReadsAlong
  <2> QED
    BY ONLY <1>6, <2>1, u \in Entries
<1> QED
  BY <1>2, <1>3, <1>4, <1>5, <1>6

(* Of an OK, all that matches is recorded, unless the login was not read.  *)
LEMMA RecordedIs ==
    ASSUME TapInv, NEW m \in Miners, link[m] = "open", NEW got \in Tap!Recorded(entry[m])
    PROVE  got \subseteq Tap!Matching(entry[m]) /\ (Pieces \/ StoreFails \/ got = Tap!Matching(entry[m]))
<1>1. got \subseteq Tap!Matching(entry[m])
  BY DEF Tap!Recorded
<1>2. CASE entry[m].login
  <2>1. \A k \in Tap!Matching(entry[m]) : k \in got \/ StoreFails
    BY <1>2 DEF Tap!Recorded, Tap!Unseen
  <2> QED
    BY ONLY <1>1, <2>1
<1>3. CASE ~entry[m].login /\ ~Pieces
  <2>1. \A n \in Tap!Shares : entry[m].submitted[n] = 0
    BY <1>3 DEF TapInv, NamedInv, NamedOf, Mute
  <2>2. Tap!Matching(entry[m]) = {}
    BY <2>1 DEF Tap!Matching, Tap!Held
  <2> QED
    BY <1>1, <2>2
<1> QED
  BY <1>1, <1>2, <1>3

LEMMA PutCounted ==
    ASSUME Tap!TapAssumption, TapTypes, NEW m \in Miners, NEW ok \in BOOLEAN,
           NEW done \in SUBSET Tap!Matching(entry[m]), NEW got \in SUBSET done,
           entry' = [entry EXCEPT ![m] = Tap!Answered(entry[m], ok, done)], Tap!Credits(m, got),
           ok => Pieces \/ StoreFails \/ got = done, ~ok => got = {}
    PROVE  /\ entry' \in [Miners -> Entries] /\ credit' \in [Miners -> [Tap!Shares -> Nat]]
           /\ \A k \in Miners : k # m => entry'[k] = entry[k] /\ credit'[k] = credit[k]
           /\ Counted(m, got, done)
<1>1. entry[m] \in Entries /\ credit[m] \in [Tap!Shares -> Nat]
  BY TapParts
<1> DEFINE v == Tap!Answered(entry[m], ok, done)
           c == [n \in Tap!Shares |-> IF n \in got THEN credit[m][n] + 1 ELSE credit[m][n]]
<1>2. /\ v \in Entries /\ v.in = entry[m].in /\ v.job = entry[m].job /\ v.login = entry[m].login /\ v.odd = entry[m].odd
      /\ v.submitted = [n \in Tap!Shares |-> IF n \in done THEN 0 ELSE entry[m].submitted[n]]
      /\ v.accepted = IF ok THEN entry[m].accepted + Cardinality(done) ELSE entry[m].accepted
  BY <1>1, AnsweredIs
<1>3. entry' = [entry EXCEPT ![m] = v]
  OBVIOUS
<1>4. c \in [Tap!Shares -> Nat] /\ credit' = [credit EXCEPT ![m] = c]
  BY <1>1 DEF Tap!Credits
<1> HIDE DEF v, c
<1>5. entry' \in [Miners -> Entries] /\ entry'[m] = v /\ \A k \in Miners : k # m => entry'[k] = entry[k]
  BY ONLY <1>2, <1>3, EntryPut, TapTypes, m \in Miners
<1>6. /\ credit' \in [Miners -> [Tap!Shares -> Nat]] /\ credit'[m] = c
      /\ \A k \in Miners : k # m => credit'[k] = credit[k]
  BY ONLY <1>4, CreditPut, TapTypes, m \in Miners
<1>7. Counted(m, got, done)
  BY <1>2, <1>5, <1>6 DEF Counted, c
<1> QED
  BY <1>5, <1>6, <1>7

LEMMA RecvFacts ==
    ASSUME Tap!TapAssumption, TapInv, NEW m \in Miners, NEW side \in Tap!Sides, Tap!Reading(<<m, side>>)
    PROVE  /\ link[m] = "open" /\ death = "none" /\ ready # <<>> /\ inbox[<<m, side>>] # <<>>
           /\ Head(inbox[<<m, side>>]).kind \in Tap!Speech
<1>1. TapTypes /\ ListedOnce
  BY DEF TapInv
<1>2. Lists(inputs, <<m, side>>)
  BY InRange DEF Tap!Reading
<1> QED
  BY <1>1, <1>2 DEF Tap!Reading, Tap!Alive, ListedOnce, Lists

Recvd(m, side, reads, msg) ==
    /\ link' = link /\ inputs' = inputs /\ ready' = Tail(ready)
    /\ inbox' = [inbox EXCEPT ![<<m, side>>] = Tail(@)]
    /\ IF reads /\ msg.kind \in Tap!Statuses
       THEN /\ entry' = [entry EXCEPT ![m] = Tap!Answered(entry[m], msg.kind = "ok", Tap!Matching(entry[m]))]
            /\ \E got \in IF msg.kind = "ok" THEN Tap!Recorded(entry[m]) ELSE {{}} : Tap!Credits(m, got)
       ELSE /\ entry' = IF reads THEN [entry EXCEPT ![m] = Tap!ReadsAlong(entry[m], msg)] ELSE entry
            /\ credit' = credit
    /\ Tap!Delivered(<<m, side>>, msg)
    /\ death' \in {"none", "pipe"} /\ (death' = "pipe" => Resets)
    /\ reads /\ msg.kind \in Tap!Statuses => entry[m].job # 0 \/ Tap!Held(entry[m]) = {}

LEMMA RecvCases ==
    ASSUME NEW m \in Miners, NEW side \in Tap!Sides, NEW whole \in {TRUE, ~Pieces}, Tap!OnRecv(<<m, side>>, whole)
    PROVE  Recvd(m, side, whole /\ entry[m].in, Head(inbox[<<m, side>>]))
<1> DEFINE s     == <<m, side>>
           msg   == Head(inbox[s])
           reads == whole /\ entry[m].in
<1>1. s[1] = m
  OBVIOUS
<1>2. /\ link' = link /\ inputs' = inputs /\ ready' = Tail(ready)
      /\ inbox' = [inbox EXCEPT ![s] = Tail(@)]
      /\ ~(reads /\ Tap!NoJob(entry[m], msg))
      /\ IF reads /\ msg.kind \in Tap!Statuses
         THEN /\ entry' = [entry EXCEPT ![m] = Tap!Answered(entry[m], msg.kind = "ok", Tap!Matching(entry[m]))]
              /\ \E got \in IF msg.kind = "ok" THEN Tap!Recorded(entry[m]) ELSE {{}} : Tap!Credits(m, got)
         ELSE /\ entry' = IF reads THEN [entry EXCEPT ![m] = Tap!ReadsAlong(entry[m], msg)] ELSE entry
              /\ credit' = credit
      /\ Tap!Delivered(s, msg)
      /\ death' \in {"none"} \cup (IF Tap!Other(s)[2] \in peer[m].gone /\ Resets THEN {"pipe"} ELSE {})
  BY <1>1, Zenon DEF Tap!OnRecv
<1>3. death' \in {"none", "pipe"} /\ (death' = "pipe" => Resets)
  BY <1>2
<1>4. reads /\ msg.kind \in Tap!Statuses => entry[m].job # 0 \/ Tap!Held(entry[m]) = {}
  BY <1>2 DEF Tap!NoJob
<1> QED
  BY <1>2, <1>3, <1>4 DEF Recvd

(* What is kept of a message.                                              *)
LEMMA KeptIs ==
    ASSUME Tap!TapAssumption, TapInv, NEW m \in Miners, NEW side, NEW reads \in BOOLEAN, NEW msg,
           link[m] = "open", msg.job \in 0 .. LastJob, Recvd(m, side, reads, msg), msg.kind = "odd" => Oddities
    PROVE  /\ entry' \in [Miners -> Entries] /\ credit' \in [Miners -> [Tap!Shares -> Nat]]
           /\ \A k \in Miners : k # m => entry'[k] = entry[k] /\ credit'[k] = credit[k]
           /\ Kept(m, msg, reads)
<1>0. TapTypes /\ entry[m] \in Entries /\ credit[m] \in [Tap!Shares -> Nat]
  BY TapParts DEF TapInv
<1>1. CASE reads /\ msg.kind \in {"ok", "refused"}
  <2>1. /\ entry' = [entry EXCEPT ![m] = Tap!Answered(entry[m], msg.kind = "ok", Tap!Matching(entry[m]))]
        /\ \E got \in IF msg.kind = "ok" THEN Tap!Recorded(entry[m]) ELSE {{}} : Tap!Credits(m, got)
    BY <1>1 DEF Recvd, Tap!Statuses
  <2>2. PICK got \in IF msg.kind = "ok" THEN Tap!Recorded(entry[m]) ELSE {{}} : Tap!Credits(m, got)
    BY <2>1
  <2> DEFINE ok == msg.kind = "ok"
             done == Tap!Matching(entry[m])
  <2>3. /\ got \subseteq done /\ ok \in BOOLEAN /\ (~ok => got = {})
        /\ ok => Pieces \/ StoreFails \/ got = done
    BY <2>2, RecordedIs
  <2>4. entry' = [entry EXCEPT ![m] = Tap!Answered(entry[m], ok, done)]
    BY <2>1
  <2> HIDE DEF ok, done
  <2>5. done = Tap!Matching(entry[m])
    BY DEF done
  <2>6. /\ entry' \in [Miners -> Entries] /\ credit' \in [Miners -> [Tap!Shares -> Nat]]
        /\ \A k \in Miners : k # m => entry'[k] = entry[k] /\ credit'[k] = credit[k]
        /\ Counted(m, got, done)
    BY <1>0, <2>2, <2>3, <2>4, <2>5, PutCounted
  <2> QED
    BY <1>1, <2>3, <2>5, <2>6 DEF Kept, ok
<1>2. CASE ~(reads /\ msg.kind \in {"ok", "refused"})
  <2> DEFINE v == IF reads THEN Tap!ReadsAlong(entry[m], msg) ELSE entry[m]
  <2>1. credit' = credit /\ entry' = [entry EXCEPT ![m] = v]
    <3>1. /\ credit' = credit
          /\ entry' = IF reads THEN [entry EXCEPT ![m] = Tap!ReadsAlong(entry[m], msg)] ELSE entry
      BY <1>2, Zenon DEF Recvd, Tap!Statuses
    <3>2. entry = [entry EXCEPT ![m] = entry[m]]
      BY <1>0 DEF TapTypes
    <3> QED
      BY <3>1, <3>2
  <2>2. /\ v \in Entries /\ v.in = entry[m].in /\ v.accepted = entry[m].accepted
        /\ v.job = IF reads /\ msg.kind = "job" THEN msg.job ELSE entry[m].job
        /\ v.submitted = IF reads /\ msg.kind = "submit" THEN [entry[m].submitted EXCEPT ![msg.n] = msg.job]
                         ELSE entry[m].submitted
        /\ entry[m].login \/ (reads /\ msg.kind = "login") => v.login
        /\ v.odd => entry[m].odd \/ Oddities
    <3>1. CASE reads
      <4>1. v = Tap!ReadsAlong(entry[m], msg)
        BY <3>1
      <4> HIDE DEF v
      <4> QED
        BY <1>0, <3>1, <4>1, ReadsIs
    <3>2. CASE ~reads
      BY <1>0, <3>2
    <3> QED
      BY <3>1, <3>2
  <2> HIDE DEF v
  <2>3. entry' \in [Miners -> Entries] /\ entry'[m] = v /\ \A k \in Miners : k # m => entry'[k] = entry[k]
    BY ONLY <1>0, <2>1, <2>2, EntryPut, m \in Miners
  <2>4. Kept(m, msg, reads)
    BY <1>2, <2>1, <2>2, <2>3 DEF Kept, EntryWith
  <2> QED
    BY <1>0, <2>1, <2>3, <2>4 DEF TapTypes
<1> QED
  BY <1>1, <1>2

LEMMA UpwardIs ==
    ASSUME Tap!TapAssumption, TapInv, NEW m \in Miners, NEW reads \in BOOLEAN, NEW msg,
           link[m] = "open", death = "none", ready # <<>>, inbox[<<m, "miner">>] # <<>>,
           msg = Head(inbox[<<m, "miner">>]), msg.kind \in Tap!Speech, Recvd(m, "miner", reads, msg)
    PROVE  Passed(m, msg, reads)
<1>0. TapTypes /\ Accidents /\ "miner" \in Tap!Sides /\ MaxSubmits \in Nat
  BY TapAllowed DEF TapInv, Tap!Sides
<1>1. ToProxy(m) # <<>> /\ msg = ToProxy(m)[1] /\ msg \in FromMiner /\ Fair(msg)
  BY <1>0, HeadIs
<1>2. msg.kind \in {"login", "submit", "odd"} /\ msg.n \in 0 .. MaxSubmits /\ msg.job \in 0 .. LastJob
  BY <1>1 DEF FromMiner, Tap!Speech, Tap!Statuses
<1>3. msg.kind = "odd" => Oddities
  BY <1>1 DEF Fair
<1>4. /\ inbox' = [s \in Tap!Sockets |-> inbox'[s]]
      /\ \A k \in Miners : ToProxy(k)' \in Seq(FromMiner) /\ ToMiner(k)' \in Seq(FromPool)
      /\ \A k \in Miners : k # m => ToProxy(k)' = ToProxy(k) /\ ToMiner(k)' = ToMiner(k)
      /\ ToProxy(m)' = Tail(ToProxy(m)) /\ ToMiner(m)' = ToMiner(m)
  <2>1. inbox' = [inbox EXCEPT ![<<m, "miner">>] = Tail(@)]
    BY DEF Recvd
  <2> QED
    BY <1>0, <2>1, TakenFrom
<1>5. /\ entry' \in [Miners -> Entries] /\ credit' \in [Miners -> [Tap!Shares -> Nat]]
      /\ \A k \in Miners : k # m => entry'[k] = entry[k] /\ credit'[k] = credit[k]
      /\ Kept(m, msg, reads)
  BY <1>2, <1>3, KeptIs
<1>6. /\ pool' \in [Miners -> PoolEnds] /\ peer' \in [Miners -> PeerEnds]
      /\ \A k \in Miners : k # m => pool'[k] = pool[k] /\ peer'[k] = peer[k]
      /\ Upward(m, msg) \/ Oddly(m, msg)
  <2>1. CASE msg.kind = "odd"
    <3>1. pool' = pool /\ peer' = peer
      BY <2>1 DEF Recvd, Tap!Delivered
    <3> QED
      BY <1>0, <1>1, <1>4, <2>1, <3>1 DEF Oddly, FromOne, TapTypes
  <2>2. CASE msg.kind # "odd"
    <3> DEFINE d == Append(pool[m].due, msg.n)
    <3>1. peer' = peer /\ pool' = [pool EXCEPT ![m].due = d]
      BY <2>2 DEF Recvd, Tap!Delivered
    <3>2. d \in Seq(0 .. MaxSubmits) /\ pool[m] \in PoolEnds
      <4>1. pool[m].due \in Seq(0 .. MaxSubmits) /\ pool[m] \in PoolEnds
        BY <1>0, TapParts, PoolIs
      <4> QED
        BY ONLY <1>2, <4>1
    <3> HIDE DEF d
    <3> DEFINE p == [pool[m] EXCEPT !.due = d]
    <3>3. p \in PoolEnds /\ p.due = d /\ p.job = pool[m].job /\ p.took = pool[m].took
      BY ONLY <3>2 DEF PoolEnds
    <3>4. pool' = [pool EXCEPT ![m] = p]
      BY <3>1
    <3> HIDE DEF p
    <3>5. pool' \in [Miners -> PoolEnds] /\ pool'[m] = p /\ \A k \in Miners : k # m => pool'[k] = pool[k]
      BY ONLY <1>0, <3>3, <3>4, PoolPut, m \in Miners
    <3>6. pool'[m].due = Append(pool[m].due, msg.n) /\ pool'[m].job = pool[m].job /\ pool'[m].took = pool[m].took
      BY ONLY <3>3, <3>5 DEF d
    <3>7. Upward(m, msg)
      BY <1>1, <1>2, <1>4, <2>2, <3>1, <3>6 DEF Upward, FromOne
    <3> QED
      BY <1>0, <3>1, <3>5, <3>7 DEF TapTypes
  <2> QED
    BY <2>1, <2>2
<1>7. /\ link' = link /\ inputs' = inputs /\ ready' = Tail(ready)
      /\ death' \in {"none", "pipe"} /\ (death' = "pipe" => Resets)
  BY DEF Recvd
<1>8. ready' \in Seq(Tap!Sockets \cup {Tap!Server})
  <2>1. ready \in Seq(Tap!Sockets \cup {Tap!Server})
    BY <1>0 DEF TapTypes
  <2> QED
    BY ONLY <1>7, <2>1, ready # <<>>, FrontOff
<1>9. TapTypes'
  BY <1>0, <1>4, <1>5, <1>6, <1>7, <1>8 DEF TapTypes
<1>10. Passes1(m)
  BY <1>4, <1>5, <1>6, <1>7 DEF Passes1
<1> QED
  BY <1>2, <1>3, <1>5, <1>6, <1>9, <1>10 DEF Passed

LEMMA DownwardIs ==
    ASSUME Tap!TapAssumption, TapInv, NEW m \in Miners, NEW reads \in BOOLEAN, NEW msg,
           link[m] = "open", death = "none", ready # <<>>, inbox[<<m, "pool">>] # <<>>,
           msg = Head(inbox[<<m, "pool">>]), msg.kind \in Tap!Speech, Recvd(m, "pool", reads, msg)
    PROVE  Passed(m, msg, reads)
<1>0. TapTypes /\ Accidents /\ "pool" \in Tap!Sides /\ MaxSubmits \in Nat
  BY TapAllowed DEF TapInv, Tap!Sides
<1>1. ToMiner(m) # <<>> /\ msg = ToMiner(m)[1] /\ msg \in FromPool /\ Fair(msg)
  BY <1>0, HeadIs
<1>2. msg.kind \in {"welcome", "job", "ok", "refused", "error", "odd"} /\ msg.job \in 0 .. LastJob
  BY <1>1 DEF FromPool, Tap!Speech, Tap!Statuses
<1>3. msg.kind = "odd" => Oddities
  BY <1>1 DEF Fair
<1>4. /\ inbox' = [s \in Tap!Sockets |-> inbox'[s]]
      /\ \A k \in Miners : ToProxy(k)' \in Seq(FromMiner) /\ ToMiner(k)' \in Seq(FromPool)
      /\ \A k \in Miners : k # m => ToProxy(k)' = ToProxy(k) /\ ToMiner(k)' = ToMiner(k)
      /\ ToMiner(m)' = Tail(ToMiner(m)) /\ ToProxy(m)' = ToProxy(m)
  <2>1. inbox' = [inbox EXCEPT ![<<m, "pool">>] = Tail(@)]
    BY DEF Recvd
  <2> QED
    BY <1>0, <2>1, TakenFrom
<1>5. /\ entry' \in [Miners -> Entries] /\ credit' \in [Miners -> [Tap!Shares -> Nat]]
      /\ \A k \in Miners : k # m => entry'[k] = entry[k] /\ credit'[k] = credit[k]
      /\ Kept(m, msg, reads)
  BY <1>2, <1>3, KeptIs
<1>6. /\ pool' = pool /\ peer' \in [Miners -> PeerEnds]
      /\ \A k \in Miners : k # m => peer'[k] = peer[k]
      /\ Downward(m, msg) \/ Oddly(m, msg)
  <2>1. CASE msg.kind = "odd"
    <3>1. pool' = pool /\ peer' = peer
      BY <2>1 DEF Recvd, Tap!Delivered
    <3> QED
      BY <1>0, <1>1, <1>4, <2>1, <3>1 DEF Oddly, FromTheOther, TapTypes
  <2>2. CASE msg.kind # "odd"
    <3> DEFINE j == IF msg.kind \in {"welcome", "job"} THEN msg.job ELSE peer[m].job
               w == IF msg.kind = "job" THEN peer[m].waits ELSE FALSE
    <3>1. pool' = pool /\ peer' = [peer EXCEPT ![m].job = j, ![m].waits = w]
      BY <2>2 DEF Recvd, Tap!Delivered
    <3>2. j \in 0 .. LastJob /\ w \in BOOLEAN /\ peer[m] \in PeerEnds
      <4>1. peer[m] \in PeerEnds
        BY <1>0, TapParts
      <4> QED
        BY <1>2, <4>1, PeerIs DEF PeerEnds
    <3>3. IF msg.kind = "job" THEN w = peer[m].waits ELSE ~w
      OBVIOUS
    <3> HIDE DEF j, w
    <3> DEFINE p == [peer[m] EXCEPT !.job = j, !.waits = w]
    <3>4. p \in PeerEnds /\ p.sent = peer[m].sent /\ p.job = j /\ p.waits = w
      BY ONLY <3>2 DEF PeerEnds
    <3>5. peer' = [peer EXCEPT ![m] = p]
      BY <3>1
    <3> HIDE DEF p
    <3>6. peer' \in [Miners -> PeerEnds] /\ peer'[m] = p /\ \A k \in Miners : k # m => peer'[k] = peer[k]
      BY ONLY <1>0, <3>4, <3>5, PeerPut, m \in Miners
    <3>7. /\ peer'[m].sent = peer[m].sent
          /\ peer'[m].job = IF msg.kind \in {"welcome", "job"} THEN msg.job ELSE peer[m].job
          /\ IF msg.kind = "job" THEN peer'[m].waits = peer[m].waits ELSE ~peer'[m].waits
      BY ONLY <3>3, <3>4, <3>6 DEF j
    <3>8. Downward(m, msg)
      BY <1>1, <1>2, <1>4, <2>2, <3>1, <3>7 DEF Downward, FromTheOther
    <3> QED
      BY <3>1, <3>6, <3>8
  <2> QED
    BY <2>1, <2>2
<1>7. /\ link' = link /\ inputs' = inputs /\ ready' = Tail(ready)
      /\ death' \in {"none", "pipe"} /\ (death' = "pipe" => Resets)
      /\ reads /\ msg.kind \in {"ok", "refused"} => entry[m].job # 0 \/ Tap!Held(entry[m]) = {}
  BY DEF Recvd, Tap!Statuses
<1>8. ready' \in Seq(Tap!Sockets \cup {Tap!Server})
  <2>1. ready \in Seq(Tap!Sockets \cup {Tap!Server})
    BY <1>0 DEF TapTypes
  <2> QED
    BY ONLY <1>7, <2>1, ready # <<>>, FrontOff
<1>9. TapTypes'
  BY <1>0, <1>4, <1>5, <1>6, <1>7, <1>8 DEF TapTypes
<1>10. Passes1(m)
  BY <1>4, <1>5, <1>6, <1>7 DEF Passes1
<1> QED
  BY <1>3, <1>5, <1>6, <1>7, <1>9, <1>10 DEF Passed

(* A message is passed on, whole where messages are.                       *)
LEMMA RecvIs ==
    ASSUME Tap!TapAssumption, TapInv, NEW m \in Miners, NEW side \in Tap!Sides,
           NEW whole \in {TRUE, ~Pieces}, Tap!OnRecv(<<m, side>>, whole)
    PROVE  \E reads, msg : reads \in BOOLEAN /\ (~Pieces => reads) /\ Passed(m, msg, reads)
<1> DEFINE msg   == Head(inbox[<<m, side>>])
           reads == whole /\ entry[m].in
<1>1. /\ link[m] = "open" /\ death = "none" /\ ready # <<>> /\ inbox[<<m, side>>] # <<>>
      /\ msg.kind \in Tap!Speech
  <2>1. Tap!Reading(<<m, side>>)
    BY DEF Tap!OnRecv
  <2> QED
    BY <2>1, RecvFacts
<1>2. Recvd(m, side, reads, msg)
  BY RecvCases
<1>3. reads \in BOOLEAN /\ (~Pieces => reads)
  <2>1. ~Pieces => entry[m].in
    BY <1>1 DEF TapInv, NamedInv, NamedOf
  <2>2. entry[m].in \in BOOLEAN /\ Pieces \in BOOLEAN
    BY TapAllowed, TapParts, EntryFields DEF TapInv
  <2> QED
    BY <2>1, <2>2
<1>4. msg = Head(inbox[<<m, side>>])
  OBVIOUS
<1> HIDE DEF msg, reads
<1>5. Passed(m, msg, reads)
  <2>1. CASE side = "miner"
    BY <1>1, <1>2, <1>3, <1>4, <2>1, UpwardIs
  <2>2. CASE side = "pool"
    BY <1>1, <1>2, <1>3, <1>4, <2>2, DownwardIs
  <2> QED
    BY <2>1, <2>2 DEF Tap!Sides
<1> QED
  BY <1>3, <1>5

(* An exception while it reads along.                                      *)
LEMMA FailsIs ==
    ASSUME Tap!TapAssumption, TapInv, NEW m \in Miners, NEW side \in Tap!Sides, Tap!RecvFails(<<m, side>>)
    PROVE  Rests \/ Stops(m)
<1> DEFINE msg == Head(inbox[<<m, side>>])
<1>0. TapTypes /\ Accidents
  BY DEF TapInv
<1>1. link[m] = "open" /\ inbox[<<m, side>>] # <<>> /\ UNCHANGED <<link, inputs, ready, inbox, pool, peer>>
  <2>1. Tap!Reading(<<m, side>>) /\ UNCHANGED <<link, inputs, ready, inbox, pool, peer>>
    BY DEF Tap!RecvFails
  <2> QED
    BY <2>1, RecvFacts
<1>2. /\ Fair(msg)
      /\ side = "miner" => msg \in FromMiner
      /\ side = "pool" => ToMiner(m) # <<>> /\ msg = ToMiner(m)[1]
  BY <1>0, <1>1, HeadIs
<1>3. \/ /\ UNCHANGED <<entry, credit>>
         /\ (Tap!NoJob(entry[m], msg) /\ death' = "no job") \/ (msg.kind = "odd" /\ death' = "message")
      \/ /\ (entry[m].odd /\ death' = "message") \/ (StoreFails /\ death' = "store")
         /\ msg.kind \in Tap!Statuses
         /\ \E got \in IF msg.kind = "ok" THEN Tap!Begun(entry[m]) ELSE {{}} :
              entry' = [entry EXCEPT ![m] = Tap!Answered(entry[m], TRUE, got)] /\ Tap!Credits(m, got)
  <2>1. <<m, side>>[1] = m
    OBVIOUS
  <2> QED
    BY <2>1, Zenon DEF Tap!RecvFails, Tap!Statuses
<1>4. CASE /\ UNCHANGED <<entry, credit>>
           /\ (Tap!NoJob(entry[m], msg) /\ death' = "no job") \/ (msg.kind = "odd" /\ death' = "message")
  <2>1. entry' = entry /\ (msg.kind = "odd" => Oddities)
    BY <1>2, <1>4 DEF Fair
  <2>2. CASE Tap!NoJob(entry[m], msg) /\ death' = "no job"
    <3>1. entry'[m].job = 0 /\ Tap!Held(entry'[m]) # {}
      BY <2>1, <2>2 DEF Tap!NoJob
    <3>2. Tap!DiesOnly'
      <4>1. \E k \in Miners : entry'[k].job = 0 /\ Tap!Held(entry'[k]) # {}
        BY <3>1
      <4> QED
        BY ONLY <2>2, <4>1 DEF Tap!DiesOnly, Tap!Held, Tap!Shares
    <3> QED
      BY <1>1, <1>4, <2>2, <3>2, EndsOf
  <2>3. CASE msg.kind = "odd" /\ death' = "message"
    <3>1. Tap!DiesOnly'
      BY ONLY <2>1, <2>3 DEF Tap!DiesOnly
    <3> QED
      BY <1>1, <1>4, <2>3, <3>1, EndsOf
  <2> QED
    BY <1>4, <2>2, <2>3
<1>5. CASE /\ (entry[m].odd /\ death' = "message") \/ (StoreFails /\ death' = "store")
           /\ msg.kind \in Tap!Statuses
           /\ \E got \in IF msg.kind = "ok" THEN Tap!Begun(entry[m]) ELSE {{}} :
                entry' = [entry EXCEPT ![m] = Tap!Answered(entry[m], TRUE, got)] /\ Tap!Credits(m, got)
  <2>1. PICK got \in IF msg.kind = "ok" THEN Tap!Begun(entry[m]) ELSE {{}} :
          entry' = [entry EXCEPT ![m] = Tap!Answered(entry[m], TRUE, got)] /\ Tap!Credits(m, got)
    BY <1>5
  <2>2. got \subseteq Tap!Matching(entry[m]) /\ (got # {} => msg.kind = "ok")
    BY <2>1 DEF Tap!Begun
  <2>3. /\ entry' \in [Miners -> Entries] /\ credit' \in [Miners -> [Tap!Shares -> Nat]]
        /\ \A k \in Miners : k # m => entry'[k] = entry[k] /\ credit'[k] = credit[k]
        /\ Counted(m, got, got)
    BY <1>0, <2>1, <2>2, PutCounted
  <2>4. side = "pool"
    <3>1. side = "miner" => msg.kind \notin {"ok", "refused"}
      BY <1>2 DEF FromMiner
    <3> QED
      BY <1>5, <3>1 DEF Tap!Statuses, Tap!Sides
  <2>5. Tap!DiesOnly' /\ death' \in {"message", "store"}
    <3>1. entry[m].odd => Oddities
      BY <1>0 DEF Accidents
    <3> QED
      BY ONLY <1>5, <3>1 DEF Tap!DiesOnly
  <2>6. \A k \in Miners : ToProxy(k)' = ToProxy(k) /\ ToMiner(k)' = ToMiner(k)
    BY <1>1 DEF ToProxy, ToMiner
  <2>7. TapTypes'
    <3>1. link' = link /\ inputs' = inputs /\ ready' = ready /\ inbox' = inbox /\ pool' = pool /\ peer' = peer
      BY <1>1
    <3> QED
      BY ONLY <1>0, <2>3, <2>5, <2>6, <3>1 DEF TapTypes
  <2> QED
    BY <1>1, <1>2, <2>2, <2>3, <2>4, <2>5, <2>7 DEF Stops
<1> QED
  BY <1>3, <1>4, <1>5

(* The rounds of select, and the ends.                                     *)
LEMMA SelectKeeps ==
    ASSUME TapInv, Tap!Select
    PROVE  TapInv'
<1>0. TapTypes /\ ListedOnce /\ Accidents
  BY DEF TapInv
<1>1. /\ UNCHANGED <<link, inputs, entry, inbox, pool, peer, credit, death>>
      /\ ready' \in Seq(Tap!Sockets \cup {Tap!Server})
      /\ \A i, j \in DOMAIN ready' : ready'[i] = ready'[j] => i = j
      /\ \A i \in DOMAIN ready' : \E j \in DOMAIN inputs : inputs[j] = ready'[i]
  BY <1>0, Selected
<1>2. RoundOf'
  BY ONLY <1>1 DEF RoundOf
<1>3. Tap!DiesOnly' /\ death' = death
  BY ONLY <1>0, <1>1 DEF Accidents, Tap!DiesOnly, Tap!Full, Tap!Held, Tap!Shares
<1>4. Rests
  BY <1>0, <1>1, <1>2, <1>3 DEF Rests, TapTypes
<1> QED
  BY <1>4, RestKeeps

LEMMA EndsKeep ==
    ASSUME Tap!TapAssumption, TapInv, Tap!Ends
    PROVE  TapInv'
<1>0. TapTypes /\ ListedOnce /\ RoundOf /\ Accidents /\ SharesOnce /\ NamedInv
  BY DEF TapInv
<1>1. TapTypes' /\ ListedOnce' /\ RoundOf'
  BY <1>0, EndsTyped, EndsListed
<1>2. PICK m \in Miners : EndStep(m)
  BY <1>0, EndsStep
<1>3. Accidents' /\ SharesOnce' /\ NamedInv'
  BY <1>0, <1>1, <1>2, EndsAccidents, EndsOnce, NamedEnds
<1> QED
  BY <1>1, <1>3 DEF TapInv

(* A message passed on changes no list, and is taken from where it was.    *)
Submitting(q) == {i \in DOMAIN q : q[i].kind = "submit"}

LEMMA PassedListed ==
    ASSUME TapInv, NEW m \in Miners, Passes1(m)
    PROVE  ListedOnce' /\ RoundOf'
<1>0. TapTypes /\ ListedOnce /\ RoundOf
  BY DEF TapInv
<1>1. link' = link /\ inputs' = inputs /\ ready # <<>> /\ ready' = Tail(ready)
  BY DEF Passes1
<1>2. ready \in Seq(Tap!Sockets \cup {Tap!Server}) /\ Distinct(ready)
  BY <1>0 DEF TapTypes, RoundOf, Distinct
<1>3. Distinct(ready') /\ \A x : Lists(ready', x) => Lists(ready, x)
  BY ONLY <1>1, <1>2, TailOf
<1>4. ListedOnce'
  BY ONLY <1>0, <1>1 DEF ListedOnce
<1>5. ~Hellos => \A i \in DOMAIN ready : \E j \in DOMAIN inputs : inputs[j] = ready[i]
  BY <1>0 DEF RoundOf
<1>6. RoundOf'
  BY ONLY <1>1, <1>3, <1>5 DEF RoundOf, Distinct, Lists
<1> QED
  BY <1>4, <1>6

LEMMA PassedAccidents ==
    ASSUME TapInv, NEW m \in Miners, NEW msg, NEW reads, Passed(m, msg, reads)
    PROVE  Accidents'
<1>0. TapTypes /\ Accidents
  BY DEF TapInv
<1>1. /\ death' \in {"none", "pipe"} /\ (death' = "pipe" => Resets)
      /\ \A k \in Miners : k # m => ToProxy(k)' = ToProxy(k) /\ ToMiner(k)' = ToMiner(k) /\ entry'[k] = entry[k]
  BY DEF Passed, Passes1
<1>2. Follows(ToProxy(m), ToProxy(m)') /\ Follows(ToMiner(m), ToMiner(m)')
  BY DEF Passed, Upward, Downward, Oddly, FromOne, FromTheOther, Follows
<1>3. entry'[m].odd => entry[m].odd \/ Oddities
  <2>1. Kept(m, msg, reads)
    BY DEF Passed
  <2> QED
    BY ONLY <2>1 DEF Kept, Counted, EntryWith
<1>4. Tap!DiesOnly'
  BY ONLY <1>1 DEF Tap!DiesOnly
<1>5. \A k \in Miners : entry'[k].odd => entry[k].odd \/ Oddities
  BY <1>1, <1>3
<1>6. \A k \in Miners : k # m => ToProxy(k)' = ToProxy(k) /\ ToMiner(k)' = ToMiner(k)
  BY <1>1
<1> QED
  BY ONLY <1>0, <1>2, <1>4, <1>5, <1>6, m \in Miners, FairStays

(* What is on its way is on its way once less.                             *)
LEMMA OnceTaken ==
    ASSUME NEW l, NEW u, NEW sent, NEW c, NEW q \in Seq(FromMiner), q # <<>>,
           OnceOf(l, u, sent, c, q, Submitting(q))
    PROVE  /\ OnceOf(l, u, sent, c, Tail(q), Submitting(Tail(q)))
           /\ q[1].kind = "submit" => \A i \in Submitting(Tail(q)) : Tail(q)[i].n # q[1].n
<1>1. /\ 1 \in DOMAIN q
      /\ \A i \in DOMAIN Tail(q) : i \in Nat /\ i + 1 \in DOMAIN q /\ i + 1 > 1 /\ Tail(q)[i] = q[i + 1]
  <2>1. Tail(q) \in Seq(FromMiner)
    BY FrontOff
  <2> QED
    BY <2>1, FrontOff, LenProperties
<1>2. \A i \in Submitting(Tail(q)) : /\ i \in Nat /\ i + 1 \in Submitting(q) /\ i + 1 # 1
                                     /\ Tail(q)[i] = q[i + 1]
  BY ONLY <1>1 DEF Submitting
<1>3. /\ \A i \in Submitting(q) : q[i].n \in 1 .. sent /\ q[i].job > 0 /\ c[q[i].n] = 0 /\ u.submitted[q[i].n] = 0
      /\ \A i, j \in Submitting(q) : q[i].n = q[j].n => i = j
  BY DEF OnceOf
<1>4. \A i \in Submitting(Tail(q)) : /\ Tail(q)[i].n \in 1 .. sent /\ Tail(q)[i].job > 0
                                     /\ c[Tail(q)[i].n] = 0 /\ u.submitted[Tail(q)[i].n] = 0
  <2> SUFFICES ASSUME NEW i \in Submitting(Tail(q))
               PROVE  /\ Tail(q)[i].n \in 1 .. sent /\ Tail(q)[i].job > 0
                      /\ c[Tail(q)[i].n] = 0 /\ u.submitted[Tail(q)[i].n] = 0
    OBVIOUS
  <2>1. PICK k \in Submitting(q) : Tail(q)[i] = q[k]
    BY <1>2
  <2>2. q[k].n \in 1 .. sent /\ q[k].job > 0 /\ c[q[k].n] = 0 /\ u.submitted[q[k].n] = 0
    BY <1>3
  <2> QED
    BY ONLY <2>1, <2>2
<1>5. \A i, j \in Submitting(Tail(q)) : Tail(q)[i].n = Tail(q)[j].n => i = j
  <2> SUFFICES ASSUME NEW i \in Submitting(Tail(q)), NEW j \in Submitting(Tail(q)), Tail(q)[i].n = Tail(q)[j].n
               PROVE  i = j
    OBVIOUS
  <2>0. i + 1 \in Submitting(q) /\ j + 1 \in Submitting(q) /\ Tail(q)[i] = q[i + 1] /\ Tail(q)[j] = q[j + 1]
    BY <1>2
  <2>1. i + 1 = j + 1
    <3> DEFINE x == i + 1
               y == j + 1
    <3>1. x \in Submitting(q) /\ y \in Submitting(q) /\ q[x].n = q[y].n
      BY <2>0
    <3> HIDE DEF x, y
    <3>2. x = y
      BY ONLY <3>1, <1>3
    <3> QED
      BY <3>2 DEF x, y
  <2> QED
    BY <1>2, <2>1
<1>6. q[1].kind = "submit" => 1 \in Submitting(q)
  BY <1>1 DEF Submitting
<1>7. q[1].kind = "submit" => \A i \in Submitting(Tail(q)) : Tail(q)[i].n # q[1].n
  BY <1>2, <1>3, <1>6, ZenonT(60)
<1> QED
  BY <1>4, <1>5, <1>7 DEF OnceOf

LEMMA SharesFinite ==
    ASSUME Tap!TapAssumption
    PROVE  MaxSubmits \in Nat /\ IsFiniteSet(Tap!Shares) /\ \A sent \in 0 .. MaxSubmits : 1 .. sent \subseteq Tap!Shares
<1>1. MaxSubmits \in Nat /\ MaxSubmits \in Int
  BY TapAllowed
<1>2. IsFiniteSet(Tap!Shares)
  BY ONLY <1>1, FS_Interval DEF Tap!Shares
<1> QED
  BY <1>1, <1>2 DEF Tap!Shares

(* A share that is read enters the list of what was submitted.             *)
LEMMA WithOnce ==
    ASSUME Tap!TapAssumption, TapTypes, NEW m \in Miners, NEW l, NEW sent \in 0 .. MaxSubmits, NEW q, NEW subs,
           NEW job, NEW list2, EntryWith(m, job, list2), credit'[m] = credit[m],
           OnceOf(l, entry[m], sent, credit[m], q, subs),
           \/ list2 = entry[m].submitted
           \/ \E n \in 1 .. sent : \E j : /\ list2 = [entry[m].submitted EXCEPT ![n] = j]
                                          /\ credit[m][n] = 0 /\ \A i \in subs : q[i].n # n
    PROVE  OnceOf(l, entry'[m], sent, credit'[m], q, subs)
<1> DEFINE c == credit[m]
           s == entry[m].submitted
<1>1. entry'[m].in = entry[m].in /\ entry'[m].accepted = entry[m].accepted /\ entry'[m].submitted = list2
  BY DEF EntryWith
<1>2. s \in [Tap!Shares -> 0 .. LastJob]
  BY TapParts, EntryFields
<1>3. \A i \in subs : q[i].n \in Tap!Shares
  <2>1. \A i \in subs : q[i].n \in 1 .. sent
    BY DEF OnceOf
  <2> QED
    BY <2>1, SharesFinite
<1>4. CASE list2 = s
  BY <1>1, <1>4 DEF OnceOf, Counts
<1>5. ASSUME NEW n0 \in 1 .. sent, NEW j, list2 = [s EXCEPT ![n0] = j], c[n0] = 0, \A i \in subs : q[i].n # n0
      PROVE  OnceOf(l, entry'[m], sent, c, q, subs)
  <2>1. n0 <= sent
    <3>1. sent \in Nat
      BY TapAllowed
    <3> QED
      BY ONLY <3>1, n0 \in 1 .. sent
  <2>2. \A n \in Tap!Shares : n # n0 => list2[n] = s[n]
    BY <1>2, <1>5
  <2>3. \A n \in Tap!Shares : list2[n] # 0 => n <= sent /\ c[n] = 0
    BY <1>5, <2>1, <2>2 DEF OnceOf
  <2>4. \A i \in subs : list2[q[i].n] = 0
    <3>1. \A i \in subs : s[q[i].n] = 0
      BY DEF OnceOf
    <3> QED
      BY <1>3, <1>5, <2>2, <3>1
  <2> HIDE DEF c, s
  <2> QED
    BY <1>1, <2>3, <2>4 DEF OnceOf, Counts, c
<1> QED
  BY <1>4, <1>5

(* What an answer is for leaves that list, for the record if it was taken. *)
LEMMA CountedOnce ==
    ASSUME Tap!TapAssumption, TapTypes, NEW m \in Miners, NEW l, NEW sent \in 0 .. MaxSubmits, NEW q, NEW subs,
           NEW got, NEW done, Counted(m, got, done), OnceOf(l, entry[m], sent, credit[m], q, subs)
    PROVE  OnceOf(l, entry'[m], sent, credit'[m], q, subs)
<1> DEFINE c == credit[m]
           s == entry[m].submitted
           A == {n \in Tap!Shares : c[n] > 0}
           B == {n \in Tap!Shares : credit'[m][n] > 0}
<1>1. /\ entry[m] \in Entries /\ s \in [Tap!Shares -> 0 .. LastJob] /\ c \in [Tap!Shares -> Nat]
      /\ entry[m].accepted \in Nat
  BY TapParts, EntryFields
<1>2. got \subseteq done /\ done \subseteq Tap!Matching(entry[m])
  BY DEF Counted
<1>3. /\ done \subseteq Tap!Shares /\ IsFiniteSet(done) /\ Cardinality(done) \in Nat
      /\ \A n \in done : s[n] # 0
  BY <1>1, <1>2, MatchingIs
<1>4. /\ entry'[m].in = entry[m].in
      /\ \A n \in Tap!Shares : entry'[m].submitted[n] = IF n \in done THEN 0 ELSE s[n]
      /\ \A n \in Tap!Shares : credit'[m][n] = IF n \in got THEN c[n] + 1 ELSE c[n]
  BY DEF Counted
<1>5. \A n \in done : n \in Tap!Shares /\ n <= sent /\ c[n] = 0
  BY <1>3 DEF OnceOf
<1>6. \A i \in subs : q[i].n \in Tap!Shares /\ q[i].n \notin done
  <2>1. \A i \in subs : q[i].n \in 1 .. sent /\ s[q[i].n] = 0
    BY DEF OnceOf
  <2> QED
    BY <1>3, <2>1, SharesFinite
<1>7. B = A \cup got /\ A \cap got = {}
  <2>1. \A n \in got : n \in Tap!Shares /\ ~(c[n] > 0) /\ credit'[m][n] > 0
    <3>1. \A n \in got : n \in Tap!Shares /\ c[n] = 0 /\ credit'[m][n] = c[n] + 1
      BY ONLY <1>2, <1>4, <1>5
    <3> HIDE DEF c
    <3> QED
      BY ONLY <3>1
  <2>2. \A n \in Tap!Shares : n \notin got => (credit'[m][n] > 0 <=> c[n] > 0)
    BY ONLY <1>4
  <2> HIDE DEF c
  <2> QED
    BY ONLY <2>1, <2>2
<1>8. /\ Cardinality(B) = Cardinality(A) + Cardinality(got) /\ Cardinality(A) \in Nat /\ Cardinality(got) \in Nat
      /\ Cardinality(got) <= Cardinality(done) /\ (got = {} => B = A)
  <2>1. IsFiniteSet(A)
    <3>1. IsFiniteSet(Tap!Shares)
      BY SharesFinite
    <3> QED
      BY <3>1, FS_Subset
  <2>2. IsFiniteSet(got) /\ Cardinality(got) <= Cardinality(done)
    BY <1>2, <1>3, FS_Subset
  <2>3. (got = {} => B = A)
    BY <1>7
  <2> HIDE DEF A, B
  <2>4. Cardinality({}) = 0 /\ Cardinality(A) \in Nat /\ Cardinality(got) \in Nat
    BY <2>1, <2>2, FS_EmptySet, FS_CardinalityType
  <2>5. Cardinality(A \cup got) = Cardinality(A) + Cardinality(got) - Cardinality(A \cap got)
    BY ONLY <2>1, <2>2, FS_Union
  <2>6. Cardinality(A \cap got) = 0 /\ Cardinality(B) = Cardinality(A \cup got)
    BY ONLY <1>7, <2>4
  <2> QED
    BY ONLY <2>2, <2>3, <2>4, <2>5, <2>6
<1> HIDE DEF A, B
<1>9. Counts(entry'[m], Cardinality(B))
  <2> SUFFICES ASSUME entry[m].in
               PROVE  /\ Cardinality(B) <= entry'[m].accepted
                      /\ Pieces \/ StoreFails \/ Cardinality(B) = entry'[m].accepted
    BY <1>4 DEF Counts
  <2>1. /\ Cardinality(A) <= entry[m].accepted
        /\ Pieces \/ StoreFails \/ Cardinality(A) = entry[m].accepted
    BY DEF OnceOf, Counts, A
  <2>2. \/ entry'[m].accepted = entry[m].accepted + Cardinality(done) /\ (Pieces \/ StoreFails \/ got = done)
        \/ entry'[m].accepted = entry[m].accepted /\ got = {}
    BY DEF Counted
  <2>3. CASE entry'[m].accepted = entry[m].accepted + Cardinality(done) /\ (Pieces \/ StoreFails \/ got = done)
    <3>1. Cardinality(B) <= entry'[m].accepted
      BY ONLY <1>1, <1>3, <1>8, <2>1, <2>3
    <3>2. ASSUME ~Pieces, ~StoreFails PROVE Cardinality(B) = entry'[m].accepted
      BY ONLY <1>1, <1>3, <1>8, <2>1, <2>3, <3>2
    <3> QED
      BY <3>1, <3>2
  <2>4. CASE entry'[m].accepted = entry[m].accepted /\ got = {}
    BY ONLY <1>8, <2>1, <2>4
  <2> QED
    BY <2>2, <2>3, <2>4
<1>10. \A n \in Tap!Shares : /\ credit'[m][n] <= 1
                             /\ credit'[m][n] > 0 => n <= sent
                             /\ entry'[m].submitted[n] # 0 => n <= sent /\ credit'[m][n] = 0
  <2> SUFFICES ASSUME NEW n \in Tap!Shares
               PROVE  /\ credit'[m][n] <= 1 /\ (credit'[m][n] > 0 => n <= sent)
                      /\ entry'[m].submitted[n] # 0 => n <= sent /\ credit'[m][n] = 0
    OBVIOUS
  <2>1. CASE n \in done
    <3>1. entry'[m].submitted[n] = 0 /\ (credit'[m][n] = 0 + 1 \/ credit'[m][n] = 0) /\ n <= sent
      BY ONLY <1>2, <1>4, <1>5, <2>1, n \in Tap!Shares
    <3> QED
      BY ONLY <3>1
  <2>2. CASE n \notin done
    <3>1. entry'[m].submitted[n] = s[n] /\ credit'[m][n] = c[n]
      BY ONLY <1>2, <1>4, <2>2, n \in Tap!Shares
    <3> QED
      BY <3>1 DEF OnceOf
  <2> QED
    BY <2>1, <2>2
<1>11. \A i \in subs : credit'[m][q[i].n] = 0 /\ entry'[m].submitted[q[i].n] = 0
  <2>1. \A i \in subs : c[q[i].n] = 0 /\ s[q[i].n] = 0
    BY DEF OnceOf
  <2> QED
    BY ONLY <1>2, <1>4, <1>6, <2>1
<1> HIDE DEF c, s
<1> QED
  BY <1>9, <1>10, <1>11 DEF OnceOf, B

LEMMA PassedOnce ==
    ASSUME Tap!TapAssumption, TapInv, NEW m \in Miners, NEW msg, NEW reads, Passed(m, msg, reads)
    PROVE  OnceOf(link'[m], entry'[m], peer'[m].sent, credit'[m], ToProxy(m)', Submits(m)')
<1>0. TapTypes /\ SharesOnce /\ ToProxy(m) \in Seq(FromMiner) /\ peer[m].sent \in 0 .. MaxSubmits
  BY TapParts, PeerIs DEF TapInv
<1> DEFINE q == ToProxy(m)'
           subs == Submitting(q)
           sent == peer[m].sent
           c == credit[m]
<1>1. Submits(m) = Submitting(ToProxy(m)) /\ Submits(m)' = subs /\ link' = link /\ peer'[m].sent = sent
  <2>1. peer'[m].sent = peer[m].sent /\ link' = link
    BY DEF Passed, Passes1, Upward, Downward, Oddly
  <2> QED
    BY <2>1 DEF Submits, Submitting
<1>2. OnceOf(link[m], entry[m], sent, c, ToProxy(m), Submitting(ToProxy(m)))
  BY <1>0, <1>1 DEF SharesOnce
<1>3. /\ OnceOf(link[m], entry[m], sent, c, q, subs)
      /\ msg.kind = "submit" => msg.n \in 1 .. sent /\ c[msg.n] = 0 /\ \A i \in subs : q[i].n # msg.n
  <2>1. CASE FromOne(m) /\ msg = ToProxy(m)[1]
    <3>1. q = Tail(ToProxy(m)) /\ ToProxy(m) # <<>>
      BY <2>1 DEF FromOne
    <3>2. /\ OnceOf(link[m], entry[m], sent, c, q, subs)
          /\ ToProxy(m)[1].kind = "submit" => \A i \in subs : q[i].n # ToProxy(m)[1].n
      BY <1>0, <1>2, <3>1, OnceTaken
    <3>3. msg.kind = "submit" => msg.n \in 1 .. sent /\ c[msg.n] = 0
      <4>1. 1 \in DOMAIN ToProxy(m)
        BY <1>0, <3>1, FrontOff
      <4>2. msg.kind = "submit" => 1 \in Submitting(ToProxy(m))
        BY <2>1, <4>1 DEF Submitting
      <4> QED
        BY <1>2, <2>1, <4>2 DEF OnceOf
    <3> QED
      BY <2>1, <3>2, <3>3
  <2>2. CASE FromTheOther(m) /\ msg.kind # "submit"
    BY <1>2, <2>2 DEF FromTheOther
  <2>3. (FromOne(m) /\ msg = ToProxy(m)[1]) \/ (FromTheOther(m) /\ msg.kind # "submit")
    BY DEF Passed, Upward, Downward, Oddly
  <2> QED
    BY <2>1, <2>2, <2>3
<1> HIDE DEF q, subs, sent, c
<1>4. Kept(m, msg, reads) /\ sent \in 0 .. MaxSubmits /\ c = credit[m]
  BY <1>0 DEF Passed, sent, c
<1>5. OnceOf(link[m], entry'[m], sent, credit'[m], q, subs)
  <2>1. CASE reads /\ msg.kind \in {"ok", "refused"}
    <3>1. PICK got : Counted(m, got, Tap!Matching(entry[m]))
      BY <1>4, <2>1 DEF Kept
    <3> QED
      BY <1>0, <1>3, <1>4, <3>1, CountedOnce
  <2>2. CASE ~(reads /\ msg.kind \in {"ok", "refused"})
    <3>1. PICK job, list2 : /\ EntryWith(m, job, list2) /\ credit'[m] = credit[m]
                            /\ \/ list2 = entry[m].submitted
                               \/ msg.kind = "submit" /\ list2 = [entry[m].submitted EXCEPT ![msg.n] = msg.job]
      BY <1>4, <2>2 DEF Kept
    <3> QED
      BY <1>0, <1>3, <1>4, <3>1, WithOnce
  <2> QED
    BY <2>1, <2>2
<1> QED
  BY <1>1, <1>5 DEF q, sent

(* A miner whose login was not read stays without a job.                   *)
LEMMA MuteStays ==
    ASSUME TapTypes, NEW m \in Miners, NEW msg, Passed(m, msg, TRUE), ~entry'[m].login, ~entry[m].login,
           Mute(peer[m], pool[m], entry[m], ToProxy(m), ToMiner(m))
    PROVE  Mute(peer'[m], pool'[m], entry'[m], ToProxy(m)', ToMiner(m)')
<1>1. ToProxy(m) \in Seq(FromMiner) /\ ToMiner(m) \in Seq(FromPool) /\ Kept(m, msg, TRUE)
  BY TapParts DEF Passed
<1>2. On(ToProxy(m), Given) = {} /\ On(ToMiner(m), News) = {} /\ \A n \in Tap!Shares : entry[m].submitted[n] = 0
  BY DEF Mute
<1>3. msg.kind \notin {"login", "submit", "welcome", "job"}
  <2>1. msg.kind # "login"
    <3>1. msg.kind = "login" => entry'[m].login
      BY <1>1 DEF Kept
    <3> QED
      BY <3>1
  <2>2. ~(Upward(m, msg) /\ msg.kind = "submit")
    <3>1. ToProxy(m) # <<>> /\ msg = ToProxy(m)[1] /\ msg.kind = "submit" => 1 \in On(ToProxy(m), Given)
      BY <1>1, OnTail, Kinds
    <3> QED
      BY <1>2, <3>1 DEF Upward, FromOne
  <2>3. ~(Downward(m, msg) /\ msg.kind \in {"welcome", "job"})
    <3>1. ToMiner(m) # <<>> /\ msg = ToMiner(m)[1] /\ msg.kind \in {"welcome", "job"} => 1 \in On(ToMiner(m), News)
      BY <1>1, OnTail, Kinds
    <3> QED
      BY <1>2, <3>1 DEF Downward, FromTheOther
  <2>4. Upward(m, msg) \/ Downward(m, msg) \/ msg.kind = "odd"
    BY DEF Passed, Oddly
  <2> QED
    BY <2>1, <2>2, <2>3, <2>4 DEF Upward, Downward
<1>4. pool' = pool /\ peer'[m].job = peer[m].job
  BY <1>3 DEF Passed, Upward, Downward, Oddly
<1>5. On(ToProxy(m)', Given) = {} /\ On(ToMiner(m)', News) = {}
  <2>1. FromOne(m) \/ FromTheOther(m)
    BY DEF Passed, Upward, Downward, Oddly
  <2>2. CASE FromOne(m)
    BY <1>1, <1>2, <2>2, NoneLeft DEF FromOne
  <2>3. CASE FromTheOther(m)
    BY <1>1, <1>2, <2>3, NoneLeft DEF FromTheOther
  <2> QED
    BY <2>1, <2>2, <2>3
<1>6. \A n \in Tap!Shares : entry'[m].submitted[n] = 0
  <2>1. CASE msg.kind \in {"ok", "refused"}
    <3>1. PICK got : Counted(m, got, Tap!Matching(entry[m]))
      BY <1>1, <2>1 DEF Kept
    <3> QED
      BY ONLY <1>2, <3>1 DEF Counted
  <2>2. CASE msg.kind \notin {"ok", "refused"}
    <3>1. entry'[m].submitted = entry[m].submitted
      BY <1>1, <1>3, <2>2 DEF Kept, EntryWith
    <3> QED
      BY <1>2, <3>1
  <2> QED
    BY <2>1, <2>2
<1> QED
  BY ONLY <1>4, <1>5, <1>6, Mute(peer[m], pool[m], entry[m], ToProxy(m), ToMiner(m)) DEF Mute

LEMMA NamedPassed ==
    ASSUME TapInv, NEW m \in Miners, NEW msg, NEW reads \in BOOLEAN, ~Pieces => reads, Passed(m, msg, reads)
    PROVE  NamedInv'
<1> SUFFICES ASSUME ~Pieces, NEW k \in Miners
             PROVE  NamedOf(link'[k], peer'[k], pool'[k], entry'[k], ToProxy(k)', ToMiner(k)')
  BY DEF NamedInv
<1>1. TapTypes /\ NamedOf(link[k], peer[k], pool[k], entry[k], ToProxy(k), ToMiner(k)) /\ link' = link /\ reads = TRUE
  BY DEF TapInv, NamedInv, Passed, Passes1
<1>2. CASE k # m
  BY <1>1, <1>2 DEF Passed, Passes1
<1>3. CASE k = m
  <2>1. Kept(m, msg, reads) /\ link[m] = "open" /\ Passed(m, msg, TRUE)
    BY <1>1 DEF Passed, Passes1
  <2>2. entry'[m].in = entry[m].in /\ (entry[m].login => entry'[m].login)
    BY ONLY <2>1 DEF Kept, Counted, EntryWith
  <2>3. entry[m].in /\ (~entry[m].login => Mute(peer[m], pool[m], entry[m], ToProxy(m), ToMiner(m)))
    BY <1>1, <1>3, <2>1 DEF NamedOf
  <2>4. ~entry'[m].login => Mute(peer'[m], pool'[m], entry'[m], ToProxy(m)', ToMiner(m)')
    BY <1>1, <2>1, <2>2, <2>3, MuteStays
  <2> QED
    BY <1>1, <1>3, <2>1, <2>2, <2>3, <2>4 DEF NamedOf
<1> QED
  BY <1>2, <1>3

LEMMA PassedKeeps ==
    ASSUME Tap!TapAssumption, TapInv, NEW m \in Miners, NEW msg, NEW reads \in BOOLEAN, ~Pieces => reads,
           Passed(m, msg, reads)
    PROVE  TapInv'
<1>0. Passes1(m) /\ TapTypes'
  BY DEF Passed
<1>1. ListedOnce' /\ RoundOf' /\ Accidents' /\ NamedInv'
  BY <1>0, PassedListed, PassedAccidents, NamedPassed
<1>2. OnceOf(link'[m], entry'[m], peer'[m].sent, credit'[m], ToProxy(m)', Submits(m)')
  BY PassedOnce
<1>3. ASSUME NEW k \in Miners
      PROVE  OnceOf(link'[k], entry'[k], peer'[k].sent, credit'[k], ToProxy(k)', Submits(k)')
  <2>1. CASE k = m
    BY <1>2, <2>1
  <2>2. CASE k # m
    <3>1. /\ link'[k] = link[k] /\ entry'[k] = entry[k] /\ peer'[k] = peer[k] /\ credit'[k] = credit[k]
          /\ ToProxy(k)' = ToProxy(k) /\ Submits(k)' = Submits(k)
      BY <1>0, <2>2 DEF Passes1, Submits
    <3>2. OnceOf(link[k], entry[k], peer[k].sent, credit[k], ToProxy(k), Submits(k))
      BY DEF TapInv, SharesOnce
    <3> QED
      BY ONLY <3>1, <3>2
  <2> QED
    BY <2>1, <2>2
<1>4. SharesOnce'
  BY ONLY <1>3 DEF SharesOnce
<1> QED
  BY <1>0, <1>1, <1>4 DEF TapInv

LEMMA StopKeeps ==
    ASSUME Tap!TapAssumption, TapInv, NEW m \in Miners, Stops(m)
    PROVE  TapInv'
<1>0. TapTypes /\ ListedOnce /\ RoundOf /\ Accidents /\ SharesOnce /\ NamedInv
  BY DEF TapInv
<1>1. /\ link' = link /\ inputs' = inputs /\ ready' = ready /\ inbox' = inbox /\ pool' = pool /\ peer' = peer
      /\ TapTypes' /\ Tap!DiesOnly'
      /\ \A k \in Miners : k # m => entry'[k] = entry[k] /\ credit'[k] = credit[k]
  BY DEF Stops
<1>2. PICK got : Counted(m, got, got)
  BY DEF Stops
<1>3. \A k \in Miners : ToProxy(k)' = ToProxy(k) /\ ToMiner(k)' = ToMiner(k) /\ Submits(k)' = Submits(k)
  BY <1>1 DEF ToProxy, ToMiner, Submits
<1>4. ListedOnce' /\ RoundOf'
  BY ONLY <1>0, <1>1, ZenonT(60) DEF ListedOnce, RoundOf
<1>5. /\ entry'[m].in = entry[m].in /\ (entry[m].login => entry'[m].login) /\ (entry'[m].odd => entry[m].odd)
      /\ \A n \in Tap!Shares : entry[m].submitted[n] = 0 => entry'[m].submitted[n] = 0
  BY ONLY <1>2 DEF Counted
<1>6. Accidents'
  <2>1. \A k \in Miners : entry'[k].odd => entry[k].odd
    BY <1>1, <1>5
  <2> QED
    BY ONLY <1>0, <1>1, <1>3, <2>1 DEF Accidents
<1>7. SharesOnce'
  <2> SUFFICES ASSUME NEW k \in Miners
               PROVE  OnceOf(link'[k], entry'[k], peer'[k].sent, credit'[k], ToProxy(k)', Submits(k)')
    BY DEF SharesOnce
  <2>1. OnceOf(link[k], entry[k], peer[k].sent, credit[k], ToProxy(k), Submits(k)) /\ peer[k].sent \in 0 .. MaxSubmits
    BY <1>0, TapParts, PeerIs DEF SharesOnce
  <2>2. OnceOf(link[k], entry'[k], peer[k].sent, credit'[k], ToProxy(k), Submits(k))
    <3>1. CASE k = m
      BY <1>0, <1>2, <2>1, <3>1, CountedOnce
    <3>2. CASE k # m
      BY <1>1, <2>1, <3>2
    <3> QED
      BY <3>1, <3>2
  <2> QED
    BY <1>1, <1>3, <2>2
<1>8. NamedInv'
  <2> SUFFICES ASSUME ~Pieces, NEW k \in Miners
               PROVE  NamedOf(link'[k], peer'[k], pool'[k], entry'[k], ToProxy(k)', ToMiner(k)')
    BY DEF NamedInv
  <2>1. NamedOf(link[k], peer[k], pool[k], entry[k], ToProxy(k), ToMiner(k))
    BY <1>0 DEF NamedInv
  <2>2. NamedOf(link[k], peer[k], pool[k], entry'[k], ToProxy(k), ToMiner(k))
    <3>1. CASE k = m
      BY <1>5, <2>1, <3>1 DEF NamedOf, Mute
    <3>2. CASE k # m
      BY <1>1, <2>1, <3>2
    <3> QED
      BY <3>1, <3>2
  <2> QED
    BY <1>1, <1>3, <2>2
<1> QED
  BY <1>1, <1>4, <1>6, <1>7, <1>8 DEF TapInv

(* The proxy keeps its invariant.                                          *)
LEMMA TapInit ==
    ASSUME Tap!TapAssumption, Tap!Init
    PROVE  TapInv
<1>0. MaxSubmits \in Nat /\ LastJob \in Nat
  BY TapAllowed
<1> DEFINE due0 == [due |-> <<>>, took |-> {}, job |-> 0]
           end0 == [sent |-> 0, job |-> 0, waits |-> FALSE, gone |-> {}, odd |-> {}]
           none == [n \in Tap!Shares |-> 0]
<1>1. /\ \A m \in Miners : link[m] = "none" /\ entry[m] = Tap!NoUser /\ pool[m] = due0 /\ peer[m] = end0 /\ credit[m] = none
      /\ inputs = <<Tap!Server>> /\ ready = <<>> /\ death = "none"
      /\ link \in [Miners -> {"none"}] /\ inbox = [s \in Tap!Sockets |-> <<>>]
  BY DEF Tap!Init
<1>2. \A m \in Miners : ToProxy(m) = <<>> /\ ToMiner(m) = <<>>
  BY <1>1 DEF ToProxy, ToMiner, Tap!Sockets, Tap!Sides
<1>3. due0 \in PoolEnds /\ end0 \in PeerEnds /\ none \in [Tap!Shares -> Nat]
  BY <1>0 DEF PoolEnds, PeerEnds
<1>4. Tap!NoUser \in Entries /\ ~Tap!NoUser.in /\ Tap!NoUser.job = 0 /\ Tap!NoUser.submitted = none /\ ~Tap!NoUser.odd
  BY FreshEntry
<1>5. end0.sent = 0
  OBVIOUS
<1>6. TapTypes
  <2>1. /\ entry \in [Miners -> Entries] /\ pool \in [Miners -> PoolEnds] /\ peer \in [Miners -> PeerEnds]
        /\ credit \in [Miners -> [Tap!Shares -> Nat]]
    <3>1. /\ entry = [m \in Miners |-> Tap!NoUser] /\ pool = [m \in Miners |-> due0]
          /\ peer = [m \in Miners |-> end0] /\ credit = [m \in Miners |-> none]
      BY DEF Tap!Init
    <3> HIDE DEF due0, end0, none
    <3> QED
      BY ONLY <1>3, <1>4, <3>1
  <2>2. inputs \in Seq(Tap!Sockets \cup {Tap!Server}) /\ ready \in Seq(Tap!Sockets \cup {Tap!Server})
    <3> DEFINE T == Tap!Sockets \cup {Tap!Server}
               e == Tap!Server
    <3>1. e \in T /\ inputs = <<e>> /\ ready = <<>>
      BY <1>1
    <3> HIDE DEF T, e
    <3>2. inputs \in Seq(T) /\ ready \in Seq(T)
      BY ONLY <3>1
    <3> QED
      BY <3>2 DEF T
  <2>3. \A m \in Miners : ToProxy(m) \in Seq(FromMiner) /\ ToMiner(m) \in Seq(FromPool)
    <3>1. \A T : <<>> \in Seq(T)
      OBVIOUS
    <3> QED
      BY ONLY <1>2, <3>1
  <2>4. inbox = [s \in Tap!Sockets |-> inbox[s]]
    BY <1>1
  <2> HIDE DEF due0, end0, none
  <2> QED
    BY <1>1, <2>1, <2>2, <2>3, <2>4 DEF TapTypes
<1>7. ListedOnce
  <2>1. \A i, j \in DOMAIN inputs : inputs[i] = inputs[j] => i = j
    BY <1>1
  <2>2. \A m \in Miners : \A side \in Tap!Sides : ~\E i \in DOMAIN inputs : inputs[i] = <<m, side>>
    <3>1. \A i \in DOMAIN inputs : inputs[i] = Tap!Server
      BY <1>1
    <3>2. \A m \in Miners : \A side \in Tap!Sides : <<m, side>> # Tap!Server
      BY DEF Tap!Sides, Tap!Server
    <3> QED
      BY <3>1, <3>2
  <2> QED
    BY <1>1, <2>1, <2>2 DEF ListedOnce
<1>8. RoundOf
  BY <1>1 DEF RoundOf
<1>9. Accidents
  <2>1. Tap!DiesOnly
    BY <1>1 DEF Tap!DiesOnly
  <2> QED
    BY <1>1, <1>2, <1>4, <2>1 DEF Accidents
<1>10. SharesOnce
  <2> SUFFICES ASSUME NEW m \in Miners
               PROVE  OnceOf(link[m], entry[m], peer[m].sent, credit[m], ToProxy(m), Submits(m))
    BY DEF SharesOnce
  <2>1. Submits(m) = {}
    BY <1>2 DEF Submits
  <2>2. \A n \in Tap!Shares : credit[m][n] = 0 /\ entry[m].submitted[n] = 0
    BY <1>1, <1>4
  <2>3. peer[m].sent = 0 /\ ~entry[m].in
    BY <1>1, <1>4, <1>5
  <2> QED
    BY <2>1, <2>2, <2>3 DEF OnceOf, Counts
<1>11. NamedInv
  <2>1. \A m \in Miners : link[m] = "none" /\ New(peer[m], pool[m], ToProxy(m), ToMiner(m))
    BY <1>1, <1>2 DEF New
  <2> HIDE DEF due0, end0
  <2> QED
    BY ONLY <2>1 DEF NamedInv, NamedOf
<1> QED
  BY <1>6, <1>7, <1>8, <1>9, <1>10, <1>11 DEF TapInv

LEMMA TapNext ==
    ASSUME Tap!TapAssumption, TapInv, [Tap!Next]_Tap!vars
    PROVE  TapInv'
<1>1. CASE UNCHANGED Tap!vars
  <2>1. TapTypes /\ Accidents
    BY DEF TapInv
  <2>2. /\ UNCHANGED <<link, inputs, ready, entry, inbox, pool, peer, credit>>
        /\ death' = death /\ entry' = entry /\ inputs' = inputs
    BY <1>1 DEF Tap!vars
  <2>3. Tap!DiesOnly'
    BY ONLY <2>1, <2>2 DEF Accidents, Tap!DiesOnly, Tap!Full, Tap!Held, Tap!Shares
  <2> QED
    BY <2>1, <2>2, <2>3, EndsOf, RestKeeps DEF TapTypes
<1>2. CASE Tap!Ends
  BY <1>2, EndsKeep
<1>3. CASE Tap!Select \/ Tap!AcceptFails
  BY <1>3, SelectKeeps, FullKeeps
<1>4. ASSUME NEW m \in Miners, Tap!OnAccept(m) PROVE TapInv'
  BY <1>4, AcceptIs, QuietKeeps
<1>5. ASSUME NEW s \in Tap!Sockets,
             \/ Tap!OnClose(s) \/ Tap!OnHello(s) \/ Tap!Dies(s) \/ Tap!RecvFails(s)
             \/ \E whole \in {TRUE, ~Pieces} : Tap!OnRecv(s, whole)
      PROVE  TapInv'
  <2>1. PICK m \in Miners, side \in Tap!Sides : s = <<m, side>>
    BY DEF Tap!Sockets
  <2>2. CASE Tap!OnClose(s) \/ Tap!OnHello(s)
    <3>1. Drops(m)
      BY <2>1, <2>2, CloseIs
    <3> QED
      BY <3>1, QuietKeeps
  <2>3. CASE Tap!Dies(s)
    BY <2>1, <2>3, DieKeeps
  <2>4. CASE Tap!RecvFails(s)
    BY <2>1, <2>4, FailsIs, RestKeeps, StopKeeps
  <2>5. ASSUME NEW whole \in {TRUE, ~Pieces}, Tap!OnRecv(s, whole) PROVE TapInv'
    BY <2>1, <2>5, RecvIs, PassedKeeps
  <2> QED
    BY <1>5, <2>2, <2>3, <2>4, <2>5
<1> QED
  BY <1>1, <1>2, <1>3, <1>4, <1>5 DEF Tap!Next, Tap!Loop

(* The ends.                                                               *)
LEMMA KnownLogin ==
    ASSUME Tap!TapAssumption, NEW e \in PeerEnds, NEW e2 \in PeerEnds, NEW p \in PoolEnds, NEW p2 \in PoolEnds,
           NEW u \in Entries, NEW q \in Seq(FromMiner), NEW t \in Seq(FromPool), NEW q2,
           Known(e, p, u, q, t),
           ~e.waits, e.job = 0, e2.sent = e.sent, e2.job = e.job, e2.waits,
           p2.due = p.due, p2.job = p.job, p2.took = p.took,
           NEW msg, q2 = Append(q, msg), msg.kind \in {"login", "hello"}, msg.n = 0
    PROVE  Known(e2, p2, u, q2, t)
<1>0. OneOnTheWay(e, p, q, t) /\ WhatItIs(e, p, q, t) /\ JobsInOrder(e, p, u, t) /\ Outstanding(e, u)
  BY DEF Known
<1>1. On(q, Asks) = {} /\ p.due = <<>> /\ On(t, Replies) = {} /\ p.job = 0
  BY <1>0 DEF OneOnTheWay, JobsInOrder
<1> DEFINE last == Len(q) + 1
<1>2. On(q2, Asks) = {last}
  BY <1>1, OnLast, Kinds
<1>3. On(q2, Given) = {} /\ On(q2, Logins) \subseteq {last} /\ q2[last] = msg
  <2>1. On(q, Given) = {} /\ On(q, Logins) = {}
    BY <1>1, PartOf
  <2>2. On(q2, Given) = On(q, Given)
    BY OnLast, Kinds
  <2>3. On(q2, Logins) \in {On(q, Logins), On(q, Logins) \cup {last}}
    BY OnLast, Kinds
  <2>4. q2[last] = msg
    BY OnLast, Kinds
  <2> QED
    BY <2>1, <2>2, <2>3, <2>4
<1> HIDE DEF last
<1>4. OneOnTheWay(e2, p2, q2, t)
  BY <1>1, <1>2 DEF OneOnTheWay
<1>5. WhatItIs(e2, p2, q2, t)
  BY <1>0, <1>1, <1>3 DEF WhatItIs
<1>6. JobsInOrder(e2, p2, u, t)
  BY <1>0 DEF JobsInOrder
<1>7. Outstanding(e2, u)
  BY <1>0 DEF Outstanding
<1> QED
  BY <1>4, <1>5, <1>6, <1>7 DEF Known

LEMMA KnownSubmit ==
    ASSUME Tap!TapAssumption, NEW e \in PeerEnds, NEW e2 \in PeerEnds, NEW p \in PoolEnds, NEW p2 \in PoolEnds,
           NEW u \in Entries, NEW q \in Seq(FromMiner), NEW t \in Seq(FromPool), NEW q2,
           Known(e, p, u, q, t),
           ~e.waits, e.job > 0, e2.sent = e.sent + 1, e2.job = e.job, e2.waits,
           p2.due = p.due, p2.job = p.job, p2.took = p.took,
           NEW msg, q2 = Append(q, msg), msg.kind = "submit", msg.job = e.job, msg.n = e.sent + 1
    PROVE  Known(e2, p2, u, q2, t)
<1>0. OneOnTheWay(e, p, q, t) /\ WhatItIs(e, p, q, t) /\ JobsInOrder(e, p, u, t) /\ Outstanding(e, u)
  BY DEF Known
<1>1. On(q, Asks) = {} /\ p.due = <<>> /\ On(t, Replies) = {}
  BY <1>0 DEF OneOnTheWay
<1>a. e.sent \in Nat /\ e.job \in Nat
  BY NumbersOf
<1> DEFINE last == Len(q) + 1
<1>2. On(q2, Asks) = {last}
  BY <1>1, OnLast, Kinds
<1>3. On(q2, Given) = {last} /\ On(q2, Logins) = {} /\ q2[last] = msg
  <2>1. On(q, Given) = {} /\ On(q, Logins) = {}
    BY <1>1, PartOf
  <2>2. On(q2, Given) = On(q, Given) \cup {last}
    BY OnLast, Kinds
  <2>3. On(q2, Logins) = On(q, Logins)
    BY OnLast, Kinds
  <2>4. q2[last] = msg
    BY OnLast, Kinds
  <2> QED
    BY <2>1, <2>2, <2>3, <2>4
<1> HIDE DEF last
<1>4. OneOnTheWay(e2, p2, q2, t)
  BY <1>1, <1>2 DEF OneOnTheWay
<1>5. WhatItIs(e2, p2, q2, t)
  <2>1. On(t, Replies) = {} /\ On(q2, Logins) = {} /\ p2.due = <<>>
    BY <1>1, <1>3
  <2>2. \A i \in On(q2, Given) : q2[i].n = e2.sent /\ q2[i].job <= e2.job
    <3>1. q2[last].n = e2.sent /\ q2[last].job = e2.job /\ e2.job <= e2.job
      BY <1>a, <1>3
    <3> QED
      BY ONLY <1>3, <3>1
  <2> QED
    BY ONLY <2>1, <2>2 DEF WhatItIs
<1>6. JobsInOrder(e2, p2, u, t)
  BY <1>0, <1>a DEF JobsInOrder
<1>7. Outstanding(e2, u)
  BY <1>0 DEF Outstanding
<1> QED
  BY <1>4, <1>5, <1>6, <1>7 DEF Known

LEMMA KnownNews ==
    ASSUME Tap!TapAssumption, NEW e \in PeerEnds, NEW e2 \in PeerEnds, NEW p \in PoolEnds, NEW p2 \in PoolEnds,
           NEW u \in Entries, NEW q \in Seq(FromMiner), NEW t \in Seq(FromPool), NEW t2,
           Known(e, p, u, q, t),
           e2.sent = e.sent, e2.job = e.job, e2.waits <=> e.waits,
           p.job > 0, p2.due = p.due, p2.job = p.job + 1, p2.took = p.took,
           NEW msg, t2 = Append(t, msg), msg.kind = "job", msg.job = p.job + 1
    PROVE  Known(e2, p2, u, q, t2)
<1>0. OneOnTheWay(e, p, q, t) /\ WhatItIs(e, p, q, t) /\ JobsInOrder(e, p, u, t) /\ Outstanding(e, u)
  BY DEF Known
<1>a. e.sent \in Nat /\ e.job \in Nat /\ p.job \in Nat
  BY NumbersOf
<1> DEFINE last == Len(t) + 1
<1>k. msg.kind \notin Replies /\ msg.kind \in News /\ msg.kind \notin Welcomes
  <2>1. msg.kind = "job"
    OBVIOUS
  <2> QED
    BY ONLY <2>1, Kinds
<1>1. On(t2, Replies) = On(t, Replies) /\ \A i \in On(t, Replies) : t2[i] = t[i]
  <2>1. On(Append(t, msg), Replies) = On(t, Replies) /\ \A i \in On(t, Replies) : Append(t, msg)[i] = t[i]
    BY ONLY <1>k, OnPast, t \in Seq(FromPool)
  <2>2. t2 = Append(t, msg)
    OBVIOUS
  <2> QED
    BY ONLY <2>1, <2>2, Zenon
<1>2. On(t2, News) = On(t, News) \cup {last} /\ t2[last] = msg /\ \A i \in On(t, News) : t2[i] = t[i] /\ i < last
  <2>1. On(Append(t, msg), News) = On(t, News) \cup {last}
    BY ONLY <1>k, OnLast, t \in Seq(FromPool)
  <2>2. \A i \in On(t, News) : Append(t, msg)[i] = t[i] /\ i < last
    BY ONLY PutLast, t \in Seq(FromPool) DEF On
  <2>4. Append(t, msg)[last] = msg
    BY ONLY PutLast, t \in Seq(FromPool)
  <2>3. t2 = Append(t, msg)
    OBVIOUS
  <2> HIDE DEF last
  <2> QED
    BY ONLY <2>1, <2>2, <2>3, <2>4
<1>3. On(t2, Welcomes) = On(t, Welcomes) /\ \A i \in On(t, Welcomes) : t2[i] = t[i]
  BY ONLY <1>k, OnPast, t \in Seq(FromPool), t2 = Append(t, msg)
<1>b. \A i \in On(t, News) : i \in Nat /\ t[i].job \in Nat
  <2>1. \A i \in On(t, News) : i \in Nat
    BY DEF On
  <2> QED
    BY <2>1, JobsAre DEF News
<1>c. last \in Nat
  BY LenProperties
<1> HIDE DEF last
<1>4. OneOnTheWay(e2, p2, q, t2)
  BY <1>0, <1>1 DEF OneOnTheWay
<1>5. WhatItIs(e2, p2, q, t2)
  <2>1. p.job # 0
    BY <1>a
  <2>2. On(q, Logins) = {} /\ ~(p.due # <<>> /\ p.due[1] = 0)
    BY <1>0, <2>1 DEF WhatItIs
  <2> QED
    BY <1>0, <1>1, <2>2, ZenonT(60) DEF WhatItIs
<1>6. JobsInOrder(e2, p2, u, t2)
  <2>1. /\ e2.job <= p2.job /\ (e2.sent > 0 => e2.job > 0) /\ (~e2.waits /\ e2.job = 0 => p2.job = 0)
        /\ u.job = e2.job \/ (u.job = 0 /\ e2.job <= 1)
    BY <1>0, <1>a DEF JobsInOrder
  <2>2. \A i \in On(t2, News) : e2.job < t2[i].job /\ t2[i].job <= p2.job
    <3>1. \A i \in On(t, News) : e.job < t[i].job /\ t[i].job <= p.job
      BY <1>0 DEF JobsInOrder
    <3>2. e.job <= p.job
      BY <1>0 DEF JobsInOrder
    <3>3. ASSUME NEW i \in On(t, News) PROVE e2.job < t2[i].job /\ t2[i].job <= p2.job
      <4>1. t2[i] = t[i] /\ e.job < t[i].job /\ t[i].job <= p.job /\ t[i].job \in Nat
        BY <1>2, <1>b, <3>1, <3>3
      <4> QED
        BY ONLY <4>1, <1>a, e2.job = e.job, p2.job = p.job + 1
    <3>4. e2.job < t2[last].job /\ t2[last].job <= p2.job
      BY <1>2, <1>a, <3>2
    <3> QED
      BY <1>2, <3>3, <3>4
  <2>3. \A i, j \in On(t2, News) : i < j => t2[i].job < t2[j].job
    <3> SUFFICES ASSUME NEW i \in On(t2, News), NEW j \in On(t2, News), i < j PROVE t2[i].job < t2[j].job
      OBVIOUS
    <3>1. CASE i \in On(t, News) /\ j \in On(t, News)
      BY <1>0, <1>2, <3>1 DEF JobsInOrder
    <3>2. CASE i \in On(t, News) /\ j = last
      <4>1. t[i].job <= p.job /\ t[i].job \in Nat
        BY <1>0, <1>b, <3>2 DEF JobsInOrder
      <4>2. t2[i].job = t[i].job /\ t2[j].job = p.job + 1
        BY <1>2, <3>2
      <4> QED
        BY ONLY <1>a, <4>1, <4>2
    <3>3. i # last
      <4>1. ~(last < last)
        BY <1>c
      <4>2. \A k \in On(t, News) : k < last /\ ~(last < k)
        BY <1>2, <1>b, <1>c
      <4> QED
        BY <1>2, <4>1, <4>2
    <3> QED
      BY <1>2, <3>1, <3>2, <3>3
  <2>4. \A i \in On(t2, Welcomes) : e2.job = 0 /\ t2[i].job = 1
    BY <1>0, <1>3 DEF JobsInOrder
  <2> QED
    BY ONLY <2>1, <2>2, <2>3, <2>4 DEF JobsInOrder
<1>7. Outstanding(e2, u)
  BY <1>0 DEF Outstanding
<1> QED
  BY <1>4, <1>5, <1>6, <1>7 DEF Known

LEMMA KnownSettled ==
    ASSUME Tap!TapAssumption, NEW e \in PeerEnds, NEW e2 \in PeerEnds, NEW p \in PoolEnds, NEW p2 \in PoolEnds,
           NEW u \in Entries, NEW q \in Seq(FromMiner), NEW t \in Seq(FromPool), NEW t2,
           Known(e, p, u, q, t), "error" \notin Answers,
           e2.sent = e.sent, e2.job = e.job, e2.waits <=> e.waits,
           p.due # <<>>, p2.due = Tail(p.due), NEW msg, t2 = Append(t, msg),
           \/ /\ p.due[1] = 0 /\ msg.kind = "welcome" /\ msg.job = 1
              /\ p2.job = 1 /\ p2.took = p.took
           \/ /\ p.due[1] # 0 /\ msg.kind \in Answers /\ p2.job = p.job
              /\ p2.took = IF msg.kind = "ok" THEN p.took \cup {p.due[1]} ELSE p.took
    PROVE  Known(e2, p2, u, q, t2)
<1>0. OneOnTheWay(e, p, q, t) /\ WhatItIs(e, p, q, t) /\ JobsInOrder(e, p, u, t) /\ Outstanding(e, u)
  BY DEF Known
<1>a. e.sent \in Nat /\ e.job \in Nat /\ p.job \in Nat /\ p.due \in Seq(0 .. MaxSubmits)
  BY NumbersOf, PoolIs
<1>b. Answers \subseteq {"ok", "refused"}
  BY TapAllowed
<1>c. e.waits /\ On(q, Asks) = {}
  BY ONLY <1>0, p.due # <<>> DEF OneOnTheWay
<1>1. Len(p.due) = 1 /\ p.due[1] = e.sent /\ On(t, Replies) = {}
  BY ONLY <1>0, p.due # <<>> DEF OneOnTheWay
<1>2. p2.due = <<>>
  <2>1. Tail(p.due) \in Seq(0 .. MaxSubmits) /\ Len(Tail(p.due)) = Len(p.due) - 1
    BY ONLY <1>a, p.due # <<>>, FrontOff
  <2>2. Len(Tail(p.due)) = 0
    BY ONLY <1>1, <2>1
  <2> QED
    BY ONLY <2>1, <2>2, EmptySeq, p2.due = Tail(p.due)
<1> DEFINE last == Len(t) + 1
<1>3. On(t2, Replies) = {last} /\ t2[last] = msg
  <2>1. msg.kind \in Replies
    BY <1>b, Kinds
  <2> QED
    BY <1>1, <2>1, OnLast
<1>4. On(q, Given) = {} /\ On(q, Logins) = {}
  BY <1>c, PartOf
<1>5. OneOnTheWay(e2, p2, q, t2)
  BY <1>c, <1>1, <1>2, <1>3 DEF OneOnTheWay
<1>6. WhatItIs(e2, p2, q, t2)
  <2>1. msg.kind # "error" /\ (msg.kind \in {"ok", "refused"} => e.sent > 0) /\ (msg.kind = "ok" => e.sent \in p2.took)
    BY <1>a, <1>b, <1>1
  <2> HIDE DEF last
  <2> QED
    BY <1>2, <1>3, <1>4, <2>1 DEF WhatItIs
<1>7. JobsInOrder(e2, p2, u, t2)
  <2>1. CASE p.due[1] = 0 /\ msg.kind = "welcome" /\ msg.job = 1 /\ p2.job = 1
    <3>1. p.job = 0 /\ e.job = 0 /\ e.sent = 0
      BY <1>0, <1>1, <1>a, <2>1 DEF WhatItIs, JobsInOrder
    <3>2. On(t, News) = {} /\ On(t, Welcomes) = {}
      <4>1. \A i \in On(t, News) : t[i].job <= 0 /\ 0 < t[i].job /\ t[i].job \in Nat
        BY <1>0, <3>1, JobsAre DEF JobsInOrder, News
      <4>2. On(t, News) = {}
        BY ONLY <4>1
      <4> QED
        BY <4>2, PartOf
    <3>3. On(t2, News) = {last} /\ On(t2, Welcomes) = {last}
      BY <2>1, <3>2, OnLast, Kinds
    <3>4. last \in Nat
      BY LenProperties
    <3> HIDE DEF last
    <3> QED
      <4>1. e2.job = 0 /\ e2.sent = 0 /\ p2.job = 1 /\ e2.waits /\ t2[last].job = 1
        BY <1>c, <1>3, <2>1, <3>1
      <4>2. u.job = 0
        BY <1>0, <3>1 DEF JobsInOrder
      <4>3. \A i, j \in On(t2, News) : ~(i < j)
        BY ONLY <3>3, <3>4
      <4> QED
        BY ONLY <3>3, <4>1, <4>2, <4>3 DEF JobsInOrder
  <2>2. CASE msg.kind \in {"ok", "refused"} /\ p2.job = p.job
    <3>1. /\ On(t2, News) = On(t, News) /\ \A i \in On(t, News) : t2[i] = t[i]
          /\ On(t2, Welcomes) = On(t, Welcomes) /\ \A i \in On(t, Welcomes) : t2[i] = t[i]
      <4>1. msg.kind \notin News /\ msg.kind \notin Welcomes
        BY <2>2, Kinds
      <4> QED
        BY ONLY <4>1, OnPast, t \in Seq(FromPool), t2 = Append(t, msg)
    <3>2. e2.sent = e.sent /\ e2.job = e.job /\ (e2.waits <=> e.waits)
      OBVIOUS
    <3> HIDE DEF last
    <3> QED
      BY ONLY <1>0, <2>2, <3>1, <3>2 DEF JobsInOrder
  <2> QED
    BY <1>b, <2>1, <2>2
<1>8. Outstanding(e2, u)
  BY <1>0 DEF Outstanding
<1> QED
  BY <1>5, <1>6, <1>7, <1>8 DEF Known

LEMMA KnownGone ==
    ASSUME NEW e, NEW e2, NEW p, NEW p2,
           NEW u, NEW q \in Seq(FromMiner), NEW t \in Seq(FromPool), NEW q2, NEW t2,
           Known(e, p, u, q, t),
           e2.sent = e.sent, e2.job = e.job, e2.waits <=> e.waits,
           p2.due = p.due, p2.job = p.job, p2.took = p.took, NEW msg, msg.kind \in {"eof", "reset", "odd"},
           (q2 = Append(q, msg) /\ t2 = t) \/ (q2 = q /\ t2 = Append(t, msg))
    PROVE  Known(e2, p2, u, q2, t2)
<1>0. OneOnTheWay(e, p, q, t) /\ WhatItIs(e, p, q, t) /\ JobsInOrder(e, p, u, t) /\ Outstanding(e, u)
  BY DEF Known
<1>1. /\ On(q2, Asks) = On(q, Asks)
      /\ On(q2, Given) = On(q, Given) /\ \A i \in On(q, Given) : q2[i] = q[i]
      /\ On(q2, Logins) = On(q, Logins) /\ \A i \in On(q, Logins) : q2[i] = q[i]
  <2>1. CASE q2 = q
    BY <2>1
  <2>2. CASE q2 = Append(q, msg)
    <3>1. msg.kind \notin Asks /\ msg.kind \notin Given /\ msg.kind \notin Logins
      BY Kinds
    <3>2. \A kinds : msg.kind \notin kinds =>
            On(q2, kinds) = On(q, kinds) /\ \A i \in On(q, kinds) : q2[i] = q[i]
      BY ONLY <2>2, OnPast, q \in Seq(FromMiner)
    <3> QED
      BY ONLY <3>1, <3>2
  <2> QED
    BY <2>1, <2>2
<1>2. /\ On(t2, Replies) = On(t, Replies) /\ \A i \in On(t, Replies) : t2[i] = t[i]
      /\ On(t2, News) = On(t, News) /\ \A i \in On(t, News) : t2[i] = t[i]
      /\ On(t2, Welcomes) = On(t, Welcomes) /\ \A i \in On(t, Welcomes) : t2[i] = t[i]
  <2>1. CASE t2 = t
    BY <2>1
  <2>2. CASE t2 = Append(t, msg)
    <3>1. msg.kind \notin Replies /\ msg.kind \notin News /\ msg.kind \notin Welcomes
      BY Kinds
    <3>2. \A kinds : msg.kind \notin kinds =>
            On(t2, kinds) = On(t, kinds) /\ \A i \in On(t, kinds) : t2[i] = t[i]
      BY ONLY <2>2, OnPast, t \in Seq(FromPool)
    <3> QED
      BY ONLY <3>1, <3>2
  <2> QED
    BY <2>1, <2>2
<1>3. OneOnTheWay(e2, p2, q2, t2)
  BY <1>0, <1>1, <1>2 DEF OneOnTheWay
<1>4. WhatItIs(e2, p2, q2, t2)
  BY <1>0, <1>1, <1>2, SMTT(40) DEF WhatItIs
<1>5. JobsInOrder(e2, p2, u, t2)
  BY <1>0, <1>2, ZenonT(60) DEF JobsInOrder
<1>6. Outstanding(e2, u)
  BY <1>0 DEF Outstanding
<1> QED
  BY <1>3, <1>4, <1>5, <1>6 DEF Known

(* What neither end takes for anything is read.                            *)
LEMMA KnownOddly ==
    ASSUME NEW e, NEW p, NEW u, NEW u2, NEW q, NEW t, NEW q2, NEW t2, Known(e, p, u, q, t),
           Left(q, q2), Left(t, t2), u2.in = u.in, u2.job = u.job, u2.submitted = u.submitted
    PROVE  Known(e, p, u2, q2, t2)
<1>0. OneOnTheWay(e, p, q, t) /\ WhatItIs(e, p, q, t) /\ JobsInOrder(e, p, u, t) /\ Outstanding(e, u)
  BY DEF Known
<1>1. \A kinds : (On(q, kinds) = {} => On(q2, kinds) = {}) /\ (On(t, kinds) = {} => On(t2, kinds) = {})
  BY DEF Left
<1>2. OneOnTheWay(e, p, q2, t2)
  <2>1. (\A i, j \in On(q2, Asks) : i = j) /\ \A i, j \in On(t2, Replies) : i = j
    BY <1>0 DEF Left, OneOnTheWay
  <2> QED
    BY ONLY <1>0, <1>1, <2>1 DEF OneOnTheWay
<1>3. WhatItIs(e, p, q2, t2)
  BY <1>0 DEF Left, WhatItIs
<1>4. JobsInOrder(e, p, u2, t2)
  <2>1. \A i, j \in On(t2, News) : i < j => t2[i].job < t2[j].job
    BY ONLY <1>0, OrderLeft, Left(t, t2) DEF JobsInOrder
  <2>2. \A i \in On(t2, News) : e.job < t2[i].job /\ t2[i].job <= p.job
    BY <1>0 DEF Left, JobsInOrder
  <2>3. \A i \in On(t2, Welcomes) : e.job = 0 /\ t2[i].job = 1
    BY <1>0 DEF Left, JobsInOrder
  <2> QED
    BY <1>0, <2>1, <2>2, <2>3 DEF JobsInOrder
<1>5. Outstanding(e, u2)
  BY <1>0 DEF Outstanding
<1> QED
  BY <1>2, <1>3, <1>4, <1>5 DEF Known

(* What the proxy passes on.                                               *)
LEMMA KnownUp ==
    ASSUME Tap!TapAssumption, NEW e \in PeerEnds, NEW p \in PoolEnds, NEW p2 \in PoolEnds,
           NEW u \in Entries, NEW u2 \in Entries, NEW q \in Seq(FromMiner), NEW t \in Seq(FromPool),
           Known(e, p, u, q, t), q # <<>>, NEW msg, msg = q[1],
           msg.kind \in {"login", "submit"}, msg.kind = "submit" => msg.n \in Tap!Shares,
           p2.due = Append(p.due, msg.n), p2.job = p.job, p2.took = p.took,
           u2.in = u.in, u2.job = u.job,
           u2.submitted = IF msg.kind = "submit" THEN [u.submitted EXCEPT ![msg.n] = msg.job] ELSE u.submitted
    PROVE  Known(e, p2, u2, Tail(q), t)
<1>0. OneOnTheWay(e, p, q, t) /\ WhatItIs(e, p, q, t) /\ JobsInOrder(e, p, u, t) /\ Outstanding(e, u)
  BY DEF Known
<1>a. e.sent \in Nat /\ e.job \in Nat /\ p.job \in Nat /\ \A n \in Tap!Shares : n \in Nat /\ n > 0 /\ u.submitted[n] \in Nat
  BY NumbersOf
<1>k. msg.kind \in Asks /\ (msg.kind = "submit" => msg.kind \in Given) /\ (msg.kind = "login" => msg.kind \in Logins)
  BY Kinds
<1>1. 1 \in On(q, Asks) /\ (msg.kind = "submit" => 1 \in On(q, Given)) /\ (msg.kind = "login" => 1 \in On(q, Logins))
  BY ONLY <1>k, OnTail, q \in Seq(FromMiner), q # <<>>, msg = q[1]
<1>2. On(Tail(q), Asks) = {}
  <2>1. \A i, j \in On(q, Asks) : i = j
    BY ONLY <1>0 DEF OneOnTheWay
  <2> QED
    BY ONLY <1>k, <2>1, NoneLeft, q \in Seq(FromMiner), q # <<>>, msg = q[1]
<1>3. p.due = <<>> /\ On(t, Replies) = {} /\ e.waits
  <2>1. On(q, Asks) # {}
    BY <1>1
  <2> QED
    BY ONLY <1>0, <2>1 DEF OneOnTheWay
<1>4. p2.due = <<msg.n>>
  <2>1. \A n : Append(<<>>, n) = <<n>>
    OBVIOUS
  <2> QED
    BY <1>3, <2>1
<1>5. p2.due # <<>> /\ Len(p2.due) = 1 /\ p2.due[1] = msg.n
  BY ONLY <1>4
<1>6. msg.n = e.sent /\ (msg.kind = "submit" => msg.job <= e.job /\ e.sent > 0) /\ (msg.kind = "login" => p.job = 0)
  <2>1. CASE msg.kind = "submit"
    <3>1. msg.n = e.sent /\ msg.job <= e.job
      BY ONLY <1>0, <1>1, <2>1, msg = q[1] DEF WhatItIs
    <3> QED
      BY <1>a, <2>1, <3>1
  <2>2. CASE msg.kind = "login"
    <3>1. msg.n = 0 /\ p.job = 0
      BY ONLY <1>0, <1>1, <2>2, msg = q[1] DEF WhatItIs
    <3>2. e.job <= p.job /\ (e.sent > 0 => e.job > 0)
      BY ONLY <1>0 DEF JobsInOrder
    <3>3. e.sent = 0
      BY ONLY <1>a, <3>1, <3>2
    <3> QED
      BY <2>2, <3>1, <3>3
  <2> QED
    BY <2>1, <2>2
<1>7. OneOnTheWay(e, p2, Tail(q), t)
  BY ONLY <1>2, <1>3, <1>5, <1>6 DEF OneOnTheWay
<1>8. WhatItIs(e, p2, Tail(q), t)
  <2>1. On(Tail(q), Given) = {} /\ On(Tail(q), Logins) = {}
    BY <1>2, PartOf
  <2>2. p2.due[1] = 0 => p2.job = 0
    <3>1. msg.n = 0 => msg.kind # "submit"
      BY ONLY <1>a, <1>6
    <3>2. msg.kind = "submit" \/ msg.kind = "login"
      OBVIOUS
    <3> QED
      BY ONLY <1>5, <1>6, <3>1, <3>2, p2.job = p.job
  <2> QED
    BY ONLY <1>3, <2>1, <2>2 DEF WhatItIs
<1>9. JobsInOrder(e, p2, u2, t)
  BY ONLY <1>0, p2.job = p.job, u2.job = u.job DEF JobsInOrder
<1>10. Outstanding(e, u2)
  <2>1. u.in /\ \A n \in Tap!Shares : /\ u.submitted[n] <= e.job
                                      /\ u.submitted[n] # 0 /\ u.submitted[n] >= u.job => n = e.sent /\ e.waits
    BY ONLY <1>0 DEF Outstanding
  <2>2. CASE msg.kind = "submit"
    <3>1. u2.submitted = [u.submitted EXCEPT ![msg.n] = msg.job]
      BY <2>2
    <3>2. u.submitted \in [Tap!Shares -> 0 .. LastJob] /\ msg.n \in Tap!Shares
      BY <2>2, EntryFields
    <3>3. \A n \in Tap!Shares : u2.submitted[n] = IF n = msg.n THEN msg.job ELSE u.submitted[n]
      BY ONLY <3>1, <3>2
    <3>4. ASSUME NEW n \in Tap!Shares
          PROVE  /\ u2.submitted[n] <= e.job
                 /\ u2.submitted[n] # 0 /\ u2.submitted[n] >= u2.job => n = e.sent /\ e.waits
      <4>1. CASE n = msg.n
        <5>1. u2.submitted[n] <= e.job
          BY <1>6, <2>2, <3>3, <4>1
        <5> QED
          BY <1>3, <1>6, <4>1, <5>1
      <4>2. CASE n # msg.n
        <5>1. u2.submitted[n] = u.submitted[n]
          BY <3>3, <4>2
        <5> QED
          BY ONLY <2>1, <5>1, n \in Tap!Shares, u2.job = u.job
      <4> QED
        BY <4>1, <4>2
    <3>5. u2.in
      BY <2>1
    <3> QED
      BY <3>4, <3>5 DEF Outstanding
  <2>3. CASE msg.kind # "submit"
    <3>1. u2.submitted = u.submitted
      BY <2>3
    <3> QED
      BY <2>1, <3>1 DEF Outstanding
  <2> QED
    BY <2>2, <2>3
<1> QED
  BY <1>7, <1>8, <1>9, <1>10 DEF Known

(* The rest of what is on its way to the miner, once it has msg.           *)
LEMMA JobsRest ==
    ASSUME Tap!TapAssumption, NEW e \in PeerEnds, NEW e2 \in PeerEnds, NEW p \in PoolEnds,
           NEW u \in Entries, NEW u2 \in Entries, NEW t \in Seq(FromPool), t # <<>>, NEW msg, msg = t[1],
           msg.kind \in News, JobsInOrder(e, p, u, t),
           e2.sent = e.sent, e2.job = msg.job, u2.job = msg.job \/ (u2.job = 0 /\ msg.job <= 1)
    PROVE  JobsInOrder(e2, p, u2, Tail(t)) /\ e.job < msg.job /\ msg.job \in Nat
<1>a. e.sent \in Nat /\ e.job \in Nat /\ p.job \in Nat
  BY NumbersOf
<1>1. 1 \in On(t, News)
  BY ONLY OnTail, t \in Seq(FromPool), t # <<>>, msg = t[1], msg.kind \in News
<1>2. \A i \in On(t, News) : e.job < t[i].job /\ t[i].job <= p.job
  BY ONLY JobsInOrder(e, p, u, t) DEF JobsInOrder
<1>3. \A i, j \in On(t, News) : i < j => t[i].job < t[j].job
  BY ONLY JobsInOrder(e, p, u, t) DEF JobsInOrder
<1>4. e.job < msg.job /\ msg.job <= p.job /\ msg.job \in Nat
  <2>1. msg.job \in Nat
    BY <1>1, JobsAre
  <2> QED
    BY ONLY <1>1, <1>2, <2>1, msg = t[1]
<1>5. \A i \in On(Tail(t), News) : /\ i \in Nat /\ i + 1 \in On(t, News) /\ i + 1 > 1 /\ Tail(t)[i] = t[i + 1]
  BY ONLY OnTail, t \in Seq(FromPool), t # <<>>
<1>6. \A i \in On(Tail(t), News) : msg.job < Tail(t)[i].job /\ Tail(t)[i].job <= p.job
  <2> SUFFICES ASSUME NEW i \in On(Tail(t), News) PROVE msg.job < Tail(t)[i].job /\ Tail(t)[i].job <= p.job
    OBVIOUS
  <2> DEFINE k == i + 1
  <2>1. k \in On(t, News) /\ 1 < k /\ Tail(t)[i] = t[k]
    BY <1>5
  <2> HIDE DEF k
  <2>2. t[1].job < t[k].job /\ t[k].job <= p.job
    BY ONLY <1>1, <1>2, <1>3, <2>1
  <2> QED
    BY ONLY <2>1, <2>2, msg = t[1]
<1>7. \A i, j \in On(Tail(t), News) : i < j => Tail(t)[i].job < Tail(t)[j].job
  <2>1. Left(t, Tail(t))
    BY TailLeft
  <2> QED
    BY ONLY <1>3, <2>1, OrderLeft
<1>8. On(Tail(t), Welcomes) = {}
  <2> SUFFICES ASSUME NEW i \in On(Tail(t), Welcomes) PROVE FALSE
    OBVIOUS
  <2>1. i \in On(Tail(t), News) /\ msg.job < Tail(t)[i].job
    BY <1>6, PartOf
  <2> DEFINE k == i + 1
  <2>2. k \in On(t, Welcomes) /\ Tail(t)[i] = t[k]
    BY OnTail
  <2> HIDE DEF k
  <2>3. t[k].job = 1
    BY ONLY <2>2, JobsInOrder(e, p, u, t) DEF JobsInOrder
  <2>4. msg.job < 1
    BY ONLY <2>1, <2>2, <2>3
  <2> QED
    BY ONLY <1>4, <1>a, <2>4
<1>9. e2.job <= p.job /\ e2.job > 0 /\ (u2.job = e2.job \/ (u2.job = 0 /\ e2.job <= 1))
  BY <1>4, <1>a
<1>10. JobsInOrder(e2, p, u2, Tail(t))
  <2>1. /\ e2.job <= p.job
        /\ e2.sent > 0 => e2.job > 0
        /\ e2.job # 0
        /\ \A i \in On(Tail(t), News) : e2.job < Tail(t)[i].job /\ Tail(t)[i].job <= p.job
    <3>1. e2.job = msg.job /\ e2.job \in Nat
      BY <1>4
    <3>2. \A i \in On(Tail(t), News) : e2.job < Tail(t)[i].job /\ Tail(t)[i].job <= p.job
      BY ONLY <1>6, <3>1, Zenon
    <3>3. e2.job # 0
      BY ONLY <1>9, <3>1
    <3> QED
      BY ONLY <1>9, <3>2, <3>3
  <2> QED
    BY ONLY <1>7, <1>8, <1>9, <2>1 DEF JobsInOrder
<1> QED
  BY <1>4, <1>10

LEMMA KnownTold ==
    ASSUME Tap!TapAssumption, NEW e \in PeerEnds, NEW e2 \in PeerEnds, NEW p \in PoolEnds,
           NEW u \in Entries, NEW u2 \in Entries, NEW q \in Seq(FromMiner), NEW t \in Seq(FromPool),
           Known(e, p, u, q, t), t # <<>>, NEW msg, msg = t[1], msg.kind = "job",
           e2.sent = e.sent, e2.job = msg.job, e2.waits = e.waits,
           u2.in = u.in, u2.job = msg.job, u2.submitted = u.submitted
    PROVE  Known(e2, p, u2, q, Tail(t))
<1>0. OneOnTheWay(e, p, q, t) /\ WhatItIs(e, p, q, t) /\ JobsInOrder(e, p, u, t) /\ Outstanding(e, u)
  BY DEF Known
<1>a. e.job \in Nat /\ \A n \in Tap!Shares : u.submitted[n] \in Nat
  BY NumbersOf
<1>k. msg.kind \in News
  BY Kinds
<1>1. JobsInOrder(e2, p, u2, Tail(t)) /\ e.job < msg.job /\ msg.job \in Nat
  BY <1>0, <1>k, JobsRest
<1>2. Left(t, Tail(t))
  BY TailLeft
<1>5. OneOnTheWay(e2, p, q, Tail(t))
  <2>1. On(t, Replies) = {} => On(Tail(t), Replies) = {}
    BY ONLY <1>2 DEF Left
  <2>2. \A i, j \in On(Tail(t), Replies) : i = j
    BY ONLY <1>0, <1>2 DEF Left, OneOnTheWay
  <2> QED
    BY ONLY <1>0, <2>1, <2>2, e2.sent = e.sent, e2.waits = e.waits DEF OneOnTheWay
<1>6. WhatItIs(e2, p, q, Tail(t))
  <2>1. \A i \in On(q, Given) : q[i].n = e2.sent /\ q[i].job <= e2.job
    <3> SUFFICES ASSUME NEW i \in On(q, Given) PROVE q[i].n = e2.sent /\ q[i].job <= e2.job
      OBVIOUS
    <3>1. q[i].n = e.sent /\ q[i].job <= e.job
      BY ONLY <1>0, i \in On(q, Given) DEF WhatItIs
    <3>2. q[i].job \in Nat
      <4>1. q[i] \in FromMiner
        BY DEF On
      <4>2. q[i].job \in 0 .. LastJob
        BY ONLY <4>1 DEF FromMiner
      <4> QED
        BY <4>2, TapAllowed
    <3> QED
      BY ONLY <1>1, <1>a, <3>1, <3>2, e2.sent = e.sent, e2.job = msg.job
  <2>2. ASSUME NEW i \in On(Tail(t), Replies)
        PROVE  /\ Tail(t)[i].kind # "error"
               /\ Tail(t)[i].kind \in {"ok", "refused"} => e2.sent > 0
               /\ Tail(t)[i].kind = "ok" => e2.sent \in p.took
    <3>1. PICK k \in On(t, Replies) : Tail(t)[i] = t[k]
      BY ONLY <1>2, i \in On(Tail(t), Replies) DEF Left
    <3>2. /\ t[k].kind # "error" /\ (t[k].kind \in {"ok", "refused"} => e.sent > 0)
          /\ t[k].kind = "ok" => e.sent \in p.took
      BY ONLY <1>0, <3>1 DEF WhatItIs
    <3> QED
      BY ONLY <3>1, <3>2, e2.sent = e.sent
  <2>3. /\ \A i \in On(q, Logins) : p.job = 0 /\ q[i].n = 0
        /\ p.due # <<>> /\ p.due[1] = 0 => p.job = 0
    BY ONLY <1>0 DEF WhatItIs
  <2> QED
    BY ONLY <2>1, <2>2, <2>3 DEF WhatItIs
<1>7. Outstanding(e2, u2)
  <2>1. u.in /\ \A n \in Tap!Shares : u.submitted[n] <= e.job
    BY ONLY <1>0 DEF Outstanding
  <2>2. ASSUME NEW n \in Tap!Shares PROVE u2.submitted[n] <= e2.job /\ ~(u2.submitted[n] >= u2.job)
    <3>1. u.submitted[n] <= e.job /\ u.submitted[n] \in Nat
      BY <1>a, <2>1
    <3> QED
      BY ONLY <1>1, <1>a, <3>1, e2.job = msg.job, u2.job = msg.job, u2.submitted = u.submitted
  <2>3. u2.in
    BY <2>1
  <2> QED
    BY ONLY <2>2, <2>3 DEF Outstanding
<1> QED
  BY <1>1, <1>5, <1>6, <1>7 DEF Known

(* An answer leaves nothing on its way, and nothing outstanding.           *)
LEMMA KnownAnswered ==
    ASSUME Tap!TapAssumption, NEW e \in PeerEnds, NEW e2 \in PeerEnds, NEW p \in PoolEnds,
           NEW u \in Entries, NEW u2 \in Entries, NEW q \in Seq(FromMiner), NEW t \in Seq(FromPool),
           Known(e, p, u, q, t), t # <<>>, NEW msg, msg = t[1], msg.kind \in Replies,
           e2.sent = e.sent, ~e2.waits, u2.in = u.in, u2.job = u.job,
           \/ /\ msg.kind = "welcome" /\ e2.job = msg.job /\ u2.submitted = u.submitted
           \/ /\ msg.kind \in {"ok", "refused"} /\ e2.job = e.job
              /\ u.job # 0 \/ Tap!Held(u) = {}
              /\ u2.submitted = [n \in Tap!Shares |-> IF n \in Tap!Matching(u) THEN 0 ELSE u.submitted[n]]
    PROVE  Known(e2, p, u2, q, Tail(t))
<1>0. OneOnTheWay(e, p, q, t) /\ WhatItIs(e, p, q, t) /\ JobsInOrder(e, p, u, t) /\ Outstanding(e, u)
  BY DEF Known
<1>a. /\ e.sent \in Nat /\ e.job \in Nat /\ p.job \in Nat /\ u.job \in Nat
      /\ \A n \in Tap!Shares : n \in Nat /\ n > 0 /\ u.submitted[n] \in Nat
  BY NumbersOf
<1>1. 1 \in On(t, Replies)
  BY ONLY OnTail, t \in Seq(FromPool), t # <<>>, msg = t[1], msg.kind \in Replies
<1>2. On(t, Replies) # {}
  BY <1>1
<1>3. On(q, Asks) = {}
  BY ONLY <1>0, <1>2 DEF OneOnTheWay
<1>4. p.due = <<>>
  BY ONLY <1>0, <1>2 DEF OneOnTheWay
<1>5. On(Tail(t), Replies) = {}
  <2>1. \A i, j \in On(t, Replies) : i = j
    BY ONLY <1>0 DEF OneOnTheWay
  <2> QED
    BY ONLY <2>1, NoneLeft, t \in Seq(FromPool), t # <<>>, msg = t[1], msg.kind \in Replies
<1>6. OneOnTheWay(e2, p, q, Tail(t))
  BY ONLY <1>3, <1>4, <1>5 DEF OneOnTheWay
<1>7. WhatItIs(e2, p, q, Tail(t))
  <2>1. On(q, Given) = {} /\ On(q, Logins) = {}
    BY <1>3, PartOf
  <2> QED
    BY ONLY <1>4, <1>5, <2>1 DEF WhatItIs
<1>8. CASE msg.kind = "welcome" /\ e2.job = msg.job /\ u2.submitted = u.submitted
  <2>1. msg.kind \in News /\ msg.kind \in Welcomes
    BY <1>8, Kinds
  <2>2. 1 \in On(t, Welcomes)
    BY ONLY <2>1, OnTail, t \in Seq(FromPool), t # <<>>, msg = t[1]
  <2>3. e.job = 0 /\ msg.job = 1
    BY ONLY <1>0, <2>2, msg = t[1] DEF JobsInOrder
  <2>4. e.sent = 0 /\ u.job = 0
    <3>1. (e.sent > 0 => e.job > 0) /\ (u.job = e.job \/ u.job = 0)
      BY ONLY <1>0 DEF JobsInOrder
    <3> QED
      BY ONLY <1>a, <2>3, <3>1
  <2>5. JobsInOrder(e2, p, u2, Tail(t))
    <3>1. u2.job = 0 /\ msg.job <= 1
      BY <2>3, <2>4
    <3> QED
      BY <1>0, <1>8, <2>1, <3>1, JobsRest
  <2>6. Outstanding(e2, u2)
    <3>1. u.in /\ \A n \in Tap!Shares : /\ u.submitted[n] <= e.job
                                        /\ u.submitted[n] # 0 /\ u.submitted[n] >= u.job => n = e.sent
      BY ONLY <1>0 DEF Outstanding
    <3>2. ASSUME NEW n \in Tap!Shares PROVE u2.submitted[n] <= e2.job /\ u2.submitted[n] = 0
      <4>1. u.submitted[n] <= 0 /\ u.submitted[n] \in Nat
        BY <1>a, <2>3, <3>1
      <4>2. u.submitted[n] = 0
        BY ONLY <4>1
      <4>3. e2.job = 1 /\ u2.submitted[n] = 0
        BY <1>8, <2>3, <4>2
      <4> QED
        BY ONLY <4>3
    <3>3. u2.in
      BY <3>1
    <3> QED
      BY ONLY <3>2, <3>3 DEF Outstanding
  <2> QED
    BY <1>6, <1>7, <2>5, <2>6 DEF Known
<1>9. CASE /\ msg.kind \in {"ok", "refused"} /\ e2.job = e.job
           /\ u.job # 0 \/ Tap!Held(u) = {}
           /\ u2.submitted = [n \in Tap!Shares |-> IF n \in Tap!Matching(u) THEN 0 ELSE u.submitted[n]]
  <2>1. msg.kind \notin News /\ msg.kind \notin Welcomes
    BY <1>9, Kinds
  <2>2. e.sent > 0 /\ e.job > 0
    <3>1. e.sent > 0
      BY ONLY <1>0, <1>1, <1>9, msg = t[1] DEF WhatItIs
    <3>2. e.sent > 0 => e.job > 0
      BY ONLY <1>0 DEF JobsInOrder
    <3> QED
      BY <3>1, <3>2
  <2>3. JobsInOrder(e2, p, u2, Tail(t))
    <3>1. /\ e.job <= p.job
          /\ \A i \in On(t, News) : e.job < t[i].job /\ t[i].job <= p.job
          /\ \A i, j \in On(t, News) : i < j => t[i].job < t[j].job
          /\ \A i \in On(t, Welcomes) : e.job = 0
          /\ u.job = e.job \/ (u.job = 0 /\ e.job <= 1)
      BY ONLY <1>0 DEF JobsInOrder
    <3>2. Left(t, Tail(t))
      BY TailLeft
    <3>4. \A i \in On(Tail(t), News) : e.job < Tail(t)[i].job /\ Tail(t)[i].job <= p.job
      BY ONLY <3>1, <3>2 DEF Left
    <3>5. \A i, j \in On(Tail(t), News) : i < j => Tail(t)[i].job < Tail(t)[j].job
      BY ONLY <3>1, <3>2, OrderLeft
    <3>6. On(Tail(t), Welcomes) = {}
      <4>1. On(t, Welcomes) = {}
        BY <2>2, <3>1
      <4> QED
        BY ONLY <3>2, <4>1 DEF Left
    <3>7. e2.job = e.job /\ e2.job > 0 /\ e2.job # 0 /\ u2.job = u.job
      BY <1>9, <1>a, <2>2
    <3>8. /\ e2.job <= p.job
          /\ \A i \in On(Tail(t), News) : e2.job < Tail(t)[i].job /\ Tail(t)[i].job <= p.job
          /\ u2.job = e2.job \/ (u2.job = 0 /\ e2.job <= 1)
      BY ONLY <3>1, <3>4, <3>7
    <3> QED
      BY ONLY <3>5, <3>6, <3>7, <3>8 DEF JobsInOrder
  <2>4. Outstanding(e2, u2)
    <3>1. u.in /\ \A n \in Tap!Shares : u.submitted[n] <= e.job
      BY ONLY <1>0 DEF Outstanding
    <3>2. ASSUME NEW n \in Tap!Shares
          PROVE  u2.submitted[n] <= e2.job /\ ~(u2.submitted[n] # 0 /\ u2.submitted[n] >= u2.job)
      <4>1. u2.submitted[n] = IF n \in Tap!Matching(u) THEN 0 ELSE u.submitted[n]
        BY <1>9
      <4>2. u.submitted[n] <= e.job /\ u.submitted[n] \in Nat
        BY <1>a, <3>1
      <4>3. CASE n \in Tap!Matching(u)
        <5>1. u2.submitted[n] = 0 /\ e2.job = e.job
          BY <1>9, <4>1, <4>3
        <5> QED
          BY ONLY <1>a, <5>1
      <4>4. CASE n \notin Tap!Matching(u)
        <5>1. u2.submitted[n] = u.submitted[n] /\ e2.job = e.job /\ u2.job = u.job
          BY <1>9, <4>1, <4>4
        <5>2. u.submitted[n] = 0 \/ u.submitted[n] # u.job
          BY <4>4 DEF Tap!Matching, Tap!Held
        <5>3. u.submitted[n] # 0 => u.job # 0
          BY <1>9 DEF Tap!Held
        <5>4. u.job = e.job \/ u.job = 0
          BY ONLY <1>0 DEF JobsInOrder
        <5>5. ~(u.submitted[n] # 0 /\ u.submitted[n] >= u.job)
          BY ONLY <1>a, <4>2, <5>2, <5>3, <5>4
        <5> QED
          BY ONLY <4>2, <5>1, <5>5
      <4> QED
        BY <4>3, <4>4
    <3>3. u2.in
      BY <3>1
    <3> QED
      BY ONLY <3>2, <3>3 DEF Outstanding
  <2> QED
    BY <1>6, <1>7, <2>3, <2>4 DEF Known
<1> QED
  BY <1>8, <1>9

(* What matches is the share that the answer is for.                       *)
LEMMA AnswerIsFor ==
    ASSUME Tap!TapAssumption, NEW e, NEW p, NEW u \in Entries, NEW q, NEW t \in Seq(FromPool),
           Known(e, p, u, q, t), t # <<>>, t[1].kind = "ok"
    PROVE  Tap!Matching(u) \subseteq p.took
<1>0. WhatItIs(e, p, q, t) /\ Outstanding(e, u)
  BY DEF Known
<1>k. t[1].kind \in Replies
  BY Kinds
<1>1. 1 \in On(t, Replies)
  BY ONLY <1>k, OnTail, t \in Seq(FromPool), t # <<>>
<1>2. e.sent \in p.took
  BY ONLY <1>0, <1>1, t[1].kind = "ok" DEF WhatItIs
<1>3. ASSUME NEW n \in Tap!Matching(u) PROVE n = e.sent
  <2>1. n \in Tap!Shares /\ u.submitted[n] # 0 /\ u.submitted[n] = u.job
    BY DEF Tap!Matching, Tap!Held
  <2>2. u.job \in Nat
    BY EntryFields, TapAllowed
  <2>3. u.submitted[n] >= u.job
    BY ONLY <2>1, <2>2
  <2> QED
    BY ONLY <1>0, <2>1, <2>3 DEF Outstanding
<1> QED
  BY <1>2, <1>3

LEMMA ExactOthers ==
    ASSUME ExactInv, NEW m \in Miners,
           ExactOf(link'[m], peer'[m], pool'[m], entry'[m], credit'[m], ToProxy(m)', ToMiner(m)'),
           \A k \in Miners : k # m =>
             /\ link'[k] = link[k] /\ entry'[k] = entry[k] /\ peer'[k] = peer[k] /\ pool'[k] = pool[k] /\ credit'[k] = credit[k]
             /\ ToProxy(k)' = ToProxy(k) /\ ToMiner(k)' = ToMiner(k)
    PROVE  ExactInv'
<1>1. \A k \in Miners : ExactOf(link'[k], peer'[k], pool'[k], entry'[k], credit'[k], ToProxy(k)', ToMiner(k)')
  BY DEF ExactInv
<1> QED
  BY ONLY <1>1 DEF ExactInv

LEMMA ExactQuiet ==
    ASSUME Tap!TapAssumption, TapInv, ExactInv, NEW m \in Miners, Opens(m) \/ Refuses(m) \/ Drops(m)
    PROVE  ExactInv'
<1>1. Quiet(m)
  BY DEF Opens, Refuses, Drops
<1>2. \A k \in Miners : ToProxy(k)' = ToProxy(k) /\ ToMiner(k)' = ToMiner(k)
  BY <1>1 DEF Quiet, ToProxy, ToMiner
<1>3. /\ peer' = peer /\ pool' = pool /\ credit' = credit
      /\ \A k \in Miners : k # m => link'[k] = link[k] /\ entry'[k] = entry[k]
  BY <1>1 DEF Quiet
<1>4. ExactOf(link[m], peer[m], pool[m], entry[m], credit[m], ToProxy(m), ToMiner(m))
  BY DEF ExactInv
<1>5. ExactOf(link'[m], peer[m], pool[m], entry'[m], credit[m], ToProxy(m), ToMiner(m))
  <2>1. CASE Opens(m)
    <3>1. link[m] = "asks" /\ link'[m] = "open" /\ Fresh(entry'[m]) /\ entry'[m].in
      BY <2>1 DEF Opens
    <3>2. New(peer[m], pool[m], ToProxy(m), ToMiner(m))
      BY <1>4, <3>1 DEF ExactOf
    <3> DEFINE e == peer[m]
               p == pool[m]
               u == entry'[m]
               q == ToProxy(m)
               t == ToMiner(m)
    <3>3. /\ q = <<>> /\ t = <<>> /\ p.due = <<>> /\ p.job = 0 /\ e.sent = 0 /\ e.job = 0 /\ ~e.waits
          /\ u.in /\ u.job = 0 /\ \A n \in Tap!Shares : u.submitted[n] = 0
      BY <3>1, <3>2 DEF New, Fresh
    <3> HIDE DEF e, p, u, q, t
    <3>4. \A kinds : On(q, kinds) = {} /\ On(t, kinds) = {}
      BY <3>3 DEF On
    <3>5. OneOnTheWay(e, p, q, t)
      BY ONLY <3>3, <3>4 DEF OneOnTheWay
    <3>6. WhatItIs(e, p, q, t)
      BY ONLY <3>3, <3>4 DEF WhatItIs
    <3>7. JobsInOrder(e, p, u, t)
      BY ONLY <3>3, <3>4 DEF JobsInOrder
    <3>8. Outstanding(e, u)
      <4>1. \A n \in Tap!Shares : u.submitted[n] <= e.job
        BY ONLY <3>3
      <4> QED
        BY ONLY <3>3, <4>1 DEF Outstanding
    <3>9. Known(e, p, u, q, t)
      BY ONLY <3>5, <3>6, <3>7, <3>8 DEF Known
    <3> QED
      BY <1>4, <3>1, <3>9 DEF ExactOf, e, p, u, q, t
  <2>2. CASE Refuses(m) \/ Drops(m)
    <3>1. link'[m] = "closed"
      BY <2>2 DEF Refuses, Drops
    <3> QED
      BY <1>4, <3>1 DEF ExactOf
  <2> QED
    BY <2>1, <2>2
<1> QED
  BY <1>2, <1>3, <1>5, ExactOthers

LEMMA ExactEnds ==
    ASSUME Tap!TapAssumption, Exact, TapInv, TapInv', ExactInv, NEW m \in Miners, EndStep(m)
    PROVE  ExactInv'
<1>1. entry' = entry /\ credit' = credit /\ Others(m)
  BY DEF EndStep
<1>t. TapTypes /\ TapTypes'
  BY DEF TapInv
<1> DEFINE e == peer[m]
           e2 == peer'[m]
           p == pool[m]
           p2 == pool'[m]
           u == entry[m]
           c == credit[m]
           q == ToProxy(m)
           q2 == ToProxy(m)'
           t == ToMiner(m)
           t2 == ToMiner(m)'
<1>2. /\ e \in PeerEnds /\ p \in PoolEnds /\ u \in Entries /\ q \in Seq(FromMiner) /\ t \in Seq(FromPool)
      /\ e2 \in PeerEnds /\ p2 \in PoolEnds
  <2>1. e2 \in PeerEnds /\ p2 \in PoolEnds
    BY <1>t DEF TapTypes
  <2> QED
    BY <1>t, <2>1, TapParts
<1>3. ExactOf(link[m], e, p, u, c, q, t)
  BY DEF ExactInv
<1>4. ExactOf(link'[m], e2, p2, u, c, q2, t2)
  <2>1. CASE Connects(m)
    <3>1. /\ link[m] = "none" /\ link'[m] = "asks" /\ q2 = q /\ t2 = t
          /\ e2.sent = e.sent /\ e2.job = e.job /\ (e2.waits <=> e.waits)
          /\ p2.due = p.due /\ p2.job = p.job /\ p2.took = p.took
      BY <2>1 DEF Connects, KeepsPeer, KeepsPool
    <3> HIDE DEF e, e2, p, p2, u, c, q, q2, t, t2
    <3>2. New(e2, p2, q, t)
      BY <1>3, <3>1, KnownConnect DEF ExactOf
    <3> QED
      BY ONLY <1>3, <3>1, <3>2 DEF ExactOf
  <2>2. CASE link[m] = "open" /\ link'[m] = "open" /\ (\A n \in p.took : n \in p2.took) /\ Known(e2, p2, u, q2, t2)
    <3> HIDE DEF e, e2, p, p2, u, c, q, q2, t, t2
    <3> QED
      BY ONLY <1>3, <2>2 DEF ExactOf
  <2>3. link[m] = "open" => Known(e, p, u, q, t)
    BY <1>3 DEF ExactOf
  <2>4. CASE LogsIn(m)
    <3>1. PICK msg \in FromMiner : Sends(m, msg) /\ msg.kind \in {"login", "hello"} /\ msg.n = 0
      BY <2>4 DEF LogsIn
    <3>2. /\ link[m] = "open" /\ link'[m] = "open"
          /\ ~e.waits /\ e.job = 0 /\ e2.sent = e.sent /\ e2.job = e.job /\ e2.waits
          /\ p2.due = p.due /\ p2.job = p.job /\ p2.took = p.took
      BY <2>4 DEF LogsIn, KeepsPool
    <3>3. q2 = Append(q, msg) /\ t2 = t
      BY <3>1 DEF Sends
    <3> HIDE DEF e, e2, p, p2, u, c, q, q2, t, t2
    <3>4. Known(e2, p2, u, q2, t2)
      BY <1>2, <2>3, <3>1, <3>2, <3>3, KnownLogin
    <3> QED
      BY <2>2, <3>2, <3>4
  <2>5. CASE Hands(m)
    <3>1. PICK msg \in FromMiner : Sends(m, msg) /\ msg.kind = "submit" /\ msg.job = e.job /\ msg.n = e.sent + 1
      BY <2>5 DEF Hands
    <3>2. /\ link[m] = "open" /\ link'[m] = "open"
          /\ ~e.waits /\ e.job > 0 /\ e2.sent = e.sent + 1 /\ e2.job = e.job /\ e2.waits
          /\ p2.due = p.due /\ p2.job = p.job /\ p2.took = p.took
      BY <2>5 DEF Hands, KeepsPool, Exact
    <3>3. q2 = Append(q, msg) /\ t2 = t
      BY <3>1 DEF Sends
    <3> HIDE DEF e, e2, p, p2, u, c, q, q2, t, t2
    <3>4. Known(e2, p2, u, q2, t2)
      BY <1>2, <2>3, <3>1, <3>2, <3>3, KnownSubmit
    <3> QED
      BY <2>2, <3>2, <3>4
  <2>6. CASE Announces(m)
    <3>1. PICK msg \in FromPool : Gets(m, msg) /\ msg.kind = "job" /\ msg.job = p.job + 1
      BY <2>6 DEF Announces
    <3>2. /\ link[m] = "open" /\ link'[m] = "open"
          /\ e2.sent = e.sent /\ e2.job = e.job /\ (e2.waits <=> e.waits)
          /\ p.job > 0 /\ p2.due = p.due /\ p2.job = p.job + 1 /\ p2.took = p.took
      BY <2>6 DEF Announces, KeepsPeer
    <3>3. t2 = Append(t, msg) /\ q2 = q
      BY <3>1 DEF Gets
    <3> HIDE DEF e, e2, p, p2, u, c, q, q2, t, t2
    <3>4. Known(e2, p2, u, q2, t2)
      BY <1>2, <2>3, <3>1, <3>2, <3>3, KnownNews
    <3> QED
      BY <2>2, <3>2, <3>4
  <2>7. CASE Settles(m)
    <3>1. PICK msg \in FromPool :
             /\ Gets(m, msg)
             /\ \/ /\ p.due[1] = 0 /\ msg.kind = "welcome" /\ msg.job = 1 /\ p2.job = 1 /\ p2.took = p.took
                \/ /\ p.due[1] # 0 /\ msg.kind \in Answers /\ p2.job = p.job
                   /\ p2.took = IF msg.kind = "ok" THEN p.took \cup {p.due[1]} ELSE p.took
      BY <2>7 DEF Settles
    <3>2. /\ link[m] = "open" /\ link'[m] = "open"
          /\ e2.sent = e.sent /\ e2.job = e.job /\ (e2.waits <=> e.waits)
          /\ p.due # <<>> /\ p2.due = Tail(p.due)
      BY <2>7 DEF Settles, KeepsPeer
    <3>3. t2 = Append(t, msg) /\ q2 = q /\ "error" \notin Answers
      BY <3>1 DEF Gets, Exact
    <3> HIDE DEF e, e2, p, p2, u, c, q, q2, t, t2
    <3>4. Known(e2, p2, u, q2, t2)
      BY <1>2, <2>3, <3>1, <3>2, <3>3, KnownSettled
    <3>5. \A n \in p.took : n \in p2.took
      BY <3>1
    <3> QED
      BY <2>2, <3>2, <3>4, <3>5
  <2>8. CASE Departs(m)
    <3>1. PICK msg : /\ msg.kind \in {"eof", "reset", "odd"}
                     /\ (q2 = Append(q, msg) /\ t2 = t) \/ (q2 = q /\ t2 = Append(t, msg))
      BY <2>8 DEF Departs, Sends, Gets
    <3>2. /\ link[m] = "open" /\ link'[m] = "open"
          /\ e2.sent = e.sent /\ e2.job = e.job /\ (e2.waits <=> e.waits)
          /\ p2.due = p.due /\ p2.job = p.job /\ p2.took = p.took
      BY <2>8 DEF Departs, KeepsPeer, KeepsPool
    <3> HIDE DEF e, e2, p, p2, u, c, q, q2, t, t2
    <3>4. Known(e2, p2, u, q2, t2)
      BY <1>2, <2>3, <3>1, <3>2, KnownGone
    <3> QED
      BY <2>2, <3>2, <3>4
  <2> QED
    BY <2>1, <2>4, <2>5, <2>6, <2>7, <2>8 DEF EndStep
<1> QED
  BY <1>1, <1>4, ExactOthers DEF Others

LEMMA ExactPassed ==
    ASSUME Tap!TapAssumption, TapInv, TapInv', ExactInv, NEW m \in Miners, NEW msg, Passed(m, msg, TRUE)
    PROVE  ExactInv'
<1>t. TapTypes /\ TapTypes' /\ SharesOnce /\ Passes1(m) /\ Kept(m, msg, TRUE)
  BY DEF TapInv, Passed
<1> DEFINE e == peer[m]
           e2 == peer'[m]
           p == pool[m]
           p2 == pool'[m]
           u == entry[m]
           u2 == entry'[m]
           c == credit[m]
           c2 == credit'[m]
           q == ToProxy(m)
           q2 == ToProxy(m)'
           t == ToMiner(m)
           t2 == ToMiner(m)'
<1>2. /\ e \in PeerEnds /\ p \in PoolEnds /\ u \in Entries /\ q \in Seq(FromMiner) /\ t \in Seq(FromPool)
      /\ e2 \in PeerEnds /\ p2 \in PoolEnds /\ u2 \in Entries /\ c \in [Tap!Shares -> Nat]
  <2>1. e2 \in PeerEnds /\ p2 \in PoolEnds /\ u2 \in Entries
    BY <1>t DEF TapTypes
  <2> QED
    BY <1>t, <2>1, TapParts
<1>3. ExactOf(link[m], e, p, u, c, q, t) /\ link[m] = "open" /\ link'[m] = "open"
  BY <1>t DEF ExactInv, Passes1
<1>4. Known(e, p, u, q, t) /\ \A n \in Tap!Shares : c[n] > 0 => n \in p.took
  BY <1>3 DEF ExactOf
<1>k. ASSUME msg.kind \notin {"ok", "refused"}
      PROVE  /\ u2.in = u.in /\ c2 = c /\ u2.job = (IF msg.kind = "job" THEN msg.job ELSE u.job)
             /\ u2.submitted = IF msg.kind = "submit" THEN [u.submitted EXCEPT ![msg.n] = msg.job] ELSE u.submitted
  BY <1>t, <1>k DEF Kept, EntryWith
<1>5. ASSUME Upward(m, msg) PROVE ExactOf(link'[m], e2, p2, u2, c2, q2, t2)
  <2>1. /\ q # <<>> /\ msg = q[1] /\ msg.kind \in {"login", "submit"} /\ q2 = Tail(q) /\ t2 = t
        /\ e2 = e /\ p2.due = Append(p.due, msg.n) /\ p2.job = p.job /\ p2.took = p.took
    BY <1>5 DEF Upward, FromOne
  <2>2. /\ u2.in = u.in /\ u2.job = u.job /\ c2 = c
        /\ u2.submitted = IF msg.kind = "submit" THEN [u.submitted EXCEPT ![msg.n] = msg.job] ELSE u.submitted
    BY <1>k, <2>1
  <2>3. msg.kind = "submit" => msg.n \in Tap!Shares
    <3>1. 1 \in DOMAIN q
      BY <1>2, <2>1, FrontOff
    <3>2. msg.kind = "submit" => 1 \in Submits(m)
      BY <2>1, <3>1 DEF Submits
    <3>3. msg.kind = "submit" => msg.n \in 1 .. e.sent
      BY <1>t, <2>1, <3>2 DEF SharesOnce, OnceOf
    <3> QED
      BY <1>2, <3>3, PeerIs, SharesFinite
  <2> HIDE DEF e, e2, p, p2, u, u2, c, c2, q, q2, t, t2
  <2>4. Known(e, p2, u2, Tail(q), t)
    BY <1>2, <1>4, <2>1, <2>2, <2>3, KnownUp
  <2> QED
    BY ONLY <1>3, <1>4, <2>1, <2>2, <2>4 DEF ExactOf
<1>6. ASSUME Downward(m, msg) PROVE ExactOf(link'[m], e2, p2, u2, c2, q2, t2)
  <2>1. /\ t # <<>> /\ msg = t[1] /\ msg.kind \in {"welcome", "job", "ok", "refused", "error"} /\ t2 = Tail(t) /\ q2 = q
        /\ p2 = p /\ e2.sent = e.sent
        /\ e2.job = IF msg.kind \in {"welcome", "job"} THEN msg.job ELSE e.job
        /\ IF msg.kind = "job" THEN e2.waits = e.waits ELSE ~e2.waits
    BY <1>6 DEF Downward, FromTheOther
  <2>2. CASE msg.kind = "job"
    <3>1. u2.in = u.in /\ u2.job = msg.job /\ u2.submitted = u.submitted /\ c2 = c
      BY <1>k, <2>2
    <3>2. e2.job = msg.job /\ e2.waits = e.waits
      BY <2>1, <2>2
    <3> HIDE DEF e, e2, p, p2, u, u2, c, c2, q, q2, t, t2
    <3>3. Known(e2, p, u2, q, Tail(t))
      BY <1>2, <1>4, <2>1, <2>2, <3>1, <3>2, KnownTold
    <3> QED
      BY ONLY <1>3, <1>4, <2>1, <3>1, <3>3 DEF ExactOf
  <2>3. CASE msg.kind = "welcome"
    <3>1. u2.in = u.in /\ u2.job = u.job /\ u2.submitted = u.submitted /\ c2 = c
      BY <1>k, <2>3
    <3>2. e2.job = msg.job /\ ~e2.waits /\ msg.kind \in Replies
      BY <2>1, <2>3, Kinds
    <3> HIDE DEF e, e2, p, p2, u, u2, c, c2, q, q2, t, t2
    <3>4. Known(e2, p, u2, q, Tail(t))
      BY <1>2, <1>4, <2>1, <2>3, <3>1, <3>2, KnownAnswered
    <3> QED
      BY ONLY <1>3, <1>4, <2>1, <3>1, <3>4 DEF ExactOf
  <2>4. CASE msg.kind \in {"ok", "refused"}
    <3>0. PICK got : (got # {} => msg.kind = "ok") /\ Counted(m, got, Tap!Matching(u))
      BY <1>t, <2>4 DEF Kept
    <3>1. /\ u2.in = u.in /\ u2.job = u.job /\ got \subseteq Tap!Matching(u)
          /\ u2.submitted = [n \in Tap!Shares |-> IF n \in Tap!Matching(u) THEN 0 ELSE u.submitted[n]]
          /\ c2 = [n \in Tap!Shares |-> IF n \in got THEN c[n] + 1 ELSE c[n]]
      BY <3>0 DEF Counted
    <3>2. e2.job = e.job /\ ~e2.waits /\ msg.kind \in Replies /\ (u.job # 0 \/ Tap!Held(u) = {})
      BY <2>1, <2>4, Kinds DEF Passed
    <3> HIDE DEF e, e2, p, p2, u, u2, c, c2, q, q2, t, t2
    <3>3. Known(e2, p, u2, q, Tail(t))
      BY <1>2, <1>4, <2>1, <2>4, <3>1, <3>2, KnownAnswered
    <3>4. \A n \in Tap!Shares : c2[n] > 0 => n \in p.took
      <4>1. got \subseteq p.took
        BY <1>2, <1>4, <2>1, <3>0, <3>1, AnswerIsFor
      <4> QED
        BY ONLY <1>4, <3>1, <4>1
    <3> QED
      BY ONLY <1>3, <2>1, <3>3, <3>4 DEF ExactOf
  <2>5. msg.kind # "error"
    <3>1. WhatItIs(e, p, q, t)
      BY <1>4 DEF Known
    <3>2. msg.kind = "error" => msg.kind \in Replies
      BY Kinds
    <3> HIDE DEF e, p, q, t
    <3>3. msg.kind = "error" => 1 \in On(t, Replies)
      BY ONLY <1>2, <2>1, <3>2, OnTail
    <3> QED
      BY ONLY <2>1, <3>1, <3>3 DEF WhatItIs
  <2> QED
    BY <2>1, <2>2, <2>3, <2>4, <2>5
<1>o. ASSUME Oddly(m, msg) PROVE ExactOf(link'[m], e2, p2, u2, c2, q2, t2)
  <2>1. u2.in = u.in /\ u2.job = u.job /\ u2.submitted = u.submitted /\ c2 = c /\ e2 = e /\ p2 = p
    BY <1>k, <1>o DEF Oddly
  <2>2. (q # <<>> /\ q2 = Tail(q) /\ t2 = t) \/ (t # <<>> /\ t2 = Tail(t) /\ q2 = q)
    BY <1>o DEF Oddly, FromOne, FromTheOther
  <2> HIDE DEF e, e2, p, p2, u, u2, c, c2, q, q2, t, t2
  <2>3. Left(q, q2) /\ Left(t, t2)
    <3>1. Left(q, q) /\ Left(t, t)
      BY DEF Left
    <3> QED
      BY <1>2, <2>2, <3>1, TailLeft
  <2>4. Known(e, p, u2, q2, t2)
    BY <1>4, <2>1, <2>3, KnownOddly
  <2> QED
    BY ONLY <1>3, <1>4, <2>1, <2>4 DEF ExactOf
<1>7. ExactOf(link'[m], e2, p2, u2, c2, q2, t2)
  BY <1>5, <1>6, <1>o DEF Passed
<1> QED
  BY <1>t, <1>7, ExactOthers DEF Passes1

LEMMA ExactStops ==
    ASSUME TapInv, ExactInv, Tap!TapAssumption, NEW m \in Miners, Stops(m)
    PROVE  ExactInv'
<1>1. /\ link' = link /\ peer' = peer /\ pool' = pool /\ link[m] = "open"
      /\ \A k \in Miners : ToProxy(k)' = ToProxy(k) /\ ToMiner(k)' = ToMiner(k)
      /\ \A k \in Miners : k # m => entry'[k] = entry[k] /\ credit'[k] = credit[k]
  BY DEF Stops, ToProxy, ToMiner
<1>2. PICK got : Counted(m, got, got) /\ (got # {} => ToMiner(m) # <<>> /\ ToMiner(m)[1].kind = "ok")
  BY DEF Stops
<1> DEFINE e == peer[m]
           p == pool[m]
           u == entry[m]
           u2 == entry'[m]
           q == ToProxy(m)
           t == ToMiner(m)
<1>3. Known(e, p, u, q, t) /\ (\A n \in Tap!Shares : credit[m][n] > 0 => n \in p.took)
      /\ u \in Entries /\ t \in Seq(FromPool)
  BY <1>1, TapParts DEF ExactInv, ExactOf, TapInv
<1>4. /\ got \subseteq Tap!Matching(u) /\ u2.in = u.in /\ u2.job = u.job
      /\ u2.submitted = [n \in Tap!Shares |-> IF n \in got THEN 0 ELSE u.submitted[n]]
      /\ credit'[m] = [n \in Tap!Shares |-> IF n \in got THEN credit[m][n] + 1 ELSE credit[m][n]]
  BY <1>2 DEF Counted
<1>5. got \subseteq p.took
  BY <1>2, <1>3, <1>4, AnswerIsFor
<1>6. Known(e, p, u2, q, t)
  <2>1. e.job \in Nat
    BY TapParts, PeerIs, TapAllowed DEF TapInv
  <2>2. Outstanding(e, u2)
    BY ONLY <1>3, <1>4, <2>1 DEF Known, Outstanding
  <2> QED
    BY ONLY <1>3, <1>4, <2>2 DEF Known, JobsInOrder
<1>7. \A n \in Tap!Shares : credit'[m][n] > 0 => n \in p.took
  BY ONLY <1>3, <1>4, <1>5
<1>8. ExactOf(link'[m], peer'[m], pool'[m], entry'[m], credit'[m], ToProxy(m)', ToMiner(m)')
  BY ONLY <1>1, <1>6, <1>7, m \in Miners DEF ExactOf
<1> QED
  BY <1>1, <1>8, ExactOthers

LEMMA ExactStays ==
    ASSUME ExactInv, UNCHANGED <<link, entry, inbox, pool, peer, credit>>
    PROVE  ExactInv'
<1>1. /\ link' = link /\ entry' = entry /\ pool' = pool /\ peer' = peer /\ credit' = credit
      /\ \A k \in Miners : ToProxy(k)' = ToProxy(k) /\ ToMiner(k)' = ToMiner(k)
  BY DEF ToProxy, ToMiner
<1> QED
  BY ONLY <1>1, ExactInv DEF ExactInv

LEMMA ExactInit ==
    ASSUME Tap!Init
    PROVE  ExactInv
<1> DEFINE due0 == [due |-> <<>>, took |-> {}, job |-> 0]
           end0 == [sent |-> 0, job |-> 0, waits |-> FALSE, gone |-> {}, odd |-> {}]
<1> SUFFICES ASSUME NEW m \in Miners
             PROVE  ExactOf(link[m], peer[m], pool[m], entry[m], credit[m], ToProxy(m), ToMiner(m))
  BY DEF ExactInv
<1>1. link[m] = "none" /\ pool[m] = due0 /\ peer[m] = end0 /\ ToProxy(m) = <<>> /\ ToMiner(m) = <<>>
      /\ credit[m] = [n \in Tap!Shares |-> 0]
  BY DEF Tap!Init, ToProxy, ToMiner, Tap!Sockets, Tap!Sides
<1>2. due0.due = <<>> /\ due0.job = 0 /\ end0.sent = 0 /\ end0.job = 0 /\ ~end0.waits
  OBVIOUS
<1> HIDE DEF due0, end0
<1>3. New(peer[m], pool[m], ToProxy(m), ToMiner(m))
  BY <1>1, <1>2 DEF New
<1>4. \A n \in Tap!Shares : ~(credit[m][n] > 0)
  BY <1>1
<1> QED
  BY <1>1, <1>3, <1>4 DEF ExactOf

LEMMA ExactNext ==
    ASSUME Tap!TapAssumption, Exact, TapInv, TapInv', ExactInv, [Tap!Next]_Tap!vars
    PROVE  ExactInv'
<1>1. CASE UNCHANGED Tap!vars
  BY <1>1, ExactStays DEF Tap!vars
<1>2. CASE Tap!Ends
  <2>1. PICK m \in Miners : EndStep(m)
    BY <1>2, EndsStep DEF TapInv
  <2> QED
    BY <2>1, ExactEnds
<1>3. CASE Tap!Select \/ Tap!AcceptFails
  <2>1. UNCHANGED <<link, entry, inbox, pool, peer, credit>>
    BY <1>3 DEF Tap!Select, Tap!AcceptFails
  <2> QED
    BY <2>1, ExactStays
<1>4. ASSUME NEW m \in Miners, Tap!OnAccept(m) PROVE ExactInv'
  BY <1>4, AcceptIs, ExactQuiet
<1>5. ASSUME NEW s \in Tap!Sockets,
             \/ Tap!OnClose(s) \/ Tap!OnHello(s) \/ Tap!Dies(s) \/ Tap!RecvFails(s)
             \/ \E whole \in {TRUE, ~Pieces} : Tap!OnRecv(s, whole)
      PROVE  ExactInv'
  <2>1. PICK m \in Miners, side \in Tap!Sides : s = <<m, side>>
    BY DEF Tap!Sockets
  <2>2. CASE Tap!OnClose(s) \/ Tap!OnHello(s)
    <3>1. Drops(m)
      BY <2>1, <2>2, CloseIs
    <3> QED
      BY <3>1, ExactQuiet
  <2>3. CASE Tap!Dies(s)
    <3>1. UNCHANGED <<link, entry, inbox, pool, peer, credit>>
      BY <2>3 DEF Tap!Dies
    <3> QED
      BY <3>1, ExactStays
  <2>4. CASE Tap!RecvFails(s)
    <3>1. CASE Rests
      <4>1. UNCHANGED <<link, entry, inbox, pool, peer, credit>>
        BY <3>1 DEF Rests
      <4> QED
        BY <4>1, ExactStays
    <3> QED
      BY <2>1, <2>4, <3>1, FailsIs, ExactStops
  <2>5. ASSUME NEW whole \in {TRUE, ~Pieces}, Tap!OnRecv(s, whole) PROVE ExactInv'
    <3>1. PICK reads, msg : reads \in BOOLEAN /\ (~Pieces => reads) /\ Passed(m, msg, reads)
      BY <2>1, <2>5, RecvIs
    <3>2. reads = TRUE
      BY <3>1, TapAllowed DEF Exact
    <3> QED
      BY <3>1, <3>2, ExactPassed
  <2> QED
    BY <1>5, <2>2, <2>3, <2>4, <2>5
<1> QED
  BY <1>1, <1>2, <1>3, <1>4, <1>5 DEF Tap!Next, Tap!Loop

(* What the invariants say.                                                *)
LEMMA TapHolds ==
    ASSUME Tap!TapAssumption, TapInv
    PROVE  Tap!TypeOK /\ Tap!Paired /\ Tap!DiesOnly /\ Tap!CreditedOnce
<1>0. TapTypes /\ ListedOnce /\ RoundOf /\ Accidents /\ SharesOnce
  BY DEF TapInv
<1>1. Tap!TypeOK
  <2>1. inputs \in Seq(Tap!Sockets \cup {Tap!Server}) /\ ready \in Seq(Tap!Sockets \cup {Tap!Server})
    BY <1>0 DEF TapTypes
  <2>2. Tap!Range(inputs) \subseteq Tap!Sockets \cup {Tap!Server} /\ Tap!Range(ready) \subseteq Tap!Sockets \cup {Tap!Server}
    BY <2>1 DEF Tap!Range
  <2>3. Tap!IsInjective(inputs) /\ Tap!IsInjective(ready)
    BY <1>0 DEF Tap!IsInjective, ListedOnce, RoundOf
  <2>4. \A m \in Miners : entry[m].in \in BOOLEAN /\ entry[m].job \in 0 .. LastJob
    BY <1>0 DEF TapTypes, Entries
  <2> QED
    BY <1>0, <2>2, <2>3, <2>4 DEF Tap!TypeOK, TapTypes
<1>2. Tap!Paired
  <2> SUFFICES ASSUME NEW m \in Miners
               PROVE  {s \in Tap!Sockets : s[1] = m} \cap Tap!Range(inputs) =
                        IF link[m] = "open" THEN {m} \X Tap!Sides ELSE {}
    BY DEF Tap!Paired
  <2>1. {s \in Tap!Sockets : s[1] = m} = {m} \X Tap!Sides
    BY DEF Tap!Sockets
  <2>2. \A side \in Tap!Sides : <<m, side>> \in Tap!Range(inputs) <=> link[m] = "open"
    BY <1>0, InRange DEF ListedOnce, Lists
  <2>3. \A s \in {m} \X Tap!Sides : s \in Tap!Range(inputs) <=> link[m] = "open"
    BY <2>2
  <2> QED
    BY <2>1, <2>3
<1>3. Tap!DiesOnly
  BY <1>0 DEF Accidents
<1>4. Tap!CreditedOnce
  <2> SUFFICES ASSUME NEW m \in Miners
               PROVE  /\ \A n \in Tap!Shares : credit[m][n] <= IF n <= peer[m].sent THEN 1 ELSE 0
                      /\ Counts(entry[m], Tap!Cardinality({n \in Tap!Shares : credit[m][n] > 0}))
    BY DEF Tap!CreditedOnce, Counts
  <2>1. OnceOf(link[m], entry[m], peer[m].sent, credit[m], ToProxy(m), Submits(m))
    BY <1>0 DEF SharesOnce
  <2>2. credit[m] \in [Tap!Shares -> Nat]
    BY <1>0, TapParts
  <2>3. ASSUME NEW n \in Tap!Shares PROVE credit[m][n] <= IF n <= peer[m].sent THEN 1 ELSE 0
    <3>1. credit[m][n] \in Nat /\ credit[m][n] <= 1 /\ (credit[m][n] > 0 => n <= peer[m].sent)
      BY <2>1, <2>2 DEF OnceOf
    <3> QED
      BY ONLY <3>1
  <2>4. Counts(entry[m], Cardinality({n \in Tap!Shares : credit[m][n] > 0}))
    BY <2>1 DEF OnceOf
  <2> QED
    BY <2>3, <2>4, TapSizes
<1> QED
  BY <1>1, <1>2, <1>3, <1>4

LEMMA ExactHolds ==
    ASSUME ExactInv
    PROVE  Tap!CreditTrue
BY DEF ExactInv, ExactOf, Tap!CreditTrue

(* Whichever end closes and however messages are cut, both sockets of a    *)
(* miner are listed or neither is, and no share is recorded twice; of the  *)
(* proxy's exceptions each has its condition.                              *)
THEOREM TapSound ==
    ASSUME Tap!TapAssumption
    PROVE  Tap!Spec => [](Tap!TypeOK /\ Tap!Paired /\ Tap!DiesOnly /\ Tap!CreditedOnce)
<1>1. Tap!Init => TapInv
  BY TapInit
<1>2. TapInv /\ [Tap!Next]_Tap!vars => TapInv'
  BY TapNext
<1>3. TapInv => Tap!TypeOK /\ Tap!Paired /\ Tap!DiesOnly /\ Tap!CreditedOnce
  BY TapHolds
<1> QED
  BY <1>1, <1>2, <1>3, PTL DEF Tap!Spec

(* Where miners wait for their answers, messages arrive whole and the pool *)
(* answers with a status, what is recorded is what the pool took.          *)
THEOREM TapExact ==
    ASSUME Tap!TapAssumption, Exact
    PROVE  Tap!Spec => []Tap!CreditTrue
<1>1. Tap!Init => TapInv /\ ExactInv
  BY TapInit, ExactInit
<1>2. TapInv /\ ExactInv /\ [Tap!Next]_Tap!vars => TapInv' /\ ExactInv'
  BY TapNext, ExactNext
<1>3. ExactInv => Tap!CreditTrue
  BY ExactHolds
<1> QED
  BY <1>1, <1>2, <1>3, PTL DEF Tap!Spec
=============================================================================
