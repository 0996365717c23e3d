----------------------------- MODULE ExtraNonce -----------------------------
(***************************************************************************)
(* Extra-nonce mode: ExtraNonceSplitter, its one mapper and its storage.   *)
(* All miners hash the template of one daemon; an extra nonce in the miner *)
(* transaction keeps them apart.  It is counted from 0 at every job.       *)
(*                                                                         *)
(* Jobs are numbered as they come, 0 is none.  Miner ids are numbers, as   *)
(* m_miners is a map ordered by id.  has[m] is the extra nonce the miner   *)
(* was sent last (Miner::m_extraNonce), given all that was ever sent.      *)
(* patched is what reaches the daemon's template.  The daemon client       *)
(* refuses a share that is not for its current template, and nobody is     *)
(* told (DaemonClient::submit returns -1).                                 *)
(***************************************************************************)
EXTENDS Integers, FiniteSets, FiniteSetTheorems, TLAPS

CONSTANTS MinerIds,   \* sessions, each logs in once
          MaxJobs,    \* bound of the jobs
          MaxShares,  \* bound of the shares of one miner
          Kinds       \* kinds of pools a changed configuration may name

MinersAssumption == MinerIds \subseteq Nat \ {0} /\ IsFiniteSet(MinerIds)
BoundsAssumption == MaxJobs \in Nat /\ MaxShares \in Nat

VARIABLES storage,   \* ExtraNonceStorage: active, job, prevJob, extraNonce, miners
          pool,      \* the strategy in use, its kind and whether it is up; the pending one
          has, given, patched,
          shares,    \* the number of shares of a miner, -1 before its login
          results,   \* m_results: the shares whose answer is to come
          answers    \* how often each was answered

vars == <<storage, pool, has, given, patched, shares, results, answers>>

Shares == MinerIds \X (1 .. MaxShares)

Init == /\ storage = [active |-> FALSE, job |-> 0, prevJob |-> 0, extraNonce |-> 0, miners |-> {}]
        /\ pool = [kind |-> "daemon", up |-> FALSE, pending |-> "none"]
        /\ has = [m \in MinerIds |-> -1] /\ given = {} /\ patched = {}
        /\ shares = [m \in MinerIds |-> -1] /\ results = {}
        /\ answers = [s \in Shares |-> 0]

Lease(m, j, n) == [job |-> j, slot |-> n, miner |-> m]

(* ExtraNonceStorage::add().                                               *)
Add(m) ==
    /\ storage' = [storage EXCEPT !.miners = @ \union {m},
                                  !.extraNonce = IF storage.active THEN @ + 1 ELSE @]
    /\ has'   = [has EXCEPT ![m] = IF storage.active THEN storage.extraNonce ELSE @]
    /\ given' = given \union (IF storage.active THEN {Lease(m, storage.job, storage.extraNonce)} ELSE {})

(* The place of a miner in the map.                                        *)
Rank(m) == Cardinality({k \in storage.miners : k < m})

\* bug: the miners are served but only those that are new are counted
SetJobCountsNew(active) ==
    LET j == storage.job + 1 IN
    /\ j <= MaxJobs
    /\ storage' = [storage EXCEPT !.active = active, !.prevJob = storage.job, !.job = j,
                                  !.extraNonce = Cardinality({m \in storage.miners : has[m] = -1})]
    /\ has'   = [m \in MinerIds |-> IF m \in storage.miners THEN Rank(m) ELSE has[m]]
    /\ given' = given \union {Lease(m, j, Rank(m)) : m \in storage.miners}

(* ExtraNonceStorage::setJob(), after setActive(active).  Jobs of daemons  *)
(* have no client id: the job before stays valid, also another daemon's.   *)
SetJob(active) ==
    LET j == storage.job + 1 IN
    /\ j <= MaxJobs
    /\ storage' = [storage EXCEPT !.active = active, !.prevJob = storage.job, !.job = j,
                                  !.extraNonce = Cardinality(storage.miners)]
    /\ has'   = [m \in MinerIds |-> IF m \in storage.miners THEN Rank(m) ELSE has[m]]
    /\ given' = given \union {Lease(m, j, Rank(m)) : m \in storage.miners}

---------------------------------------------------------------------------
(* ExtraNonceMapper::add(): the miner has a mapper from now on, the only   *)
(* one; ExtraNonceStorage::remove() forgets the miner, not its number.     *)
Placed(m) == Add(m) /\ shares' = [shares EXCEPT ![m] = 0]
Remove(m) == storage' = [storage EXCEPT !.miners = @ \ {m}]

Login(m) == /\ shares[m] = -1
            /\ Placed(m) /\ UNCHANGED <<pool, patched, results, answers>>
Close(m) == /\ m \in storage.miners
            /\ Remove(m)
            /\ UNCHANGED <<pool, has, given, patched, shares, results, answers>>

(* DaemonClient::submit(): only a share for the template in hand.          *)
Current(j) == j = storage.job

(* The job in hand or the one before.                                      *)
IsValidJobId(j) == j \in {storage.job, storage.prevJob} \ {0}

(* submit(): the share names a job the miner was sent and that is still    *)
(* valid; the extra nonce that goes with it is the miner's present one.    *)
(* A refused share is filed under -1, where no answer finds it.            *)
Submit(m, j) ==
    /\ m \in storage.miners /\ storage.active /\ shares[m] < MaxShares
    /\ IsValidJobId(j) /\ \E l \in given : l.miner = m /\ l.job = j
    /\ shares' = [shares EXCEPT ![m] = @ + 1]
    /\ patched' = patched \union (IF Current(j) THEN {Lease(m, j, has[m])} ELSE {})
    /\ results' = results \union (IF Current(j) THEN {<<m, shares[m] + 1>>} ELSE {})
    /\ UNCHANGED <<storage, pool, has, given, answers>>

(* submitCtx(): each result is looked up once.                             *)
Erased(r) == results' = results \ {r}

(* onResultAccepted(): the miner may have left.                            *)
Answer == \E r \in results :
    /\ Erased(r)
    /\ answers' = [answers EXCEPT ![r] = IF @ < 2 /\ r[1] \in storage.miners THEN @ + 1 ELSE @]
    /\ UNCHANGED <<storage, pool, has, given, patched, shares>>

(* onActive() with the first job, onJob(), onPause(), reload().            *)
Job(p, active) == SetJob(active) /\ pool' = p /\ UNCHANGED <<patched, shares, results, answers>>
Up        == ~pool.up /\ Job([pool EXCEPT !.up = TRUE], TRUE)
NewJob    == pool.up /\ Job(pool, storage.active)
PendingUp == /\ pool.pending # "none"
             /\ Job([kind |-> pool.pending, up |-> TRUE, pending |-> "none"], TRUE)
Down      == /\ pool.up /\ pool' = [pool EXCEPT !.up = FALSE]
             /\ storage' = [storage EXCEPT !.active = FALSE]
             /\ UNCHANGED <<has, given, patched, shares, results, answers>>
Strategy(k) == pool' = [pool EXCEPT !.pending = k]   \* ExtraNonceMapper::reload()
Reload    == /\ \E k \in Kinds : Strategy(k)
             /\ UNCHANGED <<storage, has, given, patched, shares, results, answers>>

(* The events of the server that reach the splitter, one miner each.       *)
OnEvent(m) == Login(m) \/ Close(m) \/ \E j \in 1 .. MaxJobs : Submit(m, j)

Next == \/ \E m \in MinerIds : OnEvent(m)
        \/ Answer \/ Up \/ NewJob \/ PendingUp \/ Down \/ Reload
Spec == Init /\ [][Next]_vars

---------------------------------------------------------------------------
Nonces == 0 .. 2 * Cardinality(MinerIds)
Leases == [job : 1 .. MaxJobs, slot : Nonces, miner : MinerIds]

TypeOK ==
    /\ storage \in [active : BOOLEAN, job : 0 .. MaxJobs, prevJob : 0 .. MaxJobs,
                    extraNonce : Nonces, miners : SUBSET MinerIds]
    /\ pool \in [kind : {"daemon"} \union Kinds, up : BOOLEAN, pending : {"none"} \union Kinds]
    /\ has \in [MinerIds -> {-1} \union Nonces] /\ shares \in [MinerIds -> -1 .. MaxShares]
    /\ given \subseteq Leases /\ patched \subseteq Leases
    /\ results \subseteq Shares /\ answers \in [Shares -> 0 .. 1]

(* Miners may come and go between two jobs: the extra nonces of one job    *)
(* are leased as the bytes of an upstream in nicehash mode are, each to    *)
(* one miner for ever.                                                     *)
AsLease == INSTANCE NonceLease WITH lease <- given

(* The template a share is put into carries the extra nonce its miner      *)
(* hashed for that job, or the block would be worth nothing: a share that  *)
(* crosses a new job must not take the new extra nonce with it.            *)
PatchedAsHashed == patched \subseteq given

(* While the daemon is up, every miner has the job shares are judged by.   *)
EveryoneHasJob ==
    storage.active => \A m \in storage.miners : Lease(m, storage.job, has[m]) \in given

(* A share is answered at most once, and one that was handed over and not  *)
(* answered is still filed, unless its miner has left.                     *)
AnsweredOnce == \A s \in Shares : answers[s] + (IF s \in results THEN 1 ELSE 0) <= 1
---------------------------------------------------------------------------
(* Why the extra nonces of a job never meet.  A job hands the miners that  *)
(* are there their ranks, which are less than their number, and whoever    *)
(* comes later the numbers from there on: what was leased of the job in    *)
(* hand is below the counter, whoever has left since.  The counter never   *)
(* exceeds the logins, as each raises it by one at most.                   *)
LoggedIn == {m \in MinerIds : shares[m] # -1}

Counted == /\ storage.extraNonce <= Cardinality(LoggedIn) /\ storage.miners \subseteq LoggedIn
           /\ storage.active => storage.job >= 1
           /\ \A l \in given : l.job <= storage.job
           /\ \A l \in given : l.job = storage.job => l.slot < storage.extraNonce

(* A share that is yet to come is neither filed nor answered.              *)
Untouched == \A s \in Shares : s[2] > shares[s[1]] => s \notin results /\ answers[s] = 0

ExtraInv == /\ TypeOK /\ Counted /\ AsLease!Exclusive(given)
            /\ EveryoneHasJob /\ PatchedAsHashed /\ Untouched /\ AnsweredOnce

(* The ranks of a finite set of numbers are different and less than the    *)
(* size of the set.                                                        *)
LEMMA Ranks ==
    ASSUME MinersAssumption, storage.miners \subseteq MinerIds
    PROVE  /\ IsFiniteSet(storage.miners) /\ Cardinality(storage.miners) \in Nat
           /\ Cardinality(storage.miners) <= Cardinality(MinerIds)
           /\ \A m \in storage.miners : Rank(m) \in Nat /\ Rank(m) < Cardinality(storage.miners)
           /\ \A m, k \in storage.miners : m # k => Rank(m) # Rank(k)
<1> DEFINE S == storage.miners
           Below(m) == {k \in S : k < m}
<1>1. IsFiniteSet(S) /\ Cardinality(S) \in Nat /\ Cardinality(S) <= Cardinality(MinerIds)
  BY FS_Subset, FS_CardinalityType DEF MinersAssumption
<1>2. S \subseteq Nat
  BY DEF MinersAssumption
<1> HIDE DEF S
<1>3. ASSUME NEW m \in S
      PROVE  /\ IsFiniteSet(Below(m)) /\ Cardinality(Below(m)) \in Nat
             /\ Cardinality(Below(m)) < Cardinality(S)
             /\ Cardinality(Below(m) \union {m}) = Cardinality(Below(m)) + 1
             /\ IsFiniteSet(Below(m) \union {m})
  <2>1. IsFiniteSet(Below(m)) /\ Cardinality(Below(m)) \in Nat
    BY <1>1, FS_Subset, FS_CardinalityType
  <2>2. m \notin Below(m)
    BY <1>2
  <2>3. /\ Cardinality(Below(m) \union {m}) = Cardinality(Below(m)) + 1
        /\ IsFiniteSet(Below(m) \union {m})
    BY <2>1, <2>2, FS_AddElement
  <2>4. Cardinality(Below(m) \union {m}) <= Cardinality(S)
    BY <1>1, <1>3, FS_Subset
  <2> QED
    BY <2>1, <2>3, <2>4, <1>1
<1>4. ASSUME NEW m \in S, NEW k \in S, m < k
      PROVE  Cardinality(Below(m)) < Cardinality(Below(k))
  <2>1. /\ Cardinality(Below(m)) \in Nat /\ Cardinality(Below(k)) \in Nat
        /\ Cardinality(Below(m) \union {m}) = Cardinality(Below(m)) + 1
        /\ IsFiniteSet(Below(k))
    BY <1>3
  <2>2. m \in Nat /\ k \in Nat /\ m < k
    BY <1>2, <1>4
  <2>3. \A j \in S : j < m => j < k
    BY <1>2, <2>2
  <2>4. Below(m) \union {m} \subseteq Below(k)
    BY <2>2, <2>3
  <2>5. Cardinality(Below(m) \union {m}) <= Cardinality(Below(k))
    BY <2>1, <2>4, FS_Subset
  <2> QED
    BY <2>1, <2>5
<1>5. \A m, k \in S : m # k => Cardinality(Below(m)) # Cardinality(Below(k))
  <2> SUFFICES ASSUME NEW m \in S, NEW k \in S, m # k
               PROVE  Cardinality(Below(m)) # Cardinality(Below(k))
    OBVIOUS
  <2>1. m < k \/ k < m
    BY <1>2
  <2>2. Cardinality(Below(m)) \in Nat /\ Cardinality(Below(k)) \in Nat
    BY <1>3
  <2>3. Cardinality(Below(m)) < Cardinality(Below(k)) \/ Cardinality(Below(k)) < Cardinality(Below(m))
    BY <2>1, <1>4
  <2> QED
    BY <2>2, <2>3
<1> QED
  BY <1>1, <1>3, <1>5 DEF Rank, S

LEMMA InitExtra ==
    ASSUME MinersAssumption, BoundsAssumption, Init
    PROVE  ExtraInv
<1>1. LoggedIn = {}
  BY DEF Init, LoggedIn
<1>2. Cardinality(LoggedIn) = 0 /\ Cardinality(MinerIds) \in Nat
  BY <1>1, FS_EmptySet, FS_CardinalityType DEF MinersAssumption
<1>3. TypeOK
  BY <1>2 DEF Init, TypeOK, Nonces, BoundsAssumption, Shares
<1>4. Counted
  BY <1>1, <1>2 DEF Init, Counted
<1> QED
  BY <1>3, <1>4 DEF Init, ExtraInv, EveryoneHasJob, PatchedAsHashed, Untouched, AnsweredOnce, AsLease!Exclusive

(* A step that only lets miners go, or the daemon, changes no lease.        *)
LEMMA CountedKept ==
    ASSUME MinersAssumption, ExtraInv, UNCHANGED <<given, shares, patched, has>>,
           storage' = [storage EXCEPT !.miners = storage'.miners, !.active = storage'.active],
           storage'.miners \subseteq storage.miners, storage'.active \in BOOLEAN,
           storage'.active => storage.active
    PROVE  Counted' /\ AsLease!Exclusive(given)' /\ EveryoneHasJob' /\ PatchedAsHashed'
  BY DEF ExtraInv, TypeOK, Counted, LoggedIn, AsLease!Exclusive, EveryoneHasJob, PatchedAsHashed, Lease

(* Numbers up to the count of logins are extra nonces.                     *)
LEMMA NoncesFit ==
    ASSUME MinersAssumption
    PROVE  /\ IsFiniteSet(LoggedIn) /\ Cardinality(LoggedIn) \in Nat
           /\ \A n \in Nat : n <= Cardinality(LoggedIn) => n \in Nonces
<1>1. IsFiniteSet(LoggedIn) /\ Cardinality(LoggedIn) \in Nat /\ Cardinality(MinerIds) \in Nat
      /\ Cardinality(LoggedIn) <= Cardinality(MinerIds)
  BY FS_Subset, FS_CardinalityType DEF LoggedIn, MinersAssumption
<1> QED
  BY <1>1 DEF Nonces

LEMMA LoginExtra ==
    ASSUME MinersAssumption, BoundsAssumption, ExtraInv, NEW m \in MinerIds, Login(m)
    PROVE  ExtraInv'
<1>1. /\ shares[m] = -1 /\ shares' = [shares EXCEPT ![m] = 0]
      /\ UNCHANGED <<pool, patched, results, answers>>
      /\ storage' = [storage EXCEPT !.miners = @ \union {m},
                                    !.extraNonce = IF storage.active THEN @ + 1 ELSE @]
      /\ has'   = [has EXCEPT ![m] = IF storage.active THEN storage.extraNonce ELSE @]
      /\ given' = given \union (IF storage.active THEN {Lease(m, storage.job, storage.extraNonce)} ELSE {})
  BY DEF Login, Placed, Add
<1>2. /\ TypeOK /\ Counted /\ AsLease!Exclusive(given)
      /\ EveryoneHasJob /\ PatchedAsHashed /\ Untouched /\ AnsweredOnce
  BY DEF ExtraInv
<1>3. LoggedIn' = LoggedIn \union {m} /\ m \notin LoggedIn
  BY <1>1, <1>2 DEF LoggedIn, TypeOK
<1>4. /\ Cardinality(LoggedIn') = Cardinality(LoggedIn) + 1 /\ Cardinality(LoggedIn) \in Nat
      /\ Cardinality(LoggedIn') <= Cardinality(MinerIds) /\ Cardinality(MinerIds) \in Nat
  <2>1. IsFiniteSet(LoggedIn) /\ Cardinality(LoggedIn) \in Nat
    BY NoncesFit
  <2>2. Cardinality(LoggedIn') = Cardinality(LoggedIn) + 1
    BY <1>3, <2>1, FS_AddElement
  <2>3. LoggedIn' \subseteq MinerIds
    BY DEF LoggedIn
  <2>4. Cardinality(LoggedIn') <= Cardinality(MinerIds) /\ Cardinality(MinerIds) \in Nat
    BY <2>3, FS_Subset, FS_CardinalityType DEF MinersAssumption
  <2> QED
    BY <2>1, <2>2, <2>4
<1>5. /\ storage'.active = storage.active /\ storage'.job = storage.job
      /\ storage'.prevJob = storage.prevJob /\ storage'.miners = storage.miners \union {m}
      /\ storage'.extraNonce = IF storage.active THEN storage.extraNonce + 1 ELSE storage.extraNonce
      /\ storage' \in [active : BOOLEAN, job : 0 .. MaxJobs, prevJob : 0 .. MaxJobs,
                        extraNonce : {storage'.extraNonce}, miners : SUBSET MinerIds]
      /\ storage.extraNonce \in Nonces /\ storage.extraNonce \in Nat /\ storage.job \in Nat
      /\ storage.extraNonce <= Cardinality(LoggedIn) /\ Cardinality(MinerIds) \in Nat
  <2>1. /\ storage \in [active : BOOLEAN, job : 0 .. MaxJobs, prevJob : 0 .. MaxJobs,
                         extraNonce : Nonces, miners : SUBSET MinerIds]
        /\ storage.extraNonce <= Cardinality(LoggedIn)
    BY <1>2 DEF TypeOK, Counted
  <2>2. storage.extraNonce \in Nat /\ storage.job \in Nat
    BY <2>1 DEF Nonces
  <2> QED
    BY <1>1, <1>4, <2>1, <2>2
<1>6. storage'.extraNonce <= Cardinality(LoggedIn') /\ storage'.extraNonce \in Nonces
  BY <1>4, <1>5 DEF Nonces
<1> DEFINE new == Lease(m, storage.job, storage.extraNonce)
<1>7. storage.active => new \in Leases
  BY <1>2, <1>5 DEF Counted, Leases, Lease, TypeOK
<1>8. TypeOK'
  <2>1. storage' \in [active : BOOLEAN, job : 0 .. MaxJobs, prevJob : 0 .. MaxJobs,
                      extraNonce : Nonces, miners : SUBSET MinerIds]
    BY <1>5, <1>6
  <2>2. has' \in [MinerIds -> {-1} \union Nonces] /\ shares' \in [MinerIds -> -1 .. MaxShares]
    BY <1>1, <1>2, <1>5 DEF TypeOK, BoundsAssumption
  <2>3. given' \subseteq Leases
    BY <1>1, <1>2, <1>7 DEF TypeOK
  <2> QED
    BY <1>1, <1>2, <2>1, <2>2, <2>3 DEF TypeOK, Nonces, Leases, Shares
<1>9. Counted' /\ AsLease!Exclusive(given)'
  <2>1. \A l \in given' : l \in given \/ (storage.active /\ l = new)
    BY <1>1
  <2>2. new.job = storage.job /\ new.slot = storage.extraNonce /\ new.miner = m
    BY DEF Lease
  <2> HIDE DEF new
  <2>3. \A l \in given : l.job \in Nat /\ l.slot \in Nat
    BY <1>2 DEF TypeOK, Leases, Nonces
  <2>4. \A l \in given' : l.job <= storage.job /\ (l.job = storage.job => l.slot < storage'.extraNonce)
    BY <2>1, <2>2, <2>3, <1>2, <1>5 DEF Counted
  <2>5. AsLease!Exclusive(given)'
    <3> SUFFICES ASSUME NEW a \in given', NEW b \in given', a.job = b.job, a.slot = b.slot
                 PROVE  a.miner = b.miner
      BY DEF AsLease!Exclusive
    <3> QED
      BY <2>1, <2>2, <2>3, <1>2, <1>5 DEF Counted, AsLease!Exclusive
  <2>6. Counted'
    BY <1>2, <1>3, <1>5, <1>6, <2>4 DEF Counted
  <2> QED
    BY <2>5, <2>6
<1>10. EveryoneHasJob' /\ PatchedAsHashed'
  BY <1>1, <1>2, <1>5 DEF EveryoneHasJob, PatchedAsHashed, TypeOK
<1>11. Untouched' /\ AnsweredOnce'
  BY <1>1, <1>2 DEF Untouched, AnsweredOnce, Shares, TypeOK
<1> QED
  BY <1>8, <1>9, <1>10, <1>11 DEF ExtraInv

(* A new job serves everybody who is there, from rank 0 up.                *)
LEMMA JobExtra ==
    ASSUME MinersAssumption, BoundsAssumption, ExtraInv, NEW active \in BOOLEAN, SetJob(active),
           UNCHANGED <<patched, shares, results, answers>>,
           pool' \in [kind : {"daemon"} \union Kinds, up : BOOLEAN, pending : {"none"} \union Kinds]
    PROVE  ExtraInv'
<1> DEFINE j == storage.job + 1
<1>1. /\ j <= MaxJobs
      /\ storage' = [storage EXCEPT !.active = active, !.prevJob = storage.job, !.job = j,
                                    !.extraNonce = Cardinality(storage.miners)]
      /\ has'   = [m \in MinerIds |-> IF m \in storage.miners THEN Rank(m) ELSE has[m]]
      /\ given' = given \union {Lease(m, j, Rank(m)) : m \in storage.miners}
  BY DEF SetJob
<1>2. /\ TypeOK /\ Counted /\ AsLease!Exclusive(given)
      /\ EveryoneHasJob /\ PatchedAsHashed /\ Untouched /\ AnsweredOnce
  BY DEF ExtraInv
<1>3. /\ storage \in [active : BOOLEAN, job : 0 .. MaxJobs, prevJob : 0 .. MaxJobs,
                       extraNonce : Nonces, miners : SUBSET MinerIds]
      /\ storage.job \in Nat /\ j \in 1 .. MaxJobs
  <2>1. storage \in [active : BOOLEAN, job : 0 .. MaxJobs, prevJob : 0 .. MaxJobs,
                      extraNonce : Nonces, miners : SUBSET MinerIds]
    BY <1>2 DEF TypeOK
  <2> QED
    BY <2>1, <1>1 DEF BoundsAssumption
<1>4. /\ Cardinality(storage.miners) \in Nat
      /\ \A m \in storage.miners : Rank(m) \in Nat /\ Rank(m) < Cardinality(storage.miners)
      /\ \A m, k \in storage.miners : m # k => Rank(m) # Rank(k)
  BY <1>3, Ranks
<1>5. /\ LoggedIn' = LoggedIn /\ Cardinality(LoggedIn) \in Nat
      /\ Cardinality(storage.miners) <= Cardinality(LoggedIn)
  BY <1>2, NoncesFit, FS_Subset DEF Counted, LoggedIn
<1>6. /\ Cardinality(storage.miners) \in Nonces
      /\ \A m \in storage.miners : Rank(m) \in Nonces
  <2>1. \A n \in Nat : n <= Cardinality(storage.miners) => n \in Nonces
    BY <1>4, <1>5, NoncesFit
  <2> QED
    BY <1>4, <2>1
<1>7. /\ storage'.active = active /\ storage'.job = j /\ storage'.miners = storage.miners
      /\ storage'.extraNonce = Cardinality(storage.miners)
      /\ storage' \in [active : BOOLEAN, job : 0 .. MaxJobs, prevJob : 0 .. MaxJobs,
                        extraNonce : Nonces, miners : SUBSET MinerIds]
  <2> DEFINE n == Cardinality(storage.miners)
  <2>1. storage' = [storage EXCEPT !.active = active, !.prevJob = storage.job, !.job = j, !.extraNonce = n]
    BY <1>1
  <2>2. n \in Nonces /\ j \in 0 .. MaxJobs /\ storage.job \in 0 .. MaxJobs
    BY <1>3, <1>6
  <2> HIDE DEF n, j
  <2> QED
    BY <1>3, <2>1, <2>2 DEF n
<1>8. \A l \in given' : \/ l \in given /\ l.job < j
                        \/ \E m \in storage.miners : l = Lease(m, j, Rank(m))
  <2>1. \A l \in given : l.job \in Nat /\ l.job <= storage.job
    BY <1>2 DEF TypeOK, Leases, Counted
  <2>2. \A l \in given : l.job < j
    BY <2>1, <1>3
  <2> QED
    BY <1>1, <2>2
<1>9. \A m, n : Lease(m, j, n).job = j /\ Lease(m, j, n).slot = n /\ Lease(m, j, n).miner = m
  BY DEF Lease
<1> HIDE DEF j
<1>10. TypeOK'
  <2>1. has' \in [MinerIds -> {-1} \union Nonces]
    <3>1. has \in [MinerIds -> {-1} \union Nonces]
      BY <1>2 DEF TypeOK
    <3> QED
      BY <1>1, <1>6, <3>1
  <2>2. given' \subseteq Leases
    <3>1. given \subseteq Leases
      BY <1>2 DEF TypeOK
    <3>2. \A m \in storage.miners : Lease(m, j, Rank(m)) \in Leases
      BY <1>3, <1>6 DEF Lease, Leases
    <3> QED
      BY <1>8, <3>1, <3>2
  <2> QED
    BY <1>2, <1>7, <2>1, <2>2 DEF TypeOK, Nonces, Leases, Shares
<1>11. AsLease!Exclusive(given)'
  <2> SUFFICES ASSUME NEW a \in given', NEW b \in given', a.job = b.job, a.slot = b.slot
               PROVE  a.miner = b.miner
    BY DEF AsLease!Exclusive
  <2>1. CASE a.job = j
    <3>1. PICK m \in storage.miners : a = Lease(m, j, Rank(m))
      BY <1>8, <2>1, <1>3
    <3> b.job = j
      BY <2>1
    <3>2. PICK k \in storage.miners : b = Lease(k, j, Rank(k))
      BY <1>8, <1>3
    <3>3. Rank(m) = Rank(k)
      BY <3>1, <3>2, <1>9
    <3> QED
      BY <3>1, <3>2, <3>3, <1>4, <1>9
  <2>2. CASE a.job # j
    <3>1. a \in given /\ b \in given
      BY <2>2, <1>8, <1>9
    <3> QED
      BY <3>1, <1>2 DEF AsLease!Exclusive
  <2> QED
    BY <2>1, <2>2
<1>12. Counted'
  <2>1. \A l \in given' : l.job <= j /\ (l.job = j => l.slot < Cardinality(storage.miners))
    <3> SUFFICES ASSUME NEW l \in given'
                 PROVE  l.job <= j /\ (l.job = j => l.slot < Cardinality(storage.miners))
      OBVIOUS
    <3>1. CASE l \in given /\ l.job < j
      <4>1. l.job \in Nat
        BY <3>1, <1>2 DEF TypeOK, Leases
      <4> QED
        BY <3>1, <4>1, <1>3
    <3>2. CASE \E m \in storage.miners : l = Lease(m, j, Rank(m))
      BY <3>2, <1>3, <1>4, <1>9
    <3> QED
      BY <3>1, <3>2, <1>8
  <2>2. j >= 1
    BY <1>3
  <2> QED
    BY <1>2, <1>5, <1>7, <2>1, <2>2 DEF Counted
<1>13. EveryoneHasJob' /\ PatchedAsHashed'
  <2>1. \A m \in storage.miners : m \in MinerIds
    BY <1>3
  <2>2. \A m \in storage.miners : has'[m] = Rank(m)
    BY <1>1, <2>1
  <2>3. \A m \in storage.miners : Lease(m, j, Rank(m)) \in given'
    BY <1>1 DEF j
  <2>4. EveryoneHasJob'
    BY <1>7, <2>2, <2>3 DEF EveryoneHasJob, Lease
  <2> QED
    BY <1>1, <1>2, <2>4 DEF PatchedAsHashed
<1>14. Untouched' /\ AnsweredOnce'
  BY <1>2 DEF Untouched, AnsweredOnce
<1> QED
  BY <1>10, <1>11, <1>12, <1>13, <1>14 DEF ExtraInv

(* A share takes the extra nonce of the job in hand with it.               *)
LEMMA SubmitExtra ==
    ASSUME MinersAssumption, BoundsAssumption, ExtraInv, NEW m \in MinerIds, NEW j \in 1 .. MaxJobs,
           Submit(m, j)
    PROVE  ExtraInv'
<1>1. /\ m \in storage.miners /\ storage.active /\ shares[m] < MaxShares
      /\ shares' = [shares EXCEPT ![m] = @ + 1]
      /\ patched' = patched \union (IF j = storage.job THEN {Lease(m, j, has[m])} ELSE {})
      /\ results' = results \union (IF j = storage.job THEN {<<m, shares[m] + 1>>} ELSE {})
      /\ UNCHANGED <<storage, pool, has, given, answers>>
  BY DEF Submit, Current
<1>2. /\ TypeOK /\ Counted /\ AsLease!Exclusive(given)
      /\ EveryoneHasJob /\ PatchedAsHashed /\ Untouched /\ AnsweredOnce
  BY DEF ExtraInv
<1>3. shares[m] \in 0 .. MaxShares /\ shares[m] + 1 \in 1 .. MaxShares
  BY <1>1, <1>2 DEF TypeOK, Counted, LoggedIn, BoundsAssumption
<1>4. LoggedIn' = LoggedIn
  BY <1>1, <1>2, <1>3 DEF LoggedIn, TypeOK
<1>5. patched' \subseteq given'
  BY <1>1, <1>2 DEF EveryoneHasJob, PatchedAsHashed
<1>6. TypeOK'
  <2>1. shares' \in [MinerIds -> -1 .. MaxShares]
    BY <1>1, <1>2, <1>3 DEF TypeOK
  <2>2. results' \subseteq Shares
    BY <1>1, <1>2, <1>3 DEF TypeOK, Shares
  <2> QED
    BY <1>1, <1>2, <1>5, <2>1, <2>2 DEF TypeOK, Nonces, Leases, Shares
<1>7. Untouched' /\ AnsweredOnce'
  <2> DEFINE mine == <<m, shares[m] + 1>>
  <2>1. mine \in Shares /\ answers[mine] = 0
    <3>1. mine \in Shares /\ mine[2] > shares[mine[1]]
      BY <1>3 DEF Shares
    <3> QED
      BY <3>1, <1>2 DEF Untouched
  <2>2. \A r \in results' : r \in results \/ r = mine
    BY <1>1
  <2>3. \A r \in Shares : r[1] \in MinerIds /\ r[2] \in Nat /\ (r[1] = m /\ r[2] = shares[m] + 1 => r = mine)
    BY DEF Shares
  <2>4. shares'[m] = shares[m] + 1 /\ \A k \in MinerIds \ {m} : shares'[k] = shares[k]
    BY <1>1, <1>2 DEF TypeOK
  <2>5. \A r \in Shares : r[2] > shares'[r[1]] => r # mine /\ r[2] > shares[r[1]]
    <3> SUFFICES ASSUME NEW r \in Shares, r[2] > shares'[r[1]]
                 PROVE  r # mine /\ r[2] > shares[r[1]]
      OBVIOUS
    <3>1. CASE r[1] = m
      BY <3>1, <2>3, <2>4, <1>3
    <3>2. CASE r[1] # m
      BY <3>2, <2>3, <2>4
    <3> QED
      BY <3>1, <3>2
  <2>6. Untouched'
    BY <2>2, <2>5, <1>1, <1>2 DEF Untouched, Shares
  <2>7. AnsweredOnce'
    <3> SUFFICES ASSUME NEW r \in Shares
                 PROVE  answers[r] + (IF r \in results' THEN 1 ELSE 0) <= 1
      BY <1>1 DEF AnsweredOnce, Shares
    <3>1. CASE r = mine
      BY <3>1, <2>1
    <3>2. CASE r # mine
      BY <3>2, <2>2, <1>1, <1>2 DEF AnsweredOnce
    <3> QED
      BY <3>1, <3>2
  <2> QED
    BY <2>6, <2>7
<1>8. Counted' /\ AsLease!Exclusive(given)' /\ EveryoneHasJob'
  BY <1>1, <1>2, <1>4 DEF Counted, AsLease!Exclusive, EveryoneHasJob, Lease
<1> QED
  BY <1>5, <1>6, <1>7, <1>8 DEF ExtraInv, PatchedAsHashed

(* An answer comes for a share that is filed, and takes it out.            *)
LEMMA AnswerExtra ==
    ASSUME MinersAssumption, BoundsAssumption, ExtraInv, Answer
    PROVE  ExtraInv'
<1>1. PICK r \in results :
        /\ results' = results \ {r}
        /\ answers' = [answers EXCEPT ![r] = IF @ < 2 /\ r[1] \in storage.miners THEN @ + 1 ELSE @]
        /\ UNCHANGED <<storage, pool, has, given, patched, shares>>
  BY DEF Answer, Erased
<1>2. /\ TypeOK /\ Counted /\ AsLease!Exclusive(given)
      /\ EveryoneHasJob /\ PatchedAsHashed /\ Untouched /\ AnsweredOnce
  BY DEF ExtraInv
<1>3. answers \in [Shares -> 0 .. 1] /\ r \in Shares /\ answers[r] = 0
  BY <1>2 DEF TypeOK, AnsweredOnce
<1>4. /\ answers' \in [Shares -> 0 .. 1] /\ answers'[r] \in 0 .. 1
      /\ \A q \in Shares \ {r} : answers'[q] = answers[q]
  BY <1>1, <1>3
<1>5. TypeOK'
  BY <1>1, <1>2, <1>4 DEF TypeOK, Nonces, Leases, Shares
<1>6. Untouched' /\ AnsweredOnce'
  <2>1. Untouched'
    BY <1>1, <1>2, <1>4 DEF Untouched, Shares
  <2>2. AnsweredOnce'
    <3> SUFFICES ASSUME NEW q \in Shares
                 PROVE  answers'[q] + (IF q \in results' THEN 1 ELSE 0) <= 1
      BY DEF AnsweredOnce, Shares
    <3>1. CASE q = r
      BY <3>1, <1>1, <1>4
    <3>2. CASE q # r
      BY <3>2, <1>1, <1>2, <1>4 DEF AnsweredOnce
    <3> QED
      BY <3>1, <3>2
  <2> QED
    BY <2>1, <2>2
<1>7. /\ Counted' /\ AsLease!Exclusive(given)' /\ EveryoneHasJob' /\ PatchedAsHashed'
  BY <1>1, <1>2 DEF Counted, LoggedIn, AsLease!Exclusive, EveryoneHasJob, PatchedAsHashed, Lease
<1> QED
  BY <1>5, <1>6, <1>7 DEF ExtraInv

LEMMA NextExtra ==
    ASSUME MinersAssumption, BoundsAssumption, ExtraInv, [Next]_vars
    PROVE  ExtraInv'
<1>0. /\ TypeOK /\ Counted /\ AsLease!Exclusive(given)
      /\ EveryoneHasJob /\ PatchedAsHashed /\ Untouched /\ AnsweredOnce
  BY DEF ExtraInv
<1>1. ASSUME NEW m \in MinerIds, Login(m) PROVE ExtraInv'
  BY <1>1, LoginExtra
<1>2. ASSUME NEW m \in MinerIds, Close(m) PROVE ExtraInv'
  <2>1. /\ storage' = [storage EXCEPT !.miners = storage.miners \ {m}]
        /\ UNCHANGED <<pool, has, given, patched, shares, results, answers>>
    BY <1>2 DEF Close, Remove
  <2>2. TypeOK' /\ storage' = [storage EXCEPT !.miners = storage'.miners, !.active = storage'.active]
        /\ storage'.miners \subseteq storage.miners /\ storage'.active = storage.active
    BY <1>0, <2>1 DEF TypeOK, Nonces, Leases, Shares
  <2>3. Counted' /\ AsLease!Exclusive(given)' /\ EveryoneHasJob' /\ PatchedAsHashed'
    BY <1>0, <2>1, <2>2, CountedKept DEF TypeOK
  <2>4. Untouched' /\ AnsweredOnce'
    BY <1>0, <2>1 DEF Untouched, AnsweredOnce
  <2> QED
    BY <2>2, <2>3, <2>4 DEF ExtraInv
<1>3. ASSUME NEW m \in MinerIds, NEW j \in 1 .. MaxJobs, Submit(m, j) PROVE ExtraInv'
  BY <1>3, SubmitExtra
<1>4. CASE Answer
  BY <1>4, AnswerExtra
<1>5. CASE Up \/ NewJob \/ PendingUp
  <2>1. \E active \in BOOLEAN : SetJob(active)
    BY <1>0, <1>5 DEF Up, NewJob, PendingUp, Job, TypeOK
  <2> DEFINE Pools == [kind : {"daemon"} \union Kinds, up : BOOLEAN, pending : {"none"} \union Kinds]
  <2>3. pool \in Pools
    BY <1>0 DEF TypeOK
  <2>4. pool' \in Pools
    <3>1. CASE Up
      BY <2>3, <3>1 DEF Up, Job
    <3>2. CASE NewJob
      BY <2>3, <3>2 DEF NewJob, Job
    <3>3. CASE PendingUp
      BY <2>3, <3>3 DEF PendingUp, Job
    <3> QED
      BY <1>5, <3>1, <3>2, <3>3
  <2>2. UNCHANGED <<patched, shares, results, answers>> /\ pool' \in Pools
    BY <1>5, <2>4 DEF Up, NewJob, PendingUp, Job
  <2> QED
    BY <2>1, <2>2, JobExtra
<1>6. CASE Down
  <2>1. /\ storage' = [storage EXCEPT !.active = FALSE] /\ pool' = [pool EXCEPT !.up = FALSE]
        /\ UNCHANGED <<has, given, patched, shares, results, answers>>
    BY <1>6 DEF Down
  <2>2. TypeOK' /\ storage' = [storage EXCEPT !.miners = storage'.miners, !.active = storage'.active]
        /\ storage'.miners \subseteq storage.miners /\ storage'.active = FALSE
    BY <1>0, <2>1 DEF TypeOK, Nonces, Leases, Shares
  <2>3. Counted' /\ AsLease!Exclusive(given)' /\ EveryoneHasJob' /\ PatchedAsHashed'
    BY <2>1, <2>2, CountedKept
  <2>4. Untouched' /\ AnsweredOnce'
    BY <1>0, <2>1 DEF Untouched, AnsweredOnce
  <2> QED
    BY <2>2, <2>3, <2>4 DEF ExtraInv
<1>7. CASE Reload
  <2>1. /\ pool' \in [kind : {"daemon"} \union Kinds, up : BOOLEAN, pending : {"none"} \union Kinds]
        /\ UNCHANGED <<storage, has, given, patched, shares, results, answers>>
    BY <1>0, <1>7 DEF Reload, Strategy, TypeOK
  <2> QED
    BY <1>0, <2>1 DEF ExtraInv, TypeOK, Nonces, Leases, Shares, Counted, LoggedIn, AsLease!Exclusive,
       EveryoneHasJob, PatchedAsHashed, Lease, Untouched, AnsweredOnce
<1>8. CASE UNCHANGED vars
  <2>1. UNCHANGED <<storage, pool, has, given, patched, shares, results, answers>>
    BY <1>8 DEF vars
  <2> QED
    BY <1>0, <2>1 DEF ExtraInv, TypeOK, Nonces, Leases, Shares, Counted, LoggedIn, AsLease!Exclusive,
       EveryoneHasJob, PatchedAsHashed, Lease, Untouched, AnsweredOnce
<1> QED
  BY <1>1, <1>2, <1>3, <1>4, <1>5, <1>6, <1>7, <1>8 DEF Next, OnEvent

(* Whatever is leased in a step is of the newest job.                      *)
LEMMA GrantStep ==
    ASSUME MinersAssumption, BoundsAssumption, ExtraInv, [Next]_vars
    PROVE  AsLease!Grant \/ UNCHANGED given
<1>1. AsLease!Exclusive(given')
  <2>1. ExtraInv'
    BY NextExtra
  <2> QED
    BY <2>1 DEF ExtraInv, AsLease!Exclusive
<1>2. \A l \in given : l.job \in Nat /\ l.job <= storage.job
  BY DEF ExtraInv, Counted, TypeOK, Leases
<1>3. storage.job \in Nat
  BY DEF ExtraInv, TypeOK
<1>4. CASE \E m \in MinerIds : Login(m)
  <2>1. PICK m \in MinerIds : Login(m)
    BY <1>4
  <2>2. given' = given \union (IF storage.active THEN {Lease(m, storage.job, storage.extraNonce)} ELSE {})
    BY <2>1 DEF Login, Placed, Add
  <2>3. given \subseteq given' /\ \A a \in given' \ given : a.job = storage.job
    BY <2>2 DEF Lease
  <2>4. AsLease!NewestJob(given, given')
    BY <2>3, <1>2, <1>3 DEF AsLease!NewestJob
  <2> QED
    BY <1>1, <2>3, <2>4 DEF AsLease!Grant
<1>5. CASE Up \/ NewJob \/ PendingUp
  <2>1. PICK active : SetJob(active)
    BY <1>5 DEF Up, NewJob, PendingUp, Job
  <2>2. given' = given \union {Lease(m, storage.job + 1, Rank(m)) : m \in storage.miners}
    BY <2>1 DEF SetJob
  <2>3. given \subseteq given' /\ \A a \in given' \ given : a.job = storage.job + 1
    BY <2>2 DEF Lease
  <2>4. AsLease!NewestJob(given, given')
    BY <2>3, <1>2, <1>3 DEF AsLease!NewestJob
  <2> QED
    BY <1>1, <2>3, <2>4 DEF AsLease!Grant
<1>6. CASE (\E m \in MinerIds : Close(m) \/ \E j \in 1 .. MaxJobs : Submit(m, j))
           \/ Answer \/ Down \/ Reload \/ UNCHANGED vars
  BY <1>6 DEF Close, Submit, Answer, Down, Reload, vars
<1> QED
  BY <1>4, <1>5, <1>6 DEF Next, OnEvent

(* The counter is ahead of every extra nonce of its job, and nothing of    *)
(* what follows from it is ever lost.                                      *)
THEOREM ExtraInvariant ==
    ASSUME MinersAssumption, BoundsAssumption
    PROVE  Spec => []ExtraInv
<1>1. Init => ExtraInv
  BY InitExtra
<1>2. ExtraInv /\ [Next]_vars => ExtraInv'
  BY NextExtra
<1> QED
  BY <1>1, <1>2, PTL DEF Spec

(* A template is patched as its miner hashed it, everybody has the job in  *)
(* hand, and a share is answered once.                                     *)
THEOREM SharesKept ==
    ASSUME MinersAssumption, BoundsAssumption
    PROVE  Spec => [](TypeOK /\ PatchedAsHashed /\ EveryoneHasJob /\ AnsweredOnce)
<1>1. ExtraInv => TypeOK /\ PatchedAsHashed /\ EveryoneHasJob /\ AnsweredOnce
  BY DEF ExtraInv
<1> QED
  BY <1>1, ExtraInvariant, PTL

(* The mode keeps the promise of nicehash mode: an extra nonce of a job is *)
(* leased to one miner, also after that one has left.                      *)
THEOREM LeasesNonces ==
    ASSUME MinersAssumption, BoundsAssumption
    PROVE  Spec => AsLease!Spec
<1>1. Init => AsLease!Init
  BY DEF Init, AsLease!Init
<1>2. ExtraInv /\ [Next]_vars => [AsLease!Grant]_given
  BY GrantStep
<1> QED
  BY <1>1, <1>2, ExtraInvariant, PTL DEF Spec, AsLease!Spec
=============================================================================
