------------------------- MODULE NonceSplitterProofs -------------------------
(* Proofs about NonceSplitter for every number of slots, upstreams and     *)
(* miners and every bound on logins, jobs, requests and reloads.           *)
EXTENDS NonceSplitter, FiniteSetTheorems, WellFoundedInduction, TLAPS

-----------------------------------------------------------------------------
(* The inductive invariant.  MinersPlaced alone is not inductive: remove() *)
(* kills the slot m_fixedByte names, and gc asks the slot table (IsUsed)   *)
(* whether an upstream has miners; both are right only if table, id map    *)
(* and the miners' own fields agree in both directions, in every upstream. *)
TablesMatch ==
    \A u \in Ups :
        /\ \A m \in storage[u].miners :
             /\ m \in Live /\ mapperId[m] = u /\ fixedByte[m] \in Slots
             /\ storage[u].used[fixedByte[m]] = m
        /\ \A i \in Slots : storage[u].used[i] > 0 =>
             /\ storage[u].used[i] \in storage[u].miners
             /\ fixedByte[storage[u].used[i]] = i

Placed ==
    \A m \in Live : mapperId[m] # NoMapper =>
        /\ mapperId[m] \in Existing
        /\ ~IsSuspended(mapperId[m])
        /\ m \in storage[mapperId[m]].miners

(* Only login() gives a connection a mapper and a byte, and it leaves it   *)
(* waiting for a job or ready.                                             *)
LoginsPlace ==
    \A m \in MinerIds :
        /\ phase[m] = "login" => mapperId[m] = NoMapper /\ fixedByte[m] = NoByte
        /\ phase[m] \in {"wait", "ready"} => mapperId[m] # NoMapper

(* The first mapper never sleeps, so gc always has one to stop at; a       *)
(* mapper that is yet to be made is awake when connect() makes it.         *)
Awake == /\ suspended[0] = 0
         /\ \A u \in Ups \ Existing : suspended[u] = 0

(* SharesMatchSession, which needs to know that a pool logs in before it   *)
(* sends jobs.                                                             *)
SessionJobs ==
    \A u \in Ups :
        /\ link[u] = "up" => logins[u] >= 1
        /\ storage[u].active =>
             /\ storage[u].job.clientId = logins[u]
             /\ storage[u].prevJob # NoJob => storage[u].prevJob.clientId = logins[u]

PlaceInv == /\ TypeOK
            /\ TablesMatch
            /\ Placed
            /\ LoginsPlace
            /\ Awake
            /\ SessionJobs
            /\ NobodyWaitsOnActive

(* Requests are numbered one by one; the sequence of a sent one stays with *)
(* one upstream until the answer, and m_results files it under itself.     *)
Numbered == /\ IsFiniteSet(reqs)
            /\ \A r \in reqs : r.seq <= Cardinality(reqs)

Unanswered ==
    \A u \in Ups : \A seq \in inflight[u] :
        /\ seq <= Cardinality(reqs)
        /\ \A m \in MinerIds : answers[<<seq, m>>] = 0
        /\ \A v \in Ups : seq \in inflight[v] => v = u

Filed ==
    \A u \in Ups : \A c \in results[u] : c.key # Failed =>
        c.key = c.seq /\ [seq |-> c.seq, miner |-> c.miner] \in reqs

Attributed ==
    \A u \in Ups : \A seq \in inflight[u] :
        \E c \in results[u] : c.key = seq

AnswerInv == /\ Numbered
             /\ Unanswered
             /\ Filed
             /\ Attributed
             /\ AnsweredOnceToSender

USE NumSlotsAssumption, MinerIdsAssumption, SessionsAssumption,
    MaxUpsAssumption, BoundsAssumption, SessionsAreLogins

-----------------------------------------------------------------------------
(* What the methods of a storage return, for every storage.                *)
(* A miner id is never 0, so that used[i] tells free, live and dead apart. *)
LEMMA IdPositive == \A m \in MinerIds : m \in Int /\ m > 0
<1>1. \A m \in MinerIds : m \in Nat /\ m # 0
  BY DEF MinerIdsAssumption
<1> QED
  BY <1>1

(* The methods of NonceStorage yield a storage.                            *)
LEMMA NewStorageType ==
    ASSUME NEW i \in Slots
    PROVE  NewStorage(i) \in Storage
BY DEF NewStorage, Storage, Slots

LEMMA AddType ==
    ASSUME NEW s \in Storage, NEW m \in MinerIds, NEW i \in Slots
    PROVE  Add(s, m, i) \in Storage
<1> DEFINE u == [s.used EXCEPT ![i] = m]
           n == s.miners \union {m}
<1>1. u \in [Slots -> Int] /\ n \in SUBSET MinerIds
  BY DEF Storage
<1> HIDE DEF u, n
<1>2. [s EXCEPT !.index = i, !.used = u, !.miners = n] \in Storage
  BY <1>1 DEF Storage
<1> QED
  BY <1>2 DEF Add, u, n

LEMMA RemoveType ==
    ASSUME NEW s \in Storage, NEW m \in MinerIds, NEW i \in Slots
    PROVE  Remove(s, m, i) \in Storage
<1> DEFINE u == [s.used EXCEPT ![i] = -m]
           n == s.miners \ {m}
<1>1. u \in [Slots -> Int] /\ n \in SUBSET MinerIds
  BY DEF Storage
<1> HIDE DEF u, n
<1>2. [s EXCEPT !.used = u, !.miners = n] \in Storage
  BY <1>1 DEF Storage
<1> QED
  BY <1>2 DEF Remove, u, n

LEMMA SetActiveType ==
    ASSUME NEW s \in Storage, NEW b \in BOOLEAN
    PROVE  SetActive(s, b) \in Storage
BY DEF SetActive, Storage

LEMMA ResetType ==
    ASSUME NEW s \in Storage
    PROVE  Reset(s) \in Storage
<1> DEFINE u == [k \in Slots |-> 0]
<1>1. u \in [Slots -> Int]
  OBVIOUS
<1> HIDE DEF u
<1>2. [s EXCEPT !.used = u] \in Storage
  BY <1>1 DEF Storage
<1> QED
  BY <1>2 DEF Reset, u

LEMMA SetJobType ==
    ASSUME NEW s \in Storage, NEW j \in Jobs
    PROVE  SetJob(s, j) \in Storage
<1> DEFINE u == [k \in Slots |-> IF s.used[k] < 0 THEN 0 ELSE s.used[k]]
           p == IF s.job.clientId = j.clientId THEN s.job ELSE NoJob
<1>1. u \in [Slots -> Int] /\ p \in Jobs \union {NoJob}
  BY DEF Storage
<1> HIDE DEF u, p
<1>2. [s EXCEPT !.used = u, !.prevJob = p, !.job = j] \in Storage
  BY <1>1 DEF Storage
<1> QED
  BY <1>2 DEF SetJob, u, p

(* What setJob() does to the slots: live ones stay, all others are free.   *)
LEMMA SetJobUsed ==
    ASSUME NEW s \in Storage, NEW j \in Jobs, NEW i \in Slots
    PROVE  /\ SetJob(s, j).used[i] > 0 <=> s.used[i] > 0
           /\ SetJob(s, j).used[i] > 0 => SetJob(s, j).used[i] = s.used[i]
           /\ SetJob(s, j).used[i] >= 0
           /\ s.used[i] > 0 => SetJob(s, j).used[i] = s.used[i]
<1>1. SetJob(s, j).used = [k \in Slots |-> IF s.used[k] < 0 THEN 0 ELSE s.used[k]]
  BY DEF SetJob, Storage
<1>2. s.used[i] \in Int
  BY DEF Storage
<1> QED
  BY <1>1, <1>2

(* The fields of the storage that add(), setJob() and the others leave.   *)
LEMMA AddFields ==
    ASSUME NEW s \in Storage, NEW m \in MinerIds, NEW i \in Slots
    PROVE  /\ Add(s, m, i).active = s.active
           /\ Add(s, m, i).job = s.job
           /\ Add(s, m, i).prevJob = s.prevJob
           /\ Add(s, m, i).miners = s.miners \union {m}
           /\ Add(s, m, i).used = [s.used EXCEPT ![i] = m]
BY DEF Add, Storage

LEMMA SetJobFields ==
    ASSUME NEW s \in Storage, NEW j \in Jobs
    PROVE  /\ SetJob(s, j).active = s.active
           /\ SetJob(s, j).job = j
           /\ SetJob(s, j).prevJob = IF s.job.clientId = j.clientId
                                     THEN s.job ELSE NoJob
           /\ SetJob(s, j).miners = s.miners
BY DEF SetJob, Storage

LEMMA SetActiveFields ==
    ASSUME NEW s \in Storage, NEW b \in BOOLEAN
    PROVE  /\ SetActive(s, b).active = b
           /\ SetActive(s, b).job = s.job
           /\ SetActive(s, b).prevJob = s.prevJob
           /\ SetActive(s, b).miners = s.miners
           /\ SetActive(s, b).used = s.used
BY DEF SetActive, Storage

LEMMA ResetFields ==
    ASSUME NEW s \in Storage
    PROVE  /\ Reset(s).active = s.active
           /\ Reset(s).job = s.job
           /\ Reset(s).prevJob = s.prevJob
           /\ Reset(s).miners = s.miners
           /\ Reset(s).used = [k \in Slots |-> 0]
BY DEF Reset, Storage

(* The fields of the storage that remove() leaves behind.                  *)
LEMMA RemoveFields ==
    ASSUME NEW s \in Storage, NEW m \in MinerIds, NEW i \in Slots
    PROVE  /\ Remove(s, m, i).active = s.active
           /\ Remove(s, m, i).job = s.job
           /\ Remove(s, m, i).prevJob = s.prevJob
           /\ Remove(s, m, i).miners = s.miners \ {m}
           /\ Remove(s, m, i).used = [s.used EXCEPT ![i] = -m]
<1> DEFINE u == [s.used EXCEPT ![i] = -m]
           n == s.miners \ {m}
<1>1. Remove(s, m, i) = [s EXCEPT !.used = u, !.miners = n]
  BY DEF Remove
<1> HIDE DEF u, n
<1>2. LET t == [s EXCEPT !.used = u, !.miners = n]
      IN  /\ t.active = s.active /\ t.job = s.job
          /\ t.prevJob = s.prevJob /\ t.miners = n /\ t.used = u
  BY DEF Storage
<1> QED
  BY <1>1, <1>2 DEF u, n

-----------------------------------------------------------------------------
LEMMA LeastNat ==
    ASSUME NEW T \in SUBSET Nat, T # {}
    PROVE  \E x \in T : \A y \in T : x <= y
<1> DEFINE Less == {p \in Nat \X Nat : p[1] < p[2]}
<1>1. IsWellFoundedOn(Less, Nat)
  BY NatLessThanWellFounded, Zenon DEF OpToRel
<1>2. PICK x \in T : \A y \in T : <<y, x>> \notin Less
  <2> HIDE DEF Less
  <2> QED
    BY <1>1, WFMin
<1> SUFFICES ASSUME NEW y \in T, y < x
             PROVE  FALSE
  OBVIOUS
<1>3. <<y, x>> \in Less
  OBVIOUS
<1> QED
  BY <1>2, <1>3

LEMMA ExistingRange ==
    ASSUME num \in Int
    PROVE  \A u : u \in Existing <=> u \in Int /\ 0 <= u /\ u < num
BY DEF Existing

LEMMA ExistingRangeNext ==
    ASSUME num' \in Int
    PROVE  \A u : u \in Existing' <=> u \in Int /\ 0 <= u /\ u < num'
<1> DEFINE n == num'
<1>1. n \in Int /\ Existing' = 0 .. n - 1
  BY DEF Existing
<1> HIDE DEF n
<1>2. \A u : u \in Existing' <=> u \in Int /\ 0 <= u /\ u < n
  BY <1>1
<1> QED
  BY <1>2 DEF n

LEMMA StorageFacts ==
    ASSUME TypeOK, NEW u \in Ups
    PROVE  /\ storage[u] \in Storage /\ storage[u].used \in [Slots -> Int]
           /\ storage[u].miners \subseteq MinerIds
           /\ storage[u].active \in BOOLEAN
           /\ storage[u].job \in Jobs \union {NoJob}
BY DEF TypeOK, Storage

(* What gc relies on: an upstream whose table looks unused has no miner,   *)
(* and a sleeping one looks unused.                                        *)
LEMMA UnusedHasNoMiner ==
    ASSUME TypeOK, TablesMatch, NEW u \in Ups, ~IsUsed(storage[u])
    PROVE  storage[u].miners = {}
<1> SUFFICES ASSUME NEW m \in storage[u].miners
             PROVE  FALSE
  OBVIOUS
<1>1. m \in MinerIds
  BY StorageFacts
<1>2. fixedByte[m] \in Slots /\ storage[u].used[fixedByte[m]] = m
  BY DEF TablesMatch
<1> QED
  BY <1>1, <1>2, IdPositive DEF IsUsed

LEMMA AsleepUnused ==
    ASSUME TypeOK, TablesMatch, Placed, NEW u \in Ups, IsSuspended(u)
    PROVE  ~IsUsed(storage[u])
<1> SUFFICES ASSUME NEW i \in Slots, storage[u].used[i] > 0
             PROVE  FALSE
  BY DEF IsUsed
<1>1. storage[u].used[i] \in storage[u].miners
  BY DEF TablesMatch
<1>2. storage[u].used[i] \in Live /\ mapperId[storage[u].used[i]] = u
  BY <1>1 DEF TablesMatch
<1>3. u # NoMapper
  BY DEF Ups, NoMapper
<1> QED
  BY <1>2, <1>3 DEF Placed

-----------------------------------------------------------------------------
LEMMA InitPlace == Init => PlaceInv
<1> SUFFICES ASSUME Init
             PROVE  PlaceInv
  OBVIOUS
<1>1. \A u \in Ups : \E i \in Slots : storage[u] = NewStorage(i)
  BY DEF Init
<1>2. \A u \in Ups : /\ storage[u].active = FALSE /\ storage[u].miners = {}
                     /\ \A i \in Slots : storage[u].used[i] = 0
  <2> TAKE u \in Ups
  <2>1. PICK i \in Slots : storage[u] = NewStorage(i)
    BY <1>1
  <2> QED
    BY <2>1 DEF NewStorage
<1>3. storage \in [Ups -> Storage]
  <2>1. storage \in [Ups -> {NewStorage(i) : i \in Slots}]
    BY DEF Init
  <2>2. {NewStorage(i) : i \in Slots} \subseteq Storage
    BY NewStorageType
  <2> QED
    BY <2>1, <2>2
<1>4. answers \in [Seqs \X MinerIds -> Nat]
  BY DEF Init
<1>5. TypeOK
  BY <1>3, <1>4 DEF Init, TypeOK, Ups, NoMapper, NoByte
<1>6. Live = {}
  BY DEF Init, Live
<1> QED
  BY <1>2, <1>5, <1>6 DEF Init, PlaceInv, TablesMatch, Placed, LoginsPlace, Awake,
     SessionJobs, NobodyWaitsOnActive, Ups

(* add() of a newcomer to upstream u, which is awake afterwards.           *)
LEMMA AddToPlace ==
    ASSUME PlaceInv, NEW m \in MinerIds, phase[m] = "login", NEW u \in Ups,
           AddTo(m, u),
           num' \in 1 .. MaxUps, num <= num', u < num',
           suspended' = [suspended EXCEPT ![u] = 0],
           link' \in [Ups -> {"idle", "trying", "up"}],
           \A v \in Ups : link'[v] = "up" => link[v] = "up",
           UNCHANGED <<pending, logins, issued, reloads, ctxVars, histVars>>
    PROVE  PlaceInv'
<1>1. PICK i \in Slots :
        /\ storage[u].used[i] = 0
        /\ storage' = [storage EXCEPT ![u] = Add(storage[u], m, i)]
        /\ fixedByte' = [fixedByte EXCEPT ![m] = i]
        /\ mapperId' = [mapperId EXCEPT ![m] = u]
        /\ phase' = [phase EXCEPT ![m] =
                       IF Add(storage[u], m, i).active THEN "ready" ELSE "wait"]
        /\ given' = IF Add(storage[u], m, i).active
                    THEN [given EXCEPT ![u] = @ \union
                            Handed(Add(storage[u], m, i).job,
                                   Add(storage[u], m, i), {i})]
                    ELSE given
  BY DEF AddTo, IsNextIndex
<1> DEFINE s == Add(storage[u], m, i)
<1>2. /\ TypeOK /\ TablesMatch /\ Placed /\ LoginsPlace /\ Awake /\ SessionJobs
      /\ NobodyWaitsOnActive
  BY DEF PlaceInv
<1>3. /\ s \in Storage
      /\ s.active = storage[u].active /\ s.job = storage[u].job
      /\ s.prevJob = storage[u].prevJob
      /\ s.miners = storage[u].miners \union {m}
      /\ s.used = [storage[u].used EXCEPT ![i] = m]
  <2>1. storage[u] \in Storage
    BY <1>2, StorageFacts
  <2>2. s \in Storage
    BY <2>1, AddType
  <2> QED
    BY ONLY <2>1, <2>2, AddFields, m \in MinerIds, i \in Slots
<1> HIDE DEF s
<1>4. /\ storage' = [storage EXCEPT ![u] = s] /\ storage \in [Ups -> Storage]
      /\ storage'[u] = s /\ \A v \in Ups : v # u => storage'[v] = storage[v]
  BY <1>1, <1>2 DEF TypeOK, s
<1>n. u \in Existing' /\ Existing \subseteq Existing'
  <2>1. num \in Int /\ num' \in Int /\ u \in Int /\ 0 <= u
    BY <1>2 DEF TypeOK, Ups
  <2> QED
    BY <2>1, ExistingRange, ExistingRangeNext
<1>5. \A n \in MinerIds : n # m =>
        /\ phase'[n] = phase[n] /\ mapperId'[n] = mapperId[n]
        /\ fixedByte'[n] = fixedByte[n]
  BY <1>1, <1>2 DEF TypeOK
<1>6. /\ phase'[m] = IF s.active THEN "ready" ELSE "wait"
      /\ mapperId'[m] = u /\ fixedByte'[m] = i
  BY <1>1, <1>2 DEF TypeOK, s
<1>7. \A v \in Ups : m \notin storage[v].miners
  <2>1. mapperId[m] \notin Ups
    BY <1>2 DEF LoginsPlace, NoMapper, Ups
  <2> QED
    BY <2>1, <1>2 DEF TablesMatch
<1>8. TypeOK'
  <2>1. given' \in [Ups -> SUBSET [job : Nat, slot : Slots, miner : Int]]
    <3>1. Handed(s.job, s, {i}) \subseteq [job : Nat, slot : Slots, miner : Int]
      <4>1. s.job.id \in Nat /\ s.used[i] \in Int
        BY <1>3 DEF Storage, Jobs, NoJob
      <4> QED
        BY <4>1 DEF Handed
    <3>2. given' = IF s.active
                   THEN [given EXCEPT ![u] = @ \union Handed(s.job, s, {i})]
                   ELSE given
      BY <1>1 DEF s
    <3> QED
      BY <1>2, <3>1, <3>2 DEF TypeOK
  <2>2. storage' \in [Ups -> Storage]
    BY <1>3, <1>4
  <2>3. /\ suspended' \in [Ups -> 0 .. 2]
        /\ phase' \in [MinerIds -> {"login", "wait", "ready", "closing", "gone"}]
        /\ mapperId' \in [MinerIds -> Ups \union {NoMapper}]
        /\ fixedByte' \in [MinerIds -> Slots \union {NoByte}]
    BY <1>1, <1>2 DEF TypeOK
  <2> QED
    BY <1>2, <2>1, <2>2, <2>3 DEF TypeOK, ctxVars, histVars
<1>9. TablesMatch'
  <2> SUFFICES ASSUME NEW v \in Ups
               PROVE  /\ \A n \in storage'[v].miners :
                           /\ n \in Live' /\ mapperId'[n] = v /\ fixedByte'[n] \in Slots
                           /\ storage'[v].used[fixedByte'[n]] = n
                      /\ \A k \in Slots : storage'[v].used[k] > 0 =>
                           /\ storage'[v].used[k] \in storage'[v].miners
                           /\ fixedByte'[storage'[v].used[k]] = k
    BY DEF TablesMatch
  <2>1. storage[v].used \in [Slots -> Int] /\ storage[v].miners \subseteq MinerIds
    BY <1>2, StorageFacts
  <2>2. ASSUME NEW n \in storage'[v].miners
        PROVE  /\ n \in Live' /\ mapperId'[n] = v /\ fixedByte'[n] \in Slots
               /\ storage'[v].used[fixedByte'[n]] = n
    <3>1. CASE n = m
      <4>1. v = u
        BY <3>1, <1>4, <1>7
      <4> QED
        BY <2>1, <3>1, <4>1, <1>3, <1>4, <1>6 DEF Live
    <3>2. CASE n # m
      <4>1. n \in storage[v].miners /\ n \in MinerIds
        BY <2>1, <3>2, <1>3, <1>4
      <4>2. /\ n \in Live /\ mapperId[n] = v /\ fixedByte[n] \in Slots
            /\ storage[v].used[fixedByte[n]] = n /\ n > 0
        BY <4>1, <1>2, IdPositive DEF TablesMatch
      <4>3. storage'[v].used[fixedByte[n]] = n
        <5>1. CASE v = u
          BY <5>1, <4>2, <2>1, <1>1, <1>3, <1>4, SMTT(40)
        <5> QED
          BY <5>1, <4>2, <1>4
      <4> QED
        BY <4>1, <4>2, <4>3, <3>2, <1>5 DEF Live
    <3> QED
      BY <3>1, <3>2
  <2>3. ASSUME NEW k \in Slots, storage'[v].used[k] > 0
        PROVE  /\ storage'[v].used[k] \in storage'[v].miners
               /\ fixedByte'[storage'[v].used[k]] = k
    <3>1. CASE v = u /\ k = i
      BY <3>1, <2>1, <1>3, <1>4, <1>6
    <3>2. CASE ~(v = u /\ k = i)
      <4>1. storage'[v].used[k] = storage[v].used[k]
        BY <3>2, <2>1, <1>3, <1>4
      <4>2. storage[v].used[k] \in storage[v].miners
            /\ fixedByte[storage[v].used[k]] = k
        BY <4>1, <2>3, <1>2 DEF TablesMatch
      <4>3. storage[v].miners \subseteq storage'[v].miners
        BY <1>3, <1>4
      <4> QED
        BY <4>1, <4>2, <4>3, <2>1, <1>5, <1>7
    <3> QED
      BY <3>1, <3>2
  <2> QED
    BY <2>2, <2>3
<1>10. Placed'
  <2> SUFFICES ASSUME NEW n \in Live', mapperId'[n] # NoMapper
               PROVE  /\ mapperId'[n] \in Existing' /\ ~(suspended'[mapperId'[n]] > 0)
                      /\ n \in storage'[mapperId'[n]].miners
    BY DEF Placed, IsSuspended
  <2>1. CASE n = m
    <3>1. u \in Existing' /\ suspended'[u] = 0
      <4>1. suspended'[u] = 0
        BY <1>2 DEF TypeOK
      <4> QED
        BY <4>1, <1>n
    <3>2. m \in storage'[u].miners
      BY <1>3, <1>4
    <3> QED
      BY <2>1, <3>1, <3>2, <1>6
  <2>2. CASE n # m
    <3>1. n \in Live /\ mapperId'[n] = mapperId[n]
      BY <2>2, <1>5 DEF Live
    <3>2. /\ mapperId[n] \in Existing /\ ~(suspended[mapperId[n]] > 0)
          /\ n \in storage[mapperId[n]].miners
      BY <3>1, <1>2 DEF Placed, IsSuspended
    <3>3. mapperId[n] \in Ups /\ mapperId[n] \in Existing'
      BY <3>2, <1>2, SMTT(40) DEF TypeOK, Existing, Ups
    <3>4. storage[mapperId[n]].miners \subseteq storage'[mapperId[n]].miners
      BY <3>3, <1>3, <1>4
    <3> QED
      BY <3>1, <3>2, <3>3, <3>4, <1>2 DEF TypeOK
  <2> QED
    BY <2>1, <2>2
<1>11. LoginsPlace'
  <2>1. u # NoMapper
    BY DEF Ups, NoMapper
  <2> QED
    BY <2>1, <1>2, <1>5, <1>6 DEF LoginsPlace
<1>12. Awake'
  <2>1. suspended \in [Ups -> 0 .. 2] /\ 0 \in Ups
    BY <1>2 DEF TypeOK, Ups
  <2>2. \A v \in Ups : suspended'[v] = IF v = u THEN 0 ELSE suspended[v]
    BY <2>1
  <2>3. \A v \in Ups \ Existing' : v \notin Existing
    BY <1>n
  <2> QED
    BY <1>2, <2>1, <2>2, <2>3 DEF Awake
<1>13. SessionJobs'
  BY <1>2, <1>3, <1>4 DEF SessionJobs
<1>14. NobodyWaitsOnActive'
  <2> SUFFICES ASSUME NEW n \in MinerIds, phase'[n] = "wait"
               PROVE  ~storage'[mapperId'[n]].active
    BY DEF NobodyWaitsOnActive
  <2>1. CASE n = m
    BY <2>1, <1>4, <1>6
  <2>2. CASE n # m
    <3>1. mapperId[n] \in Ups
      BY <2>2, <1>2, <1>5 DEF TypeOK, LoginsPlace
    <3> QED
      BY <2>2, <3>1, <1>2, <1>3, <1>4, <1>5 DEF NobodyWaitsOnActive
  <2> QED
    BY <2>1, <2>2
<1> QED
  BY <1>8, <1>9, <1>10, <1>11, <1>12, <1>13, <1>14 DEF PlaceInv

(* login() finds an upstream that exists.                                  *)
LEMMA FirstCandidate ==
    ASSUME TypeOK, Candidates # {}
    PROVE  FirstOf(Candidates) \in Existing /\ FirstOf(Candidates) \in Ups
<1>1. Candidates \subseteq Existing /\ Existing \subseteq Ups
  BY DEF Candidates, TypeOK, Existing, Ups
<1>2. Candidates \in SUBSET Nat
  BY <1>1 DEF Ups
<1>3. FirstOf(Candidates) \in Candidates
  BY <1>2, LeastNat DEF FirstOf
<1> QED
  BY <1>1, <1>3

LEMMA LoginPlace ==
    ASSUME PlaceInv, NEW m \in MinerIds, Login(m)
    PROVE  PlaceInv'
<1>1. /\ TypeOK /\ Awake /\ phase[m] = "login"
      /\ num \in Int /\ num \in 1 .. MaxUps
      /\ suspended \in [Ups -> 0 .. 2] /\ link \in [Ups -> {"idle", "trying", "up"}]
  BY DEF PlaceInv, Login, LoginReuse, LoginConnect, TypeOK
<1>2. CASE LoginReuse(m)
  <2> DEFINE u == FirstOf(Candidates)
  <2>2. u \in Existing /\ u \in Ups
    BY <1>1, <1>2, FirstCandidate DEF LoginReuse
  <2>3. AddTo(m, u) /\ suspended' = [suspended EXCEPT ![u] = 0]
        /\ link' = [link EXCEPT ![u] =
                      IF IsSuspended(u) /\ @ = "idle" THEN "trying" ELSE @]
        /\ UNCHANGED <<num, pending, logins, issued, reloads, ctxVars, histVars>>
    BY <1>2 DEF LoginReuse
  <2> HIDE DEF u
  <2>4. u \in Ups /\ u < num
    BY <2>2, <1>1, ExistingRange
  <2>5. /\ link' \in [Ups -> {"idle", "trying", "up"}]
        /\ \A v \in Ups : link'[v] = "up" => link[v] = "up"
    BY <1>1, <2>3, <2>4
  <2>6. num' \in 1 .. MaxUps /\ num <= num' /\ u < num'
    BY <1>1, <2>3, <2>4
  <2> QED
    BY <1>1, <2>3, <2>4, <2>5, <2>6, AddToPlace
<1>3. CASE LoginConnect(m)
  <2>1. /\ num < MaxUps /\ num' = num + 1 /\ AddTo(m, num)
        /\ link' = [link EXCEPT ![num] = "trying"]
        /\ UNCHANGED <<suspended, pending, logins, issued, reloads, ctxVars, histVars>>
    BY <1>3 DEF LoginConnect
  <2>2. num \in Ups /\ num \notin Existing
    BY <1>1, <2>1, ExistingRange DEF Ups
  <2>3. suspended' = [suspended EXCEPT ![num] = 0]
    BY <1>1, <2>1, <2>2 DEF Awake
  <2>4. /\ link' \in [Ups -> {"idle", "trying", "up"}]
        /\ \A v \in Ups : link'[v] = "up" => link[v] = "up"
    BY <1>1, <2>1, <2>2
  <2>5. num' \in 1 .. MaxUps /\ num <= num' /\ num < num'
    BY <1>1, <2>1
  <2> QED
    BY <1>1, <2>1, <2>2, <2>3, <2>4, <2>5, AddToPlace
<1> QED
  BY <1>2, <1>3 DEF Login

(* A connection that starts to close keeps its place.                      *)
LEMMA ClosingPlace ==
    ASSUME PlaceInv, TypeOK', NEW m \in MinerIds,
           phase[m] \in {"login", "wait", "ready"},
           phase' = [phase EXCEPT ![m] = "closing"] \/ UNCHANGED phase,
           UNCHANGED <<upVars, mapperId, fixedByte>>
    PROVE  PlaceInv'
<1>1. /\ TypeOK /\ TablesMatch /\ Placed /\ LoginsPlace /\ Awake /\ SessionJobs
      /\ NobodyWaitsOnActive
      /\ UNCHANGED <<num, storage, suspended, link, logins, mapperId, fixedByte>>
  BY DEF PlaceInv, upVars
<1>2. phase \in [MinerIds -> {"login", "wait", "ready", "closing", "gone"}]
  BY <1>1 DEF TypeOK
<1>3. /\ Live \subseteq Live' /\ Live' \subseteq Live \union {m}
      /\ \A n \in MinerIds : phase'[n] \in {"login", "wait", "ready"} =>
           phase'[n] = phase[n]
  BY <1>2 DEF Live
<1>4. m \notin Live => mapperId[m] = NoMapper
  BY <1>1 DEF Live, LoginsPlace
<1>5. TablesMatch'
  BY <1>1, <1>3 DEF TablesMatch
<1>6. Placed'
  BY <1>1, <1>3, <1>4 DEF Placed, Existing, IsSuspended
<1>7. LoginsPlace' /\ NobodyWaitsOnActive'
  BY <1>1, <1>3 DEF LoginsPlace, NobodyWaitsOnActive
<1>8. Awake' /\ SessionJobs'
  BY <1>1 DEF Awake, SessionJobs, Existing
<1> QED
  BY <1>5, <1>6, <1>7, <1>8 DEF PlaceInv

(* remove() finds the miner in the table of its mapper and frees its slot. *)
LEMMA ClosedPlace ==
    ASSUME PlaceInv, NEW m \in MinerIds, Closed(m)
    PROVE  PlaceInv'
<1>1. /\ TypeOK /\ TablesMatch /\ Placed /\ LoginsPlace /\ Awake /\ SessionJobs
      /\ NobodyWaitsOnActive
  BY DEF PlaceInv
<1>2. /\ phase[m] = "closing" /\ phase' = [phase EXCEPT ![m] = "gone"]
      /\ UNCHANGED <<num, suspended, link, pending, logins, issued, given,
                     ctxVars, mapperId, fixedByte, reloads, histVars>>
  BY DEF Closed
<1>3. /\ phase \in [MinerIds -> {"login", "wait", "ready", "closing", "gone"}]
      /\ storage \in [Ups -> Storage]
  BY <1>1 DEF TypeOK
<1>4. /\ Live' = Live \ {m} /\ m \in Live
      /\ \A n \in MinerIds : phase'[n] \in {"login", "wait", "ready"} =>
           phase'[n] = phase[n]
  BY <1>2, <1>3 DEF Live
<1>5. \A u \in Ups : m \in storage[u].miners => mapperId[m] = u
  BY <1>1 DEF TablesMatch
(* What happens to the tables, seen from one upstream.                     *)
<1>6. ASSUME NEW u \in Ups
      PROVE  /\ storage'[u] \in Storage
             /\ storage'[u].active = storage[u].active
             /\ storage'[u].job = storage[u].job
             /\ storage'[u].prevJob = storage[u].prevJob
             /\ storage'[u].miners = storage[u].miners \ {m}
             /\ \A i \in Slots :
                  storage'[u].used[i] = IF m \in storage[u].miners /\ i = fixedByte[m]
                                        THEN -m ELSE storage[u].used[i]
  <2>1. CASE m \in storage[u].miners
    <3>1. /\ fixedByte[m] \in Slots /\ mapperId[m] = u /\ u # NoMapper
      BY <2>1, <1>1 DEF TablesMatch, Ups, NoMapper
    <3>2. storage'[u] = Remove(storage[u], m, fixedByte[m])
      BY <3>1, <1>3 DEF Closed
    <3>3. storage[u] \in Storage /\ storage[u].used \in [Slots -> Int]
      BY <1>1, StorageFacts
    <3> DEFINE t == Remove(storage[u], m, fixedByte[m])
    <3>4. t \in Storage
      BY <3>1, <3>3, RemoveType
    <3>5. /\ t.active = storage[u].active
          /\ t.job = storage[u].job
          /\ t.prevJob = storage[u].prevJob
          /\ t.miners = storage[u].miners \ {m}
          /\ t.used = [storage[u].used EXCEPT ![fixedByte[m]] = -m]
      BY <3>1, <3>3, RemoveFields
    <3> HIDE DEF t
    <3> QED
      BY <2>1, <3>2, <3>3, <3>4, <3>5 DEF t
  <2>2. CASE m \notin storage[u].miners
    <3>1. storage'[u] = storage[u]
      <4>1. mapperId[m] # u
        BY <2>2, <1>1, <1>4 DEF Placed, Ups, NoMapper
      <4> QED
        BY <4>1, <1>3 DEF Closed
    <3>2. storage[u].miners = storage[u].miners \ {m}
      BY <2>2
    <3> QED
      BY <2>2, <3>1, <3>2, <1>1, StorageFacts
  <2> QED
    BY <2>1, <2>2
<1>7. TypeOK'
  <2>1. storage' \in [Ups -> Storage]
    <3>1. storage' = storage \/ \E t : storage' = [storage EXCEPT ![mapperId[m]] = t]
      BY DEF Closed
    <3> QED
      BY <3>1, <1>3, <1>6
  <2>2. phase' \in [MinerIds -> {"login", "wait", "ready", "closing", "gone"}]
    BY <1>2, <1>3
  <2> QED
    BY <2>1, <2>2, <1>1, <1>2 DEF TypeOK, ctxVars, histVars
<1>8. TablesMatch'
  <2> SUFFICES ASSUME NEW u \in Ups
               PROVE  /\ \A n \in storage'[u].miners :
                           /\ n \in Live' /\ mapperId'[n] = u /\ fixedByte'[n] \in Slots
                           /\ storage'[u].used[fixedByte'[n]] = n
                      /\ \A k \in Slots : storage'[u].used[k] > 0 =>
                           /\ storage'[u].used[k] \in storage'[u].miners
                           /\ fixedByte'[storage'[u].used[k]] = k
    BY DEF TablesMatch
  <2>1. /\ storage[u].used \in [Slots -> Int] /\ storage[u].miners \subseteq MinerIds
        /\ m \in Int /\ m > 0
    BY <1>1, StorageFacts, IdPositive
  <2>2. ASSUME NEW n \in storage'[u].miners
        PROVE  /\ n \in Live' /\ mapperId'[n] = u /\ fixedByte'[n] \in Slots
               /\ storage'[u].used[fixedByte'[n]] = n
    <3>1. n \in storage[u].miners /\ n # m
      BY <1>6
    <3>2. /\ n \in Live /\ mapperId[n] = u /\ fixedByte[n] \in Slots
          /\ storage[u].used[fixedByte[n]] = n
      BY <3>1, <1>1 DEF TablesMatch
    <3>3. m \in storage[u].miners => fixedByte[n] # fixedByte[m]
      BY <3>1, <3>2, <1>1 DEF TablesMatch
    <3> QED
      BY <3>1, <3>2, <3>3, <1>2, <1>4, <1>6
  <2>3. ASSUME NEW k \in Slots, storage'[u].used[k] > 0
        PROVE  /\ storage'[u].used[k] \in storage'[u].miners
               /\ fixedByte'[storage'[u].used[k]] = k
    <3>1. /\ storage'[u].used[k] = storage[u].used[k]
          /\ ~(m \in storage[u].miners /\ k = fixedByte[m])
      BY <2>1, <2>3, <1>6
    <3>2. /\ storage[u].used[k] \in storage[u].miners
          /\ fixedByte[storage[u].used[k]] = k
      BY <3>1, <2>3, <1>1 DEF TablesMatch
    <3> QED
      BY <3>1, <3>2, <1>2, <1>6
  <2> QED
    BY <2>2, <2>3
<1>9. Placed'
  <2> SUFFICES ASSUME NEW n \in Live', mapperId[n] # NoMapper
               PROVE  /\ mapperId[n] \in Existing /\ ~IsSuspended(mapperId[n])
                      /\ n \in storage'[mapperId[n]].miners
    BY <1>2 DEF Placed, Existing, IsSuspended
  <2>1. /\ mapperId[n] \in Existing /\ ~IsSuspended(mapperId[n])
        /\ n \in storage[mapperId[n]].miners /\ n # m
    BY <1>1, <1>4 DEF Placed
  <2>2. mapperId[n] \in Ups
    BY <2>1, <1>1, <1>4 DEF TypeOK, Live, Existing, Ups
  <2> QED
    BY <2>1, <2>2, <1>6
<1>10. LoginsPlace' /\ Awake' /\ SessionJobs'
  BY <1>1, <1>2, <1>4, <1>6 DEF LoginsPlace, Awake, SessionJobs, Existing
<1>11. NobodyWaitsOnActive'
  <2> SUFFICES ASSUME NEW n \in MinerIds, phase'[n] = "wait"
               PROVE  ~storage'[mapperId[n]].active
    BY <1>2 DEF NobodyWaitsOnActive
  <2>1. phase[n] = "wait" /\ mapperId[n] \in Ups
    BY <1>1, <1>4 DEF TypeOK, LoginsPlace
  <2> QED
    BY <2>1, <1>1, <1>6 DEF NobodyWaitsOnActive
<1> QED
  BY <1>7, <1>8, <1>9, <1>10, <1>11 DEF PlaceInv

(* A job of the session the upstream is in from then on: whoever waited on *)
(* the upstream has it.                                                    *)
LEMMA ReceiveJobPlace ==
    ASSUME PlaceInv, NEW u \in Ups, NEW c \in Sessions, NEW b \in BOOLEAN,
           ReceiveJob(u, c, b), c = logins'[u],
           logins' \in [Ups -> 0 .. MaxLogins],
           \A v \in Ups : v # u => logins'[v] = logins[v],
           link' \in [Ups -> {"idle", "trying", "up"}],
           \A v \in Ups : v # u => link'[v] = link[v],
           pending' \in [Ups -> BOOLEAN],
           inflight' \in [Ups -> SUBSET Seqs],
           UNCHANGED results
    PROVE  PlaceInv'
<1> DEFINE j == [id |-> issued[u] + 1, clientId |-> c]
           a == SetActive(storage[u], b)
           s == SetJob(a, j)
<1>1. /\ TypeOK /\ TablesMatch /\ Placed /\ LoginsPlace /\ Awake /\ SessionJobs
      /\ NobodyWaitsOnActive
  BY DEF PlaceInv
<1>2. /\ issued[u] < MaxJobs /\ issued' = [issued EXCEPT ![u] = @ + 1]
      /\ storage' = [storage EXCEPT ![u] = s]
      /\ given' = [given EXCEPT ![u] = @ \union Handed(j, s, Receivers(s))]
      /\ phase' = ReadyWith({s.used[i] : i \in Receivers(s)})
      /\ UNCHANGED <<num, suspended, mapperId, fixedByte, reqs, answers, reloads>>
  BY DEF ReceiveJob
<1>3. /\ storage \in [Ups -> Storage] /\ issued \in [Ups -> 0 .. MaxJobs]
      /\ phase \in [MinerIds -> {"login", "wait", "ready", "closing", "gone"}]
      /\ issued[u] \in Nat
  BY <1>1 DEF TypeOK
<1>4. j \in Jobs /\ j.clientId = c
  BY <1>3 DEF Jobs
<1>5. /\ a \in Storage /\ a.active = b /\ a.job = storage[u].job
      /\ a.miners = storage[u].miners /\ a.used = storage[u].used
  <2>1. storage[u] \in Storage
    BY <1>3
  <2>2. a \in Storage
    BY <2>1, SetActiveType
  <2> QED
    BY <2>1, <2>2, SetActiveFields
<1> HIDE DEF j, a
<1>6. /\ s \in Storage /\ s.active = b /\ s.job = j /\ s.miners = storage[u].miners
      /\ s.prevJob = IF storage[u].job.clientId = c THEN storage[u].job ELSE NoJob
  <2>1. s \in Storage
    BY <1>4, <1>5, SetJobType
  <2> QED
    BY <2>1, <1>4, <1>5, SetJobFields
<1>7. \A i \in Slots :
        /\ s.used[i] \in Int /\ storage[u].used[i] \in Int
        /\ storage[u].used[i] > 0 => s.used[i] = storage[u].used[i]
        /\ s.used[i] > 0 => s.used[i] = storage[u].used[i]
  <2>1. s.used \in [Slots -> Int] /\ storage[u].used \in [Slots -> Int]
    BY <1>6, <1>1, StorageFacts DEF Storage
  <2> QED
    BY <2>1, <1>4, <1>5, SetJobUsed
<1> HIDE DEF s
<1>8. storage'[u] = s /\ \A v \in Ups : v # u => storage'[v] = storage[v]
  BY <1>2, <1>3
<1>9. \A n \in MinerIds :
        /\ phase'[n] = phase[n] \/ (phase[n] = "wait" /\ phase'[n] = "ready")
        /\ n \in {s.used[i] : i \in Receivers(s)} => phase'[n] # "wait"
  BY <1>2, <1>3 DEF ReadyWith
<1>10. phase' \in [MinerIds -> {"login", "wait", "ready", "closing", "gone"}]
  BY <1>2, <1>3 DEF ReadyWith
<1>11. Live' = Live
  BY <1>9 DEF Live
<1>12. TypeOK'
  <2>1. Handed(j, s, Receivers(s)) \subseteq [job : Nat, slot : Slots, miner : Int]
    <3> SUFFICES ASSUME NEW i \in Receivers(s)
                 PROVE  [job |-> j.id, slot |-> i, miner |-> s.used[i]]
                          \in [job : Nat, slot : Slots, miner : Int]
      BY DEF Handed
    <3>1. i \in Slots /\ j.id \in Nat
      BY <1>4 DEF Receivers, Jobs
    <3> QED
      BY <3>1, <1>7
  <2>2. given' \in [Ups -> SUBSET [job : Nat, slot : Slots, miner : Int]]
    BY <2>1, <1>1, <1>2 DEF TypeOK
  <2>3. storage' \in [Ups -> Storage]
    BY <1>2, <1>3, <1>6
  <2>4. issued' \in [Ups -> 0 .. MaxJobs]
    BY <1>2, <1>3
  <2> QED
    BY <2>2, <2>3, <2>4, <1>1, <1>2, <1>10 DEF TypeOK
<1>13. TablesMatch'
  <2> SUFFICES ASSUME NEW v \in Ups
               PROVE  /\ \A n \in storage'[v].miners :
                           /\ n \in Live /\ mapperId[n] = v /\ fixedByte[n] \in Slots
                           /\ storage'[v].used[fixedByte[n]] = n
                      /\ \A k \in Slots : storage'[v].used[k] > 0 =>
                           /\ storage'[v].used[k] \in storage'[v].miners
                           /\ fixedByte[storage'[v].used[k]] = k
    BY <1>2, <1>11 DEF TablesMatch
  <2>1. CASE v # u
    BY <2>1, <1>1, <1>8 DEF TablesMatch
  <2>2. CASE v = u
    <3>1. \A n \in storage[u].miners : n > 0
      BY <1>1, StorageFacts, IdPositive
    <3>2. /\ \A n \in s.miners :
               /\ n \in Live /\ mapperId[n] = u /\ fixedByte[n] \in Slots
               /\ storage[u].used[fixedByte[n]] = n
          /\ \A k \in Slots : storage[u].used[k] > 0 =>
               /\ storage[u].used[k] \in s.miners
               /\ fixedByte[storage[u].used[k]] = k
      BY <1>1, <1>6 DEF TablesMatch
    <3>3. \A n \in s.miners : s.used[fixedByte[n]] = n
      BY <3>1, <3>2, <1>6, <1>7
    <3>4. \A k \in Slots : s.used[k] > 0 =>
             s.used[k] \in s.miners /\ fixedByte[s.used[k]] = k
      BY <3>2, <1>7
    <3> QED
      BY <2>2, <3>2, <3>3, <3>4, <1>8
  <2> QED
    BY <2>1, <2>2
<1>14. Placed'
  <2>1. \A v \in Ups : storage'[v].miners = storage[v].miners
    BY <1>6, <1>8
  <2>2. \A n \in Live : mapperId[n] # NoMapper => mapperId[n] \in Ups
    BY <1>1 DEF TypeOK, Live
  <2> QED
    BY <2>1, <2>2, <1>1, <1>2, <1>11 DEF Placed, Existing, IsSuspended
<1>15. LoginsPlace' /\ Awake'
  BY <1>1, <1>2, <1>9 DEF LoginsPlace, Awake, Existing
<1>16. SessionJobs'
  <2>1. c >= 1 /\ logins'[u] >= 1
    OBVIOUS
  <2> QED
    BY <2>1, <1>1, <1>4, <1>6, <1>8 DEF SessionJobs
<1>17. NobodyWaitsOnActive'
  <2> SUFFICES ASSUME NEW n \in MinerIds, phase'[n] = "wait"
               PROVE  ~storage'[mapperId[n]].active
    BY <1>2 DEF NobodyWaitsOnActive
  <2>1. phase[n] = "wait" /\ mapperId[n] \in Ups /\ mapperId[n] # NoMapper
    BY <1>1, <1>9, ZenonT(60) DEF TypeOK, LoginsPlace
  <2>2. mapperId[n] # u
    <3> SUFFICES ASSUME mapperId[n] = u
                 PROVE  FALSE
      OBVIOUS
    <3>1. n \in storage[u].miners
      BY <2>1, <1>1 DEF Placed, Live
    <3>2. fixedByte[n] \in Slots /\ storage[u].used[fixedByte[n]] = n /\ n > 0
      BY <3>1, <1>1, IdPositive DEF TablesMatch
    <3>3. fixedByte[n] \in Receivers(s) /\ s.used[fixedByte[n]] = n
      BY <3>1, <3>2, <1>6, <1>7 DEF Receivers
    <3> QED
      BY <3>3, <1>9
  <2> QED
    BY <2>1, <2>2, <1>1, <1>8 DEF NobodyWaitsOnActive
<1> QED
  BY <1>12, <1>13, <1>14, <1>15, <1>16, <1>17 DEF PlaceInv

LEMMA NewSessionPlace ==
    ASSUME PlaceInv, NEW u \in Ups, LinkUp(u) \/ PendingUp(u)
    PROVE  PlaceInv'
<1>1. /\ TypeOK /\ NewSession(u) /\ link' = [link EXCEPT ![u] = "up"]
      /\ pending' = pending \/ pending' = [pending EXCEPT ![u] = FALSE]
  BY DEF PlaceInv, LinkUp, PendingUp
<1> DEFINE c == logins[u] + 1
<1>2. /\ logins[u] < MaxLogins /\ logins' = [logins EXCEPT ![u] = @ + 1]
      /\ inflight' = [inflight EXCEPT ![u] = {}]
      /\ ReceiveJob(u, c, TRUE) /\ UNCHANGED results
  BY <1>1 DEF NewSession
<1>3. /\ logins \in [Ups -> 0 .. MaxLogins] /\ inflight \in [Ups -> SUBSET Seqs]
      /\ link \in [Ups -> {"idle", "trying", "up"}] /\ pending \in [Ups -> BOOLEAN]
  BY <1>1 DEF TypeOK
<1>4. /\ c \in Sessions /\ c = logins'[u] /\ logins' \in [Ups -> 0 .. MaxLogins]
      /\ \A v \in Ups : v # u => logins'[v] = logins[v]
  <2>1. logins[u] \in 0 .. MaxLogins
    BY <1>3
  <2>2. logins[u] + 1 \in 1 .. MaxLogins
    BY <2>1, <1>2
  <2> QED
    BY <2>2, <1>2, <1>3
<1>5. /\ link' \in [Ups -> {"idle", "trying", "up"}]
      /\ \A v \in Ups : v # u => link'[v] = link[v]
      /\ pending' \in [Ups -> BOOLEAN] /\ inflight' \in [Ups -> SUBSET Seqs]
  BY <1>1, <1>2, <1>3
<1> HIDE DEF c
<1> QED
  BY <1>2, <1>4, <1>5, ReceiveJobPlace

LEMMA LinkJobPlace ==
    ASSUME PlaceInv, NEW u \in Ups, LinkJob(u)
    PROVE  PlaceInv'
<1>1. /\ TypeOK /\ SessionJobs /\ link[u] = "up"
      /\ ReceiveJob(u, logins[u], storage[u].active)
      /\ UNCHANGED <<link, pending, logins, results, inflight>>
  BY DEF PlaceInv, LinkJob, ctxVars
<1>2. logins[u] \in Sessions /\ storage[u].active \in BOOLEAN
  <2>1. logins[u] \in 0 .. MaxLogins /\ logins[u] >= 1
    BY <1>1 DEF TypeOK, SessionJobs
  <2> QED
    BY <2>1, <1>1, StorageFacts
<1>3. /\ logins' \in [Ups -> 0 .. MaxLogins] /\ inflight' \in [Ups -> SUBSET Seqs]
      /\ link' \in [Ups -> {"idle", "trying", "up"}] /\ pending' \in [Ups -> BOOLEAN]
  BY <1>1 DEF TypeOK
<1> QED
  BY <1>1, <1>2, <1>3, ReceiveJobPlace

LEMMA LinkDownPlace ==
    ASSUME PlaceInv, NEW u \in Ups, LinkDown(u)
    PROVE  PlaceInv'
<1>1. /\ TypeOK /\ TablesMatch /\ Placed /\ LoginsPlace /\ Awake /\ SessionJobs
      /\ NobodyWaitsOnActive
  BY DEF PlaceInv
<1>2. /\ link' = [link EXCEPT ![u] = "trying"]
      /\ storage' = [storage EXCEPT ![u] = SetActive(storage[u], FALSE)]
      /\ inflight' = [inflight EXCEPT ![u] = {}]
      /\ UNCHANGED <<num, suspended, pending, logins, issued, given, results,
                     phase, mapperId, fixedByte, reqs, answers, reloads>>
  BY <1>1 DEF LinkDown, TypeOK, minVars, histVars
<1>3. /\ storage \in [Ups -> Storage] /\ storage[u] \in Storage
      /\ link \in [Ups -> {"idle", "trying", "up"}] /\ inflight \in [Ups -> SUBSET Seqs]
  BY <1>1 DEF TypeOK
<1>4. storage' \in [Ups -> Storage]
  <2>1. SetActive(storage[u], FALSE) \in Storage
    BY <1>3, SetActiveType
  <2> QED
    BY <2>1, <1>2, <1>3
<1>5. ASSUME NEW v \in Ups
      PROVE  /\ storage'[v].miners = storage[v].miners
             /\ storage'[v].used = storage[v].used
             /\ storage'[v].job = storage[v].job
             /\ storage'[v].prevJob = storage[v].prevJob
             /\ storage'[v].active => storage[v].active
  <2>1. CASE v # u
    BY <2>1, <1>2, <1>3
  <2>2. CASE v = u
    <3> DEFINE t == SetActive(storage[u], FALSE)
    <3>1. /\ t.miners = storage[u].miners /\ t.used = storage[u].used
          /\ t.job = storage[u].job /\ t.prevJob = storage[u].prevJob /\ ~t.active
      BY <1>3, SetActiveFields
    <3>2. storage'[v] = t
      BY <2>2, <1>2, <1>3
    <3> HIDE DEF t
    <3> QED
      BY <2>2, <3>1, <3>2
  <2> QED
    BY <2>1, <2>2
<1>6. TypeOK'
  BY <1>1, <1>2, <1>3, <1>4 DEF TypeOK
<1>l. Live' = Live /\ mapperId' = mapperId /\ fixedByte' = fixedByte /\ phase' = phase
  BY <1>2 DEF Live
<1>7. TablesMatch'
  <2> SUFFICES ASSUME NEW v \in Ups
               PROVE  /\ \A n \in storage'[v].miners :
                           /\ n \in Live /\ mapperId[n] = v /\ fixedByte[n] \in Slots
                           /\ storage'[v].used[fixedByte[n]] = n
                      /\ \A k \in Slots : storage'[v].used[k] > 0 =>
                           /\ storage'[v].used[k] \in storage'[v].miners
                           /\ fixedByte[storage'[v].used[k]] = k
    BY <1>l DEF TablesMatch
  <2> QED
    BY <1>1, <1>5 DEF TablesMatch
<1>8. Placed'
  <2>1. \A n \in Live : mapperId[n] # NoMapper => mapperId[n] \in Ups
    BY <1>1 DEF TypeOK, Live
  <2> QED
    BY <2>1, <1>1, <1>2, <1>5, <1>l, ZenonT(60) DEF Placed, Existing, IsSuspended
<1>w. NobodyWaitsOnActive'
  <2>1. \A n \in MinerIds : phase[n] = "wait" => mapperId[n] \in Ups
    BY <1>1 DEF TypeOK, LoginsPlace
  <2> QED
    BY <2>1, <1>1, <1>5, <1>l DEF NobodyWaitsOnActive
<1>9. LoginsPlace' /\ Awake'
  BY <1>1, <1>2 DEF LoginsPlace, Awake, Existing
<1>10. SessionJobs'
  <2>1. \A v \in Ups : link'[v] = "up" => link[v] = "up"
    BY <1>2, <1>3
  <2> SUFFICES ASSUME NEW v \in Ups
               PROVE  /\ link'[v] = "up" => logins[v] >= 1
                      /\ storage'[v].active =>
                           /\ storage'[v].job.clientId = logins[v]
                           /\ storage'[v].prevJob # NoJob => storage'[v].prevJob.clientId = logins[v]
    BY <1>2 DEF SessionJobs
  <2>2. /\ link[v] = "up" => logins[v] >= 1
        /\ storage[v].active =>
             /\ storage[v].job.clientId = logins[v]
             /\ storage[v].prevJob # NoJob => storage[v].prevJob.clientId = logins[v]
    BY ONLY <1>1, v \in Ups DEF SessionJobs
  <2>3. /\ storage'[v].job = storage[v].job /\ storage'[v].prevJob = storage[v].prevJob
        /\ storage'[v].active => storage[v].active
    BY ONLY <1>5, v \in Ups
  <2> QED
    BY ONLY <2>1, <2>2, <2>3, v \in Ups
<1> QED
  BY <1>6, <1>7, <1>8, <1>9, <1>10, <1>w DEF PlaceInv

(* The mappers that a round of gc sends to sleep, and those it deletes.    *)
Doze == {u \in Existing : Dozes(u)}
Gone == {u \in Existing : u \notin Existing'}

(* A round of gc, seen from one mapper: only mappers that nobody uses are  *)
(* suspended, and only sleeping ones are deleted.                          *)
LEMMA GCFacts ==
    ASSUME PlaceInv, GC
    PROVE  /\ num' \in 1 .. num
           /\ \A u \in Gone : u \in Ups /\ u # 0 /\ IsSuspended(u)
           /\ suspended' \in [Ups -> 0 .. 2]
           /\ \A u \in Ups :
                /\ u \in Gone => suspended'[u] = 0
                /\ u \notin Gone /\ u \notin Doze =>
                     (IsSuspended(u)' <=> IsSuspended(u))
           /\ link' \in [Ups -> {"idle", "trying", "up"}]
           /\ \A u \in Ups : link'[u] = "up" => link[u] = "up"
           /\ storage' = [u \in Ups |-> storage'[u]]
           /\ \A u \in Ups :
                IF u \in Gone THEN \E i \in Slots : storage'[u] = NewStorage(i)
                ELSE IF u \in Doze THEN storage'[u] = Reset(SetActive(storage[u], FALSE))
                ELSE storage'[u] = storage[u]
           /\ pending' \in [Ups -> BOOLEAN]
           /\ results' = [u \in Ups |-> IF u \in Gone THEN {} ELSE results[u]]
           /\ inflight' = [u \in Ups |-> IF u \in Gone \/ u \in Doze
                                         THEN {} ELSE inflight[u]]
           /\ UNCHANGED <<logins, issued, given, phase, mapperId, fixedByte,
                          reqs, answers, reloads>>
<1> DEFINE next == [u \in Ups |-> IF u \in Doze THEN 1
                                  ELSE IF u \in Existing /\ IsSuspended(u) THEN 2
                                  ELSE suspended[u]]
           Stop(n) == next[n - 1] < 2 /\ \A u \in n .. num - 1 : next[u] >= 2
           keep == CHOOSE n \in 1 .. num : Stop(n)
           gone == keep .. num - 1
<1>1. /\ TypeOK /\ Awake /\ num \in 1 .. MaxUps /\ num \in Nat
      /\ suspended \in [Ups -> 0 .. 2] /\ suspended[0] = 0
      /\ link \in [Ups -> {"idle", "trying", "up"}] /\ pending \in [Ups -> BOOLEAN]
      /\ Existing \subseteq Ups /\ 0 \in Ups
  <2>1. TypeOK /\ Awake
    BY DEF PlaceInv
  <2>2. /\ num \in 1 .. MaxUps /\ suspended \in [Ups -> 0 .. 2]
        /\ link \in [Ups -> {"idle", "trying", "up"}] /\ pending \in [Ups -> BOOLEAN]
    BY ONLY <2>1 DEF TypeOK
  <2>3. suspended[0] = 0
    BY ONLY <2>1 DEF Awake
  <2>4. MaxUps \in Nat
    BY BoundsAssumption
  <2>5. num \in Nat /\ Existing \subseteq Ups /\ 0 \in Ups
    BY ONLY <2>2, <2>4 DEF Existing, Ups
  <2> QED
    BY ONLY <2>1, <2>2, <2>3, <2>5
<1>2. /\ num' = keep
      /\ suspended' = [u \in Ups |-> IF u \in gone THEN 0 ELSE next[u]]
      /\ \E late \in SUBSET {u \in Doze : link[u] = "trying"} :
           link' = [u \in Ups |-> IF u \in gone \/ u \in Doze \ late
                                  THEN "idle" ELSE link[u]]
      /\ \E i \in Slots :
           storage' = [u \in Ups |->
                         IF u \in gone THEN NewStorage(i)
                         ELSE IF u \in Doze
                              THEN Reset(SetActive(storage[u], FALSE))
                              ELSE storage[u]]
      /\ pending' = [u \in Ups |-> pending[u] /\ u \notin gone]
      /\ results' = [u \in Ups |-> IF u \in gone THEN {} ELSE results[u]]
      /\ inflight' = [u \in Ups |-> IF u \in gone \/ u \in Doze
                                    THEN {} ELSE inflight[u]]
      /\ UNCHANGED <<logins, issued, given, minVars, histVars, reloads>>
  BY Zenon DEF GC, Doze
<1>3. /\ next \in [Ups -> 0 .. 2] /\ next[0] = 0
      /\ \A u \in Ups : next[u] >= 2 => IsSuspended(u)
      /\ \A u \in Ups : u \notin Doze => (next[u] > 0 <=> IsSuspended(u))
  BY <1>1 DEF IsSuspended, Doze, Dozes
<1> HIDE DEF next
(* keep exists: the last mapper that is not due stops the loop.            *)
<1>4. \E n \in 1 .. num : Stop(n)
  <2> DEFINE T == {num - n : n \in {n \in 1 .. num : next[n - 1] < 2}}
  <2>1. T \in SUBSET Nat
    BY <1>1
  <2>2. T # {}
    <3>1. 1 \in {n \in 1 .. num : next[n - 1] < 2}
      BY <1>1, <1>3
    <3> QED
      BY <3>1
  <2>3. PICK x \in T : \A y \in T : x <= y
    <3> HIDE DEF T
    <3> QED
      BY <2>1, <2>2, LeastNat
  <2>4. PICK n \in 1 .. num : next[n - 1] < 2 /\ x = num - n
    OBVIOUS
  <2>5. ASSUME NEW u \in n .. num - 1, ~(next[u] >= 2)
        PROVE  FALSE
    <3>1. u \in Ups /\ u \in Int /\ next[u] < 2
      <4>1. u \in Ups /\ u \in Int
        BY <1>1 DEF Ups
      <4> QED
        BY <4>1, <2>5, <1>3
    <3>2. u + 1 \in 1 .. num /\ (u + 1) - 1 = u
      BY <1>1, <3>1
    <3>3. num - (u + 1) \in T
      BY <3>1, <3>2
    <3> QED
      <4>1. num - n <= num - (u + 1)
        BY <2>3, <2>4, <3>3
      <4>2. n \in Int /\ n <= u /\ num \in Int
        BY <1>1
      <4> QED
        BY <3>1, <4>1, <4>2
  <2> QED
    BY <2>4, <2>5
<1>5. keep \in 1 .. num /\ Stop(keep)
  <2> HIDE DEF Stop
  <2> QED
    BY <1>4
<1> HIDE DEF keep
<1>6. \A u \in gone : u \in Ups /\ u # 0 /\ IsSuspended(u)
  BY <1>1, <1>3, <1>5 DEF Ups
<1>7. gone = Gone
  <2>1. num' \in Int /\ num' = keep /\ num \in Int
    BY <1>1, <1>2, <1>5
  <2>2. \A u : u \in Gone <=> u \in Int /\ 0 <= u /\ u < num /\ ~(u < keep)
    BY <2>1, ExistingRange, ExistingRangeNext DEF Gone
  <2>3. \A u : u \in gone <=> u \in Int /\ keep <= u /\ u < num
    BY <1>1, <1>5
  <2> QED
    <3>1. keep \in Int /\ keep >= 1
      BY <1>5
    <3>2. \A u : u \in Gone <=> u \in gone
      <4> HIDE DEF gone
      <4> QED
        BY <3>1, <2>1, <2>2, <2>3
    <3> HIDE DEF gone
    <3> QED
      BY <3>2
<1> HIDE DEF gone, Stop
<1>8. /\ suspended' \in [Ups -> 0 .. 2]
      /\ \A u \in Ups :
           /\ u \in Gone => suspended'[u] = 0
           /\ u \notin Gone /\ u \notin Doze => (IsSuspended(u)' <=> IsSuspended(u))
  BY <1>2, <1>3, <1>7 DEF IsSuspended
<1>9. /\ link' \in [Ups -> {"idle", "trying", "up"}]
      /\ \A u \in Ups : link'[u] = "up" => link[u] = "up"
  BY <1>1, <1>2
<1>10. /\ storage' = [u \in Ups |-> storage'[u]]
       /\ \A u \in Ups :
            IF u \in Gone THEN \E i \in Slots : storage'[u] = NewStorage(i)
            ELSE IF u \in Doze THEN storage'[u] = Reset(SetActive(storage[u], FALSE))
            ELSE storage'[u] = storage[u]
  BY <1>2, <1>7
<1>11. pending' \in [Ups -> BOOLEAN]
  BY <1>1, <1>2
<1>12. UNCHANGED <<logins, issued, given, phase, mapperId, fixedByte, reqs, answers,
                   reloads>>
  BY <1>2 DEF minVars, histVars
<1> QED
  BY <1>2, <1>5, <1>6, <1>7, <1>8, <1>9, <1>10, <1>11, <1>12

LEMMA GCPlace ==
    ASSUME PlaceInv, GC
    PROVE  PlaceInv'
<1>1. /\ TypeOK /\ TablesMatch /\ Placed /\ LoginsPlace /\ Awake /\ SessionJobs
      /\ NobodyWaitsOnActive
  BY DEF PlaceInv
<1>2. /\ num' \in 1 .. num /\ num \in 1 .. MaxUps
      /\ \A u \in Gone : u \in Ups /\ u # 0 /\ IsSuspended(u)
      /\ UNCHANGED <<logins, issued, given, phase, mapperId, fixedByte, reqs, answers,
                     reloads>>
  BY <1>1, GCFacts DEF TypeOK
<1>l. Live' = Live /\ mapperId' = mapperId /\ fixedByte' = fixedByte /\ phase' = phase
  BY <1>2 DEF Live
(* The tables, seen from one upstream: emptied only where nobody was.      *)
<1>3. ASSUME NEW u \in Ups
      PROVE  /\ storage'[u] \in Storage
             /\ storage'[u].miners = storage[u].miners
             /\ \/ storage'[u] = storage[u] /\ u \notin Gone /\ u \notin Doze
                \/ /\ ~storage'[u].active /\ storage[u].miners = {}
                   /\ \A i \in Slots : storage'[u].used[i] = 0
  <2>1. storage[u] \in Storage
    BY <1>1, StorageFacts
  <2>2. CASE u \in Gone
    <3>1. PICK i \in Slots : storage'[u] = NewStorage(i)
      BY <2>2, GCFacts
    <3>2. storage[u].miners = {}
      BY <2>2, <1>1, <1>2, AsleepUnused, UnusedHasNoMiner
    <3>3. /\ storage'[u].miners = {} /\ storage'[u].active = FALSE
          /\ \A k \in Slots : storage'[u].used[k] = 0
      BY <3>1 DEF NewStorage
    <3> QED
      BY <3>1, <3>2, <3>3, NewStorageType
  <2>3. CASE u \notin Gone /\ u \in Doze
    <3> DEFINE a == SetActive(storage[u], FALSE)
               t == Reset(a)
    <3>1. storage[u].miners = {}
      BY <2>3, <1>1, UnusedHasNoMiner DEF Doze, Dozes
    <3>2. a \in Storage /\ a.miners = storage[u].miners /\ a.active = FALSE
      BY <2>1, SetActiveType, SetActiveFields
    <3> HIDE DEF a
    <3>3. /\ t \in Storage /\ t.miners = a.miners /\ t.active = a.active
          /\ t.used = [k \in Slots |-> 0]
      <4>1. t \in Storage
        BY <3>2, ResetType
      <4> QED
        BY <4>1, <3>2, ResetFields
    <3>4. storage'[u] = t
      BY <2>3, GCFacts DEF a
    <3> HIDE DEF t
    <3> QED
      BY <3>1, <3>2, <3>3, <3>4
  <2>4. CASE u \notin Gone /\ u \notin Doze
    <3>1. storage'[u] = storage[u]
      BY <2>4, GCFacts
    <3> QED
      BY <2>1, <2>4, <3>1
  <2> QED
    BY <2>2, <2>3, <2>4
<1>4. TypeOK'
  <2>1. storage' \in [Ups -> Storage]
    <3>1. storage' = [u \in Ups |-> storage'[u]]
      BY GCFacts
    <3> QED
      BY <3>1, <1>3
  <2>2. num' \in 1 .. MaxUps
    BY <1>2
  <2>3. /\ results' \in [Ups -> SUBSET [key : Seqs \union {Failed}, seq : Seqs,
                                        miner : MinerIds]]
        /\ inflight' \in [Ups -> SUBSET Seqs]
    BY <1>1, GCFacts, ZenonT(60) DEF TypeOK
  <2>4. /\ suspended' \in [Ups -> 0 .. 2] /\ pending' \in [Ups -> BOOLEAN]
        /\ link' \in [Ups -> {"idle", "trying", "up"}]
    BY GCFacts
  <2> QED
    BY <2>1, <2>2, <2>3, <2>4, <1>1, <1>2 DEF TypeOK
<1>5. TablesMatch'
  <2> SUFFICES ASSUME NEW u \in Ups
               PROVE  /\ \A n \in storage'[u].miners :
                           /\ n \in Live /\ mapperId[n] = u /\ fixedByte[n] \in Slots
                           /\ storage'[u].used[fixedByte[n]] = n
                      /\ \A k \in Slots : storage'[u].used[k] > 0 =>
                           /\ storage'[u].used[k] \in storage'[u].miners
                           /\ fixedByte[storage'[u].used[k]] = k
    BY <1>l DEF TablesMatch
  <2> QED
    BY <1>1, <1>3 DEF TablesMatch
<1>6. Placed'
  <2> SUFFICES ASSUME NEW n \in Live, mapperId[n] # NoMapper
               PROVE  /\ mapperId[n] \in Existing' /\ ~IsSuspended(mapperId[n])'
                      /\ n \in storage'[mapperId[n]].miners
    BY <1>l DEF Placed, IsSuspended
  <2> DEFINE v == mapperId[n]
  <2>1. /\ v \in Existing /\ v \in Ups /\ ~IsSuspended(v) /\ n \in storage[v].miners
    BY <1>1 DEF Placed, TypeOK, Live
  <2>2. v \notin Gone /\ v \notin Doze
    BY <2>1, <1>3
  <2>3. v \in Existing' /\ ~IsSuspended(v)'
    BY <2>1, <2>2, GCFacts DEF Gone
  <2> QED
    BY <2>1, <2>3, <1>3
<1>7. LoginsPlace'
  BY <1>1, <1>l DEF LoginsPlace
<1>8. Awake'
  <2>1. \A u \in Ups : u \notin Doze /\ suspended[u] = 0 => suspended'[u] = 0
    <3> SUFFICES ASSUME NEW u \in Ups, u \notin Doze, suspended[u] = 0
                 PROVE  suspended'[u] = 0
      OBVIOUS
    <3>1. suspended' \in [Ups -> 0 .. 2]
      BY GCFacts
    <3>2. u \notin Gone => ~(suspended'[u] > 0)
      BY GCFacts DEF IsSuspended
    <3>3. u \in Gone => suspended'[u] = 0
      BY GCFacts
    <3> QED
      BY <3>1, <3>2, <3>3
  <2>2. suspended'[0] = 0
    <3>1. 0 \in Ups /\ 0 \notin Doze
      BY DEF Doze, Dozes, Ups
    <3> QED
      BY <2>1, <3>1, <1>1 DEF Awake
  <2>3. ASSUME NEW u \in Ups, u \notin Existing'
        PROVE  suspended'[u] = 0
    <3>1. CASE u \in Existing
      BY <2>3, <3>1, GCFacts DEF Gone
    <3>2. CASE u \notin Existing
      BY <2>1, <3>2, <1>1 DEF Awake, Doze
    <3> QED
      BY <3>1, <3>2
  <2> QED
    BY <2>2, <2>3 DEF Awake
<1>9. SessionJobs'
  <2> SUFFICES ASSUME NEW u \in Ups
               PROVE  /\ link'[u] = "up" => logins[u] >= 1
                      /\ storage'[u].active =>
                           /\ storage'[u].job.clientId = logins[u]
                           /\ storage'[u].prevJob # NoJob =>
                                storage'[u].prevJob.clientId = logins[u]
    BY <1>2 DEF SessionJobs
  <2>1. link'[u] = "up" => link[u] = "up"
    BY GCFacts
  <2> QED
    BY <2>1, <1>1, <1>3 DEF SessionJobs
<1>10. NobodyWaitsOnActive'
  <2> SUFFICES ASSUME NEW n \in MinerIds, phase[n] = "wait"
               PROVE  ~storage'[mapperId[n]].active
    BY <1>l DEF NobodyWaitsOnActive
  <2>1. mapperId[n] \in Ups
    BY <1>1 DEF TypeOK, LoginsPlace
  <2> QED
    BY <2>1, <1>1, <1>3 DEF NobodyWaitsOnActive
<1> QED
  BY <1>4, <1>5, <1>6, <1>7, <1>8, <1>9, <1>10 DEF PlaceInv

(* What only touches requests, contexts or pending strategies leaves the   *)
(* miners where they are.                                                  *)
LEMMA ElsewherePlace ==
    ASSUME PlaceInv, TypeOK',
           UNCHANGED <<num, storage, suspended, link, logins, phase, mapperId, fixedByte>>
    PROVE  PlaceInv'
<1>1. Live' = Live /\ Existing' = Existing
  BY DEF Live, Existing
<1>2. TablesMatch' /\ LoginsPlace' /\ NobodyWaitsOnActive'
  BY <1>1 DEF PlaceInv, TablesMatch, LoginsPlace, NobodyWaitsOnActive
<1>3. Placed' /\ Awake' /\ SessionJobs'
  BY <1>1 DEF PlaceInv, Placed, Awake, SessionJobs, IsSuspended
<1> QED
  BY <1>2, <1>3 DEF PlaceInv

(* A reply is counted for one request and one miner only.                  *)
LEMMA ReplyCounts ==
    ASSUME TypeOK, NEW seq \in Seqs, NEW m \in MinerIds
    PROVE  /\ Reply(seq, m) \in [Seqs \X MinerIds -> Nat]
           /\ \A p \in Seqs \X MinerIds :
                Reply(seq, m)[p] \in {answers[p], IF p = <<seq, m>> THEN answers[p] + 1
                                                  ELSE answers[p]}
<1>1. answers \in [Seqs \X MinerIds -> Nat] /\ <<seq, m>> \in Seqs \X MinerIds
  BY DEF TypeOK
<1> QED
  BY <1>1, SMTT(40) DEF Reply

(* The contexts after Put: the new one, and old ones under other keys.     *)
LEMMA PutType ==
    ASSUME NEW R \in SUBSET [key : Seqs \union {Failed}, seq : Seqs, miner : MinerIds],
           NEW key \in Seqs \union {Failed}, NEW seq \in Seqs, NEW m \in MinerIds
    PROVE  Put(R, key, seq, m) \in SUBSET [key : Seqs \union {Failed}, seq : Seqs,
                                           miner : MinerIds]
BY DEF Put

LEMMA SubmitPlace ==
    ASSUME PlaceInv, NEW m \in MinerIds, NEW seq \in Seqs, SubmitRefused(m, seq)
    PROVE  PlaceInv'
<1>1. /\ TypeOK /\ phase[m] \in {"login", "wait", "ready"}
      /\ answers' = Reply(seq, m)
      /\ reqs' = reqs \union {[seq |-> seq, miner |-> m]}
      /\ phase' = [phase EXCEPT ![m] = "closing"] \/ UNCHANGED phase
      /\ UNCHANGED <<upVars, ctxVars, mapperId, fixedByte, reloads>>
  BY DEF PlaceInv, SubmitRefused, Submitted
<1>2. answers' \in [Seqs \X MinerIds -> Nat]
  BY <1>1, ReplyCounts
<1>3. phase' \in [MinerIds -> {"login", "wait", "ready", "closing", "gone"}]
  BY <1>1 DEF TypeOK
<1>4. reqs' \subseteq [seq : Seqs, miner : MinerIds]
  BY <1>1 DEF TypeOK
<1>5. TypeOK'
  BY <1>1, <1>2, <1>3, <1>4 DEF TypeOK, upVars, ctxVars
<1> QED
  BY <1>1, <1>5, ClosingPlace

LEMMA ForwardPlace ==
    ASSUME PlaceInv, NEW m \in MinerIds, NEW seq \in Seqs, NEW j, SubmitForwarded(m, seq, j)
    PROVE  PlaceInv'
<1> DEFINE u == mapperId[m]
<1>1. /\ TypeOK /\ LoginsPlace /\ phase[m] = "ready"
      /\ reqs' = reqs \union {[seq |-> seq, miner |-> m]}
      /\ \/ /\ inflight' = [inflight EXCEPT ![u] = @ \union {seq}]
            /\ results' = [results EXCEPT ![u] = Put(@, seq, seq, m)]
         \/ /\ results' = [results EXCEPT ![u] = Put(@, Failed, seq, m)]
            /\ UNCHANGED inflight
      /\ UNCHANGED <<upVars, minVars, reloads, answers>>
  BY DEF PlaceInv, SubmitForwarded, Submitted
<1>2. u \in Ups
  BY <1>1 DEF TypeOK, LoginsPlace
<1>3. /\ results[u] \in SUBSET [key : Seqs \union {Failed}, seq : Seqs, miner : MinerIds]
      /\ results \in [Ups -> SUBSET [key : Seqs \union {Failed}, seq : Seqs,
                                     miner : MinerIds]]
      /\ inflight \in [Ups -> SUBSET Seqs]
  BY <1>1, <1>2 DEF TypeOK
<1> HIDE DEF u
<1>4. /\ results' \in [Ups -> SUBSET [key : Seqs \union {Failed}, seq : Seqs,
                                      miner : MinerIds]]
      /\ inflight' \in [Ups -> SUBSET Seqs]
  BY <1>1, <1>2, <1>3, PutType
<1>5. reqs' \subseteq [seq : Seqs, miner : MinerIds]
  BY <1>1 DEF TypeOK
<1>6. TypeOK'
  BY <1>1, <1>4, <1>5 DEF TypeOK, upVars, minVars
<1> QED
  BY <1>1, <1>6, ElsewherePlace DEF upVars, minVars

LEMMA PoolAnswerPlace ==
    ASSUME PlaceInv, NEW u \in Ups, NEW seq \in Seqs, PoolAnswer(u, seq)
    PROVE  PlaceInv'
<1> DEFINE C == SubmitCtx(u, seq)
           c == CHOOSE c \in C : TRUE
<1>1. /\ TypeOK
      /\ inflight' = [inflight EXCEPT ![u] = @ \ {seq}]
      /\ results' = [results EXCEPT ![u] = {d \in @ : d.key # seq}]
      /\ answers' = IF C = {} THEN answers ELSE Reply(c.seq, c.miner)
      /\ UNCHANGED <<upVars, minVars, reqs, reloads>>
  BY DEF PlaceInv, PoolAnswer
<1>2. /\ results \in [Ups -> SUBSET [key : Seqs \union {Failed}, seq : Seqs,
                                     miner : MinerIds]]
      /\ inflight \in [Ups -> SUBSET Seqs]
      /\ answers \in [Seqs \X MinerIds -> Nat]
  BY <1>1 DEF TypeOK
<1>3. C # {} => c.seq \in Seqs /\ c.miner \in MinerIds
  <2>1. \A d \in C : d.seq \in Seqs /\ d.miner \in MinerIds
    BY <1>2 DEF SubmitCtx
  <2> HIDE DEF C
  <2>2. C # {} => c \in C
    OBVIOUS
  <2> QED
    BY <2>1, <2>2
<1> HIDE DEF c, C
<1>4. answers' \in [Seqs \X MinerIds -> Nat]
  BY <1>1, <1>2, <1>3, ReplyCounts
<1>5. /\ results' \in [Ups -> SUBSET [key : Seqs \union {Failed}, seq : Seqs,
                                      miner : MinerIds]]
      /\ inflight' \in [Ups -> SUBSET Seqs]
  BY <1>1, <1>2
<1>6. TypeOK'
  BY <1>1, <1>4, <1>5 DEF TypeOK, upVars, minVars
<1> QED
  BY <1>1, <1>6, ElsewherePlace DEF upVars, minVars

LEMMA NextPlace ==
    ASSUME PlaceInv, [Next]_vars
    PROVE  PlaceInv'
<1>0. TypeOK
  BY DEF PlaceInv
<1>1. ASSUME NEW m \in MinerIds, Shutdown(m) PROVE PlaceInv'
  <2>1. TypeOK'
    BY <1>0, <1>1 DEF Shutdown, TypeOK, upVars, ctxVars, histVars
  <2> QED
    BY <1>1, <2>1, ClosingPlace DEF Shutdown
<1>2. ASSUME Reload PROVE PlaceInv'
  <2>1. TypeOK'
    BY <1>0, <1>2 DEF Reload, TypeOK, ctxVars, minVars, histVars
  <2> QED
    BY <1>2, <2>1, ElsewherePlace DEF Reload, minVars
<1>3. CASE UNCHANGED vars
  <2>1. TypeOK'
    BY <1>0, <1>3 DEF vars, TypeOK, upVars, ctxVars, minVars, histVars
  <2> QED
    BY <1>3, <2>1, ElsewherePlace DEF vars, upVars, minVars
<1>4. CASE MinerStep
  BY <1>1, <1>4, LoginPlace, ClosedPlace, SubmitPlace, ForwardPlace DEF MinerStep
<1>5. CASE PoolStep
  BY <1>5, NewSessionPlace, LinkJobPlace, LinkDownPlace, PoolAnswerPlace DEF PoolStep
<1> QED
  BY <1>2, <1>3, <1>4, <1>5, GCPlace DEF Next

THEOREM PlaceInvariant == Spec => []PlaceInv
BY InitPlace, NextPlace, PTL DEF Spec

(* Every variable keeps its type: in particular no mapper, slot or byte    *)
(* outside the tables is ever written, whatever the pools and miners do.   *)
THEOREM SplitterTypeCorrect == Spec => []TypeOK
BY PlaceInvariant, PTL DEF PlaceInv

(* gc never takes an upstream away from under a connected miner, and a     *)
(* miner's byte always names its own slot.                                 *)
THEOREM MinersKeepTheirPlace == Spec => []MinersPlaced
<1>1. PlaceInv => MinersPlaced
  <2> SUFFICES ASSUME PlaceInv
               PROVE  MinersPlaced
    OBVIOUS
  <2>1. TypeOK /\ TablesMatch /\ Placed
    BY DEF PlaceInv
  <2>2. \A u \in Ups : \A m \in storage[u].miners : m \in Live /\ mapperId[m] = u
    BY <2>1 DEF TablesMatch
  <2>3. ASSUME NEW m \in Live, mapperId[m] # NoMapper
        PROVE  /\ mapperId[m] \in Existing /\ ~IsSuspended(mapperId[m])
               /\ storage[mapperId[m]].used[fixedByte[m]] = m
    <3>1. /\ mapperId[m] \in Existing /\ ~IsSuspended(mapperId[m])
          /\ m \in storage[mapperId[m]].miners /\ mapperId[m] \in Ups
      BY <2>1, <2>3 DEF Placed, TypeOK, Live
    <3> QED
      BY <3>1, <2>1 DEF TablesMatch
  <2> QED
    BY <2>2, <2>3 DEF MinersPlaced
<1> QED
  BY <1>1, PlaceInvariant, PTL

(* A miner never waits for a job on an upstream that has one.              *)
THEOREM NobodyForgotten == Spec => []NobodyWaitsOnActive
BY PlaceInvariant, PTL DEF PlaceInv

(* Shares are accepted only for jobs of the session they will be sent to.  *)
THEOREM SharesOfTheSession == Spec => []SharesMatchSession
<1>1. PlaceInv => SharesMatchSession
  <2> SUFFICES ASSUME PlaceInv
               PROVE  SharesMatchSession
    OBVIOUS
  <2>1. Existing \subseteq Ups
    BY DEF PlaceInv, TypeOK, Existing, Ups
  <2> QED
    BY <2>1 DEF PlaceInv, SessionJobs, SharesMatchSession
<1> QED
  BY <1>1, PlaceInvariant, PTL

-----------------------------------------------------------------------------
LEMMA InitAnswers == Init => AnswerInv
<1> SUFFICES ASSUME Init
             PROVE  AnswerInv
  OBVIOUS
<1>1. /\ reqs = {} /\ \A u \in Ups : inflight[u] = {} /\ results[u] = {}
      /\ \A p \in Seqs \X MinerIds : answers[p] = 0
  BY DEF Init
<1> QED
  BY <1>1, FS_EmptySet DEF AnswerInv, Numbered, Unanswered, Filed, Attributed,
     AnsweredOnceToSender

(* A request gets the next number, which no earlier one and no answer has. *)
LEMMA FreshNumber ==
    ASSUME TypeOK, AnswerInv, NEW m \in MinerIds, NEW seq \in Seqs, Submitted(m, seq)
    PROVE  /\ Numbered' /\ Cardinality(reqs) \in Nat
           /\ Cardinality(reqs') = Cardinality(reqs) + 1
           /\ seq = Cardinality(reqs) + 1
           /\ \A n \in MinerIds : answers[<<seq, n>>] = 0
           /\ \A u \in Ups : seq \notin inflight[u]
           /\ reqs \subseteq reqs' /\ [seq |-> seq, miner |-> m] \in reqs'
<1> DEFINE r == [seq |-> seq, miner |-> m]
<1>1. /\ IsFiniteSet(reqs) /\ \A q \in reqs : q.seq \in Int /\ q.seq <= Cardinality(reqs)
      /\ reqs' = reqs \union {r} /\ seq = Cardinality(reqs) + 1 /\ r.seq = seq
  BY DEF AnswerInv, Numbered, Submitted, TypeOK, Seqs
<1> HIDE DEF r
<1>2. Cardinality(reqs) \in Nat
  BY <1>1, FS_CardinalityType
<1>3. r \notin reqs
  BY <1>1, <1>2
<1>4. IsFiniteSet(reqs') /\ Cardinality(reqs') = Cardinality(reqs) + 1
  BY <1>1, <1>3, FS_AddElement
<1>5. Numbered'
  <2> DEFINE k == Cardinality(reqs')
  <2>1. k = Cardinality(reqs) + 1
    BY <1>4
  <2> HIDE DEF k
  <2>2. \A q \in reqs' : q.seq <= k
    BY <2>1, <1>1, <1>2
  <2> QED
    BY <2>2, <1>4 DEF Numbered, k
<1>6. ASSUME NEW n \in MinerIds
      PROVE  answers[<<seq, n>>] = 0
  <2>1. answers[<<seq, n>>] \in Nat
    BY DEF TypeOK
  <2>2. [seq |-> seq, miner |-> n] \notin reqs
    BY <1>1, <1>2
  <2> QED
    BY <2>1, <2>2 DEF AnswerInv, AnsweredOnceToSender
<1>7. ASSUME NEW u \in Ups
      PROVE  seq \notin inflight[u]
  BY <1>1, <1>2 DEF AnswerInv, Unanswered
<1> QED
  BY <1>1, <1>2, <1>4, <1>5, <1>6, <1>7 DEF r

(* Lost connections and deleted mappers forget requests; the context of a  *)
(* request is forgotten only together with the request.                    *)
LEMMA ForgetAnswers ==
    ASSUME AnswerInv, UNCHANGED <<reqs, answers>>,
           \A u \in Ups : inflight'[u] \in {inflight[u], {}},
           \A u \in Ups : results'[u] \subseteq results[u],
           \A u \in Ups : inflight'[u] # {} => results'[u] = results[u]
    PROVE  AnswerInv'
<1>1. Numbered' /\ AnsweredOnceToSender'
  BY DEF AnswerInv, Numbered, AnsweredOnceToSender
<1>2. \A u \in Ups : inflight'[u] \subseteq inflight[u]
  OBVIOUS
<1>3. Unanswered'
  BY <1>2, ZenonT(60) DEF AnswerInv, Unanswered
<1>4. Filed' /\ Attributed'
  BY <1>2 DEF AnswerInv, Filed, Attributed
<1> QED
  BY <1>1, <1>3, <1>4 DEF AnswerInv

LEMMA RefusedAnswers ==
    ASSUME TypeOK, AnswerInv, NEW m \in MinerIds, NEW seq \in Seqs, SubmitRefused(m, seq)
    PROVE  AnswerInv'
<1>1. /\ Submitted(m, seq) /\ answers' = Reply(seq, m)
      /\ results' = results /\ inflight' = inflight
  BY DEF SubmitRefused, ctxVars
<1>2. /\ Numbered' /\ Cardinality(reqs) \in Nat
      /\ Cardinality(reqs') = Cardinality(reqs) + 1
      /\ \A n \in MinerIds : answers[<<seq, n>>] = 0
      /\ \A u \in Ups : seq \notin inflight[u]
      /\ reqs \subseteq reqs' /\ [seq |-> seq, miner |-> m] \in reqs'
  BY <1>1, FreshNumber
<1>3. \A p \in Seqs \X MinerIds : p # <<seq, m>> => answers'[p] = answers[p]
  BY <1>1, ReplyCounts
<1>4. answers'[<<seq, m>>] \in {0, 1}
  <2>1. <<seq, m>> \in Seqs \X MinerIds /\ answers[<<seq, m>>] = 0
    BY <1>2
  <2> QED
    BY <2>1, <1>1, ReplyCounts
<1>5. inflight \in [Ups -> SUBSET Seqs]
  BY DEF TypeOK
<1>6. Unanswered'
  <2> SUFFICES ASSUME NEW u \in Ups, NEW q \in inflight[u]
               PROVE  /\ q <= Cardinality(reqs')
                      /\ \A n \in MinerIds : answers'[<<q, n>>] = 0
                      /\ \A v \in Ups : q \in inflight[v] => v = u
    BY <1>1 DEF Unanswered
  <2>1. /\ q \in Seqs /\ q \in Int /\ q # seq /\ q <= Cardinality(reqs)
        /\ \A n \in MinerIds : answers[<<q, n>>] = 0
        /\ \A v \in Ups : q \in inflight[v] => v = u
    BY <1>2, <1>5 DEF AnswerInv, Unanswered, Seqs
  <2>2. \A n \in MinerIds : <<q, n>> \in Seqs \X MinerIds /\ <<q, n>> # <<seq, m>>
    BY <2>1
  <2> QED
    BY <2>1, <2>2, <1>2, <1>3
<1>7. Filed' /\ Attributed'
  BY <1>1, <1>2 DEF AnswerInv, Filed, Attributed
<1>8. AnsweredOnceToSender'
  <2> SUFFICES ASSUME NEW q \in Seqs, NEW n \in MinerIds
               PROVE  /\ answers'[<<q, n>>] <= 1
                      /\ answers'[<<q, n>>] > 0 => [seq |-> q, miner |-> n] \in reqs'
    BY DEF AnsweredOnceToSender
  <2>1. CASE <<q, n>> = <<seq, m>>
    BY <2>1, <1>2, <1>4
  <2>2. CASE <<q, n>> # <<seq, m>>
    BY <2>2, <1>2, <1>3 DEF AnswerInv, AnsweredOnceToSender
  <2> QED
    BY <2>1, <2>2
<1> QED
  BY <1>2, <1>6, <1>7, <1>8 DEF AnswerInv

(* submit() files the request under the sequence the strategy returned, or *)
(* under -1, where it disturbs no other.                                   *)
LEMMA ForwardAnswers ==
    ASSUME PlaceInv, AnswerInv, NEW m \in MinerIds, NEW seq \in Seqs, NEW j,
           SubmitForwarded(m, seq, j)
    PROVE  AnswerInv'
<1> DEFINE u == mapperId[m]
           r == [seq |-> seq, miner |-> m]
<1>1. /\ TypeOK /\ LoginsPlace /\ Submitted(m, seq) /\ answers' = answers
      /\ \/ /\ inflight' = [inflight EXCEPT ![u] = @ \union {seq}]
            /\ results' = [results EXCEPT ![u] = Put(@, seq, seq, m)]
         \/ /\ results' = [results EXCEPT ![u] = Put(@, Failed, seq, m)]
            /\ UNCHANGED inflight
  BY DEF PlaceInv, SubmitForwarded
<1>2. u \in Ups
  BY <1>1 DEF TypeOK, LoginsPlace, Submitted
<1> HIDE DEF u
<1>3. /\ Numbered' /\ Cardinality(reqs) \in Nat
      /\ Cardinality(reqs') = Cardinality(reqs) + 1 /\ seq = Cardinality(reqs) + 1
      /\ \A n \in MinerIds : answers[<<seq, n>>] = 0
      /\ \A v \in Ups : seq \notin inflight[v]
      /\ reqs \subseteq reqs' /\ r \in reqs'
  BY <1>1, FreshNumber
<1>4. /\ inflight \in [Ups -> SUBSET Seqs] /\ DOMAIN results = Ups
      /\ \A q \in Seqs : q # Failed
  BY <1>1 DEF TypeOK, Seqs, Failed
<1>5. \A v \in Ups : inflight'[v] \subseteq inflight[v] \union {seq}
  BY <1>1, <1>2, <1>4
<1>6. \A v \in Ups : v # u => inflight'[v] = inflight[v] /\ results'[v] = results[v]
  BY <1>1, <1>2, <1>4
<1>7. Unanswered'
  <2> SUFFICES ASSUME NEW v \in Ups, NEW q \in inflight'[v]
               PROVE  /\ q <= Cardinality(reqs')
                      /\ \A n \in MinerIds : answers[<<q, n>>] = 0
                      /\ \A w \in Ups : q \in inflight'[w] => w = v
    BY <1>1 DEF Unanswered
  <2>1. CASE q = seq
    <3>1. \A w \in Ups : seq \in inflight'[w] => w = u
      BY <1>3, <1>6
    <3> QED
      BY <2>1, <3>1, <1>3
  <2>2. CASE q # seq
    <3>1. q \in inflight[v] /\ q \in Int
      BY <2>2, <1>4, <1>5 DEF Seqs
    <3>2. \A w \in Ups : q \in inflight'[w] => q \in inflight[w]
      BY <2>2, <1>5
    <3> QED
      BY <3>1, <3>2, <1>3 DEF AnswerInv, Unanswered
  <2> QED
    BY <2>1, <2>2
<1>8. Filed'
  <2> SUFFICES ASSUME NEW v \in Ups, NEW c \in results'[v], c.key # Failed
               PROVE  c.key = c.seq /\ [seq |-> c.seq, miner |-> c.miner] \in reqs'
    BY DEF Filed
  <2>1. CASE c \in results[v]
    BY <2>1, <1>3 DEF AnswerInv, Filed
  <2>2. CASE c \notin results[v]
    <3>1. c \in {[key |-> seq, seq |-> seq, miner |-> m],
                 [key |-> Failed, seq |-> seq, miner |-> m]}
      BY <2>2, <1>1, <1>2, <1>4, <1>6 DEF Put
    <3> QED
      BY <3>1, <1>3
  <2> QED
    BY <2>1, <2>2
<1>9. Attributed'
  <2> SUFFICES ASSUME NEW v \in Ups, NEW q \in inflight'[v]
               PROVE  \E c \in results'[v] : c.key = q
    BY DEF Attributed
  <2>1. CASE q = seq
    <3>1. v = u /\ results' = [results EXCEPT ![u] = Put(@, seq, seq, m)]
      BY <2>1, <1>1, <1>3, <1>6
    <3>2. [key |-> seq, seq |-> seq, miner |-> m] \in results'[u]
      BY <3>1, <1>2, <1>4 DEF Put
    <3> QED
      BY <2>1, <3>1, <3>2
  <2>2. CASE q # seq
    <3>1. q \in inflight[v] /\ q # Failed
      BY <2>2, <1>4, <1>5
    <3>2. PICK c \in results[v] : c.key = q
      BY <3>1 DEF AnswerInv, Attributed
    <3>3. c \in results'[v]
      BY <2>2, <3>1, <3>2, <1>1, <1>2, <1>4, <1>6 DEF Put
    <3> QED
      BY <3>2, <3>3
  <2> QED
    BY <2>1, <2>2
<1>10. AnsweredOnceToSender'
  BY <1>1, <1>3 DEF AnswerInv, AnsweredOnceToSender
<1> QED
  BY <1>3, <1>7, <1>8, <1>9, <1>10 DEF AnswerInv

(* An answer is counted for the request its context names, which is the    *)
(* one that was sent, and the context goes with it.                        *)
LEMMA PoolAnswerAnswers ==
    ASSUME TypeOK, AnswerInv, NEW u \in Ups, NEW seq \in Seqs, PoolAnswer(u, seq)
    PROVE  AnswerInv'
<1> DEFINE C == SubmitCtx(u, seq)
           c == CHOOSE c \in C : TRUE
<1>1. /\ seq \in inflight[u]
      /\ inflight' = [inflight EXCEPT ![u] = @ \ {seq}]
      /\ results' = [results EXCEPT ![u] = {d \in @ : d.key # seq}]
      /\ answers' = IF C = {} THEN answers ELSE Reply(c.seq, c.miner)
      /\ reqs' = reqs
  BY DEF PoolAnswer
<1>2. /\ results \in [Ups -> SUBSET [key : Seqs \union {Failed}, seq : Seqs,
                                     miner : MinerIds]]
      /\ inflight \in [Ups -> SUBSET Seqs]
      /\ answers \in [Seqs \X MinerIds -> Nat]
  BY DEF TypeOK
<1>3. C # {} => c.seq = seq /\ c.miner \in MinerIds
                /\ [seq |-> seq, miner |-> c.miner] \in reqs
  <2>1. \A d \in C : d.seq = seq /\ d.miner \in MinerIds
                     /\ [seq |-> seq, miner |-> d.miner] \in reqs
    <3> SUFFICES ASSUME NEW d \in C
                 PROVE  d.seq = seq /\ d.miner \in MinerIds
                        /\ [seq |-> seq, miner |-> d.miner] \in reqs
      OBVIOUS
    <3>1. d \in results[u] /\ d.key = seq /\ d.miner \in MinerIds
      BY <1>2 DEF SubmitCtx
    <3>2. d.key # Failed
      BY <3>1 DEF Seqs, Failed
    <3> QED
      BY <3>1, <3>2 DEF AnswerInv, Filed
  <2> HIDE DEF C
  <2>2. C # {} => c \in C
    OBVIOUS
  <2> QED
    BY <2>1, <2>2
<1> HIDE DEF c, C
<1>4. \A n \in MinerIds : answers[<<seq, n>>] = 0
  BY <1>1 DEF AnswerInv, Unanswered
<1>5. \A p \in Seqs \X MinerIds : answers'[p] # answers[p] =>
        /\ p[1] = seq /\ answers'[p] = 1
        /\ [seq |-> seq, miner |-> p[2]] \in reqs
  <2>1. CASE C = {}
    BY <2>1, <1>1
  <2>2. CASE C # {}
    <3> SUFFICES ASSUME NEW p \in Seqs \X MinerIds, answers'[p] # answers[p]
                 PROVE  /\ p[1] = seq /\ answers'[p] = 1
                        /\ [seq |-> seq, miner |-> p[2]] \in reqs
      OBVIOUS
    <3>1. answers' = Reply(seq, c.miner)
      BY <2>2, <1>1, <1>3
    <3>2. p = <<seq, c.miner>> /\ answers'[p] = answers[p] + 1
      BY <2>2, <3>1, <1>3, ReplyCounts
    <3> QED
      BY <2>2, <3>2, <1>3, <1>4
  <2> QED
    BY <2>1, <2>2
<1>6. \A v \in Ups : inflight'[v] \subseteq inflight[v]
  BY <1>1, <1>2
<1>7. \A v \in Ups : seq \notin inflight'[v]
  BY <1>1, <1>2 DEF AnswerInv, Unanswered
<1>8. Numbered'
  BY <1>1 DEF AnswerInv, Numbered
<1>9. Unanswered'
  <2> SUFFICES ASSUME NEW v \in Ups, NEW q \in inflight'[v]
               PROVE  /\ q <= Cardinality(reqs)
                      /\ \A n \in MinerIds : answers'[<<q, n>>] = 0
                      /\ \A w \in Ups : q \in inflight'[w] => w = v
    BY <1>1 DEF Unanswered
  <2>1. q \in inflight[v] /\ q # seq /\ q \in Seqs
    BY <1>2, <1>6, <1>7
  <2>2. \A n \in MinerIds : answers'[<<q, n>>] = answers[<<q, n>>]
    <3> SUFFICES ASSUME NEW n \in MinerIds
                 PROVE  answers'[<<q, n>>] = answers[<<q, n>>]
      OBVIOUS
    <3> DEFINE p == <<q, n>>
    <3>1. p \in Seqs \X MinerIds /\ p[1] # seq
      BY <2>1
    <3> HIDE DEF p
    <3>2. answers'[p] = answers[p]
      BY <3>1, <1>5
    <3> QED
      BY <3>2 DEF p
  <2> QED
    BY <2>1, <2>2, <1>6 DEF AnswerInv, Unanswered
<1>10. Filed'
  BY <1>1, <1>2 DEF AnswerInv, Filed
<1>11. Attributed'
  <2> SUFFICES ASSUME NEW v \in Ups, NEW q \in inflight'[v]
               PROVE  \E d \in results'[v] : d.key = q
    BY DEF Attributed
  <2>1. PICK d \in results[v] : d.key = q
    BY <1>6 DEF AnswerInv, Attributed
  <2>2. q # seq
    BY <1>7
  <2> QED
    BY <2>1, <2>2, <1>1, <1>2
<1>12. AnsweredOnceToSender'
  <2> SUFFICES ASSUME NEW q \in Seqs, NEW n \in MinerIds
               PROVE  /\ answers'[<<q, n>>] <= 1
                      /\ answers'[<<q, n>>] > 0 => [seq |-> q, miner |-> n] \in reqs
    BY <1>1 DEF AnsweredOnceToSender
  <2>1. CASE answers'[<<q, n>>] = answers[<<q, n>>]
    BY <2>1 DEF AnswerInv, AnsweredOnceToSender
  <2>2. CASE answers'[<<q, n>>] # answers[<<q, n>>]
    <3> DEFINE p == <<q, n>>
    <3>1. p \in Seqs \X MinerIds /\ p[1] = q /\ p[2] = n /\ answers'[p] # answers[p]
      BY <2>2
    <3> HIDE DEF p
    <3>2. q = seq /\ answers'[p] = 1 /\ [seq |-> seq, miner |-> n] \in reqs
      BY <3>1, <1>5
    <3> QED
      BY <3>2 DEF p
  <2> QED
    BY <2>1, <2>2
<1> QED
  BY <1>8, <1>9, <1>10, <1>11, <1>12 DEF AnswerInv

LEMMA NextAnswers ==
    ASSUME PlaceInv, AnswerInv, [Next]_vars
    PROVE  AnswerInv'
<1>0. TypeOK /\ inflight \in [Ups -> SUBSET Seqs] /\ DOMAIN results = Ups
  BY DEF PlaceInv, TypeOK
<1>1. CASE UNCHANGED <<reqs, answers, results, inflight>>
  BY <1>1, ForgetAnswers
<1>2. ASSUME NEW u \in Ups, inflight' = [inflight EXCEPT ![u] = {}],
             UNCHANGED <<reqs, answers, results>>
      PROVE  AnswerInv'
  <2>1. \A v \in Ups : inflight'[v] \in {inflight[v], {}}
    BY <1>0, <1>2
  <2> QED
    BY <2>1, <1>2, ForgetAnswers
<1>3. CASE GC
  <2>1. /\ results' = [u \in Ups |-> IF u \in Gone THEN {} ELSE results[u]]
        /\ inflight' = [u \in Ups |-> IF u \in Gone \/ u \in Doze
                                      THEN {} ELSE inflight[u]]
        /\ UNCHANGED <<reqs, answers>>
    BY <1>3, GCFacts
  <2> QED
    BY <2>1, ForgetAnswers
<1>4. CASE MinerStep
  <2>1. ASSUME NEW m \in MinerIds, Login(m) \/ Shutdown(m) \/ Closed(m) PROVE AnswerInv'
    BY <1>1, <2>1 DEF Login, LoginReuse, LoginConnect, Shutdown, Closed, ctxVars, histVars
  <2> QED
    BY <2>1, <1>0, <1>4, RefusedAnswers, ForwardAnswers DEF MinerStep
<1>5. CASE PoolStep
  <2>1. ASSUME NEW u \in Ups, LinkUp(u) \/ PendingUp(u) \/ LinkJob(u) \/ LinkDown(u)
        PROVE  AnswerInv'
    BY <1>1, <1>2, <2>1 DEF LinkUp, PendingUp, LinkJob, LinkDown, NewSession, ReceiveJob,
       ctxVars, histVars
  <2> QED
    BY <2>1, <1>0, <1>5, PoolAnswerAnswers DEF PoolStep
<1> QED
  BY <1>1, <1>3, <1>4, <1>5 DEF Next, Reload, vars, ctxVars, histVars

THEOREM AnswersInvariant == Spec => []AnswerInv
<1>1. Init => PlaceInv /\ AnswerInv
  BY InitPlace, InitAnswers
<1>2. PlaceInv /\ AnswerInv /\ [Next]_vars => (PlaceInv /\ AnswerInv)'
  BY NextPlace, NextAnswers
<1> QED
  BY <1>1, <1>2, PTL DEF Spec

(* A request is answered at most once, and only to the miner that sent it, *)
(* whatever reconnects, departures and gc come between.                    *)
THEOREM NoStrayAnswer == Spec => []AnsweredOnceToSender
BY AnswersInvariant, PTL DEF AnswerInv

(* Whatever answer the pool still owes can be matched to its request.      *)
THEOREM AnswersFindTheirRequest == Spec => []AnswersAttributed
<1>1. PlaceInv /\ AnswerInv => AnswersAttributed
  <2> SUFFICES ASSUME PlaceInv, AnswerInv, NEW u \in Existing, NEW seq \in inflight[u]
               PROVE  \E c \in results[u] : /\ c.key = seq
                                            /\ [seq |-> seq, miner |-> c.miner] \in reqs
    BY DEF AnswersAttributed
  <2>1. u \in Ups /\ seq \in Seqs
    <3>1. u \in Ups
      BY DEF PlaceInv, TypeOK, Existing, Ups
    <3> QED
      BY <3>1 DEF PlaceInv, TypeOK
  <2>2. PICK c \in results[u] : c.key = seq
    BY <2>1 DEF AnswerInv, Attributed
  <2>3. c.key # Failed
    BY <2>1, <2>2 DEF Seqs, Failed
  <2> QED
    BY <2>1, <2>2, <2>3 DEF AnswerInv, Filed
<1> QED
  BY <1>1, PlaceInvariant, AnswersInvariant, PTL

-----------------------------------------------------------------------------
(* Every upstream runs its storage as NonceStorageSpec says: the actions   *)
(* of the splitter are, for one upstream, actions of the storage or steps  *)
(* it does not notice.  The instance has its own copy of the operators.    *)
LEMMA SameOperators ==
    ASSUME NEW u
    PROVE  /\ Upstream(u)!Slots = Slots
           /\ Upstream(u)!NoByte = NoByte
           /\ \A s, i : Upstream(u)!IsNextIndex(s, i) <=> IsNextIndex(s, i)
           /\ \A s, m, i : Upstream(u)!Add(s, m, i) = Add(s, m, i)
           /\ \A s, m, i : Upstream(u)!Remove(s, m, i) = Remove(s, m, i)
           /\ \A s, b : Upstream(u)!SetActive(s, b) = SetActive(s, b)
           /\ \A s : Upstream(u)!Reset(s) = Reset(s)
           /\ \A s, j : Upstream(u)!SetJob(s, j) = SetJob(s, j)
           /\ \A s : Upstream(u)!Receivers(s) = Receivers(s)
           /\ \A s : Upstream(u)!IsUsed(s) <=> IsUsed(s)
           /\ \A i : Upstream(u)!NewStorage(i) = NewStorage(i)
           /\ \A j, s, R : Upstream(u)!Handed(j, s, R) = Handed(j, s, R)
<1>1. Upstream(u)!Slots = Slots /\ Upstream(u)!NoByte = NoByte
      /\ Upstream(u)!NoJob = NoJob
  BY DEF Upstream!Slots, Slots, Upstream!NoByte, NoByte, Upstream!NoJob, NoJob
<1>2. \A s, i : Upstream(u)!IsNextIndex(s, i) <=> IsNextIndex(s, i)
  BY <1>1 DEF Upstream!IsNextIndex, IsNextIndex, Upstream!ScanPos, ScanPos
<1>3. /\ \A s, m, i : Upstream(u)!Add(s, m, i) = Add(s, m, i)
      /\ \A s, m, i : Upstream(u)!Remove(s, m, i) = Remove(s, m, i)
      /\ \A s, b : Upstream(u)!SetActive(s, b) = SetActive(s, b)
  BY Zenon DEF Upstream!Add, Add, Upstream!Remove, Remove, Upstream!SetActive, SetActive
<1>4. /\ \A s : Upstream(u)!Reset(s) = Reset(s)
      /\ \A i : Upstream(u)!NewStorage(i) = NewStorage(i)
      /\ \A s, j : Upstream(u)!SetJob(s, j) = SetJob(s, j)
  BY <1>1, Zenon DEF Upstream!Reset, Reset, Upstream!NewStorage, NewStorage,
     Upstream!SetJob, SetJob
<1>5. /\ \A s : Upstream(u)!Receivers(s) = Receivers(s)
      /\ \A s : Upstream(u)!IsUsed(s) <=> IsUsed(s)
  BY <1>1 DEF Upstream!Receivers, Receivers, Upstream!IsUsed, IsUsed
<1>6. \A j, s, R : Upstream(u)!Handed(j, s, R) = Handed(j, s, R)
  BY Zenon DEF Upstream!Handed, Handed
<1> QED
  BY <1>1, <1>2, <1>3, <1>4, <1>5, <1>6

LEMMA InitUpstreams == Init => \A u \in Ups : Upstream(u)!Init
<1> SUFFICES ASSUME Init, NEW u \in Ups
             PROVE  Upstream(u)!Init
  OBVIOUS
<1>1. \E i \in Slots : storage[u] = NewStorage(i)
  BY DEF Init
<1>2. /\ ByteOn(u) = [m \in MinerIds |-> NoByte] /\ issued[u] = 0 /\ given[u] = {}
  BY DEF Init, ByteOn
<1> QED
  BY <1>1, <1>2, SameOperators DEF Upstream!Init

LEMMA UnnoticedStep ==
    ASSUME NEW u, UNCHANGED <<storage[u], issued[u], given[u], mapperId, fixedByte>>
    PROVE  UpstreamStep(u)
<1>1. ByteOn(u)' = ByteOn(u)
  BY DEF ByteOn
<1> QED
  BY <1>1 DEF UpstreamStep, Upstream!vars

LEMMA LoginStep ==
    ASSUME TypeOK, LoginsPlace, NEW m \in MinerIds, phase[m] = "login",
           NEW u \in Ups, AddTo(m, u), UNCHANGED issued, NEW v \in Ups
    PROVE  UpstreamStep(v)
<1>1. PICK i \in Slots :
        /\ IsNextIndex(storage[u], i)
        /\ storage' = [storage EXCEPT ![u] = Add(storage[u], m, i)]
        /\ fixedByte' = [fixedByte EXCEPT ![m] = i]
        /\ mapperId' = [mapperId EXCEPT ![m] = u]
        /\ given' = IF Add(storage[u], m, i).active
                    THEN [given EXCEPT ![u] = @ \union
                            Handed(Add(storage[u], m, i).job,
                                   Add(storage[u], m, i), {i})]
                    ELSE given
  BY DEF AddTo
<1>2. /\ storage \in [Ups -> Storage] /\ storage[u] \in Storage /\ DOMAIN given = Ups
      /\ DOMAIN fixedByte = MinerIds /\ DOMAIN mapperId = MinerIds
      /\ mapperId[m] = NoMapper
  BY DEF TypeOK, LoginsPlace
<1>3. mapperId[m] # u /\ mapperId[m] # v
  BY <1>2 DEF Ups, NoMapper
<1>4. CASE v # u
  <2>1. storage'[v] = storage[v] /\ given'[v] = given[v]
    BY <1>1, <1>2, <1>4
  <2>2. ByteOn(v)' = ByteOn(v)
    BY <1>1, <1>2, <1>3, <1>4 DEF ByteOn
  <2> QED
    BY <2>1, <2>2 DEF UpstreamStep, Upstream!vars
<1>5. CASE v = u
  <2> DEFINE s == Add(storage[u], m, i)
  <2>1. s.active = storage[u].active /\ s.job = storage[u].job
    <3>1. storage[u] \in Storage
      BY <1>2
    <3>2. /\ s.active = storage[u].active
          /\ s.job = storage[u].job
          /\ s.prevJob = storage[u].prevJob
          /\ s.miners = storage[u].miners \union {m}
          /\ s.used = [storage[u].used EXCEPT ![i] = m]
      BY ONLY <3>1, AddFields, m \in MinerIds, i \in Slots
    <3> QED
      BY <3>2
  <2>2. storage'[u] = s
    BY <1>1, <1>2
  <2>3. given'[u] = IF storage[u].active
                    THEN given[u] \union Handed(storage[u].job, storage'[u], {i})
                    ELSE given[u]
    <3>1. given' = IF s.active THEN [given EXCEPT ![u] = @ \union Handed(s.job, s, {i})]
                   ELSE given
      BY <1>1
    <3> HIDE DEF s
    <3> QED
      BY <3>1, <2>1, <2>2, <1>2
  <2>4. ByteOn(u)[m] = NoByte /\ ByteOn(u)' = [ByteOn(u) EXCEPT ![m] = i]
    BY <1>1, <1>2, <1>3 DEF ByteOn
  <2>5. /\ Upstream(u)!NoByte = NoByte /\ Upstream(u)!Slots = Slots
        /\ Upstream(u)!IsNextIndex(storage[u], i)
        /\ Upstream(u)!Add(storage[u], m, i) = s
        /\ Upstream(u)!Handed(storage[u].job, storage[u]', {i}) =
             Handed(storage[u].job, storage[u]', {i})
    <3>1. IsNextIndex(storage[u], i)
      BY <1>1
    <3>2. Upstream(u)!IsNextIndex(storage[u], i)
      BY <3>1, SameOperators
    <3>3. Upstream(u)!NoByte = NoByte /\ Upstream(u)!Slots = Slots
      BY SameOperators
    <3>5. Upstream(u)!Add(storage[u], m, i) = s
      BY Zenon DEF Upstream!Add, Add
    <3>4. Upstream(u)!Handed(storage[u].job, storage[u]', {i}) =
            Handed(storage[u].job, storage[u]', {i})
      BY Zenon DEF Upstream!Handed, Handed
    <3> QED
      BY <3>2, <3>3, <3>4, <3>5
  <2>6. Upstream(u)!AddMiner(m)
    <3> HIDE DEF s
    <3> QED
      BY <2>2, <2>3, <2>4, <2>5 DEF Upstream!AddMiner
  <2> QED
    BY <1>5, <2>6 DEF UpstreamStep, Upstream!Next
<1> QED
  BY <1>4, <1>5

LEMMA ClosedStep ==
    ASSUME TypeOK, TablesMatch, Placed, NEW m \in MinerIds, Closed(m), NEW v \in Ups
    PROVE  UpstreamStep(v)
<1>1. /\ UNCHANGED <<issued, given, mapperId, fixedByte>> /\ DOMAIN storage = Ups
      /\ m \in Live
  BY DEF Closed, TypeOK, Live
<1>2. CASE mapperId[m] # v
  BY <1>1, <1>2, UnnoticedStep DEF Closed
<1>3. CASE mapperId[m] = v
  <2>1. m \in storage[v].miners
    <3>1. mapperId[m] # NoMapper
      BY <1>3 DEF Ups, NoMapper
    <3> QED
      BY <1>1, <1>3, <3>1 DEF Placed
  <2>2. storage'[v] = Remove(storage[v], m, fixedByte[m])
    BY <1>1, <1>3 DEF Closed, Ups, NoMapper
  <2>3. ByteOn(v)[m] = fixedByte[m] /\ ByteOn(v)' = ByteOn(v)
    BY <1>1, <1>3 DEF ByteOn
  <2>4. Upstream(v)!RemoveMiner(m)
    BY <1>1, <2>1, <2>2, <2>3, SameOperators, SMTT(40) DEF Upstream!RemoveMiner
  <2> QED
    BY <2>4 DEF UpstreamStep, Upstream!Next
<1> QED
  BY <1>2, <1>3

LEMMA ReceiveStep ==
    ASSUME TypeOK, NEW u \in Ups, NEW c \in Sessions, NEW b \in BOOLEAN,
           ReceiveJob(u, c, b), b = TRUE \/ b = storage[u].active, NEW v \in Ups
    PROVE  UpstreamStep(v)
<1>1. /\ issued[u] < MaxJobs /\ issued' = [issued EXCEPT ![u] = @ + 1]
      /\ UNCHANGED <<mapperId, fixedByte>>
      /\ LET j == [id |-> issued[u] + 1, clientId |-> c]
             s == SetJob(SetActive(storage[u], b), j)
         IN  /\ storage' = [storage EXCEPT ![u] = s]
             /\ given' = [given EXCEPT ![u] = @ \union Handed(j, s, Receivers(s))]
  BY DEF ReceiveJob
<1>2. DOMAIN storage = Ups /\ DOMAIN issued = Ups /\ DOMAIN given = Ups
  BY DEF TypeOK
<1>3. CASE v # u
  BY <1>1, <1>2, <1>3, UnnoticedStep
<1>4. CASE v = u
  <2>1. /\ issued'[u] = issued[u] + 1
        /\ LET j == [id |-> issued[u] + 1, clientId |-> c]
               s == SetJob(SetActive(storage[u], b), j)
           IN  /\ storage'[u] = s
               /\ given'[u] = given[u] \union Handed(j, s, Receivers(s))
    BY <1>1, <1>2
  <2>2. ByteOn(u)' = ByteOn(u)
    BY <1>1 DEF ByteOn
  <2> DEFINE j == [id |-> issued[u] + 1, clientId |-> c]
             a == SetActive(storage[u], b)
             s == SetJob(a, j)
  <2>3. /\ Upstream(u)!SetActive(storage[u], b) = a
        /\ Upstream(u)!SetJob(a, j) = s
        /\ Upstream(u)!Receivers(s) = Receivers(s)
        /\ Upstream(u)!Handed(j, s, Receivers(s)) = Handed(j, s, Receivers(s))
    BY SameOperators, SMTT(40)
  <2>4. /\ storage[u]' = s /\ issued[u] < MaxJobs /\ issued[u]' = issued[u] + 1
        /\ given[u]' = given[u] \union Handed(j, s, Receivers(s))
    BY <1>1, <2>1
  <2>5. Upstream(u)!Receive(c, b)
    <3> HIDE DEF a, s
    <3>1. Upstream(u)!SetJob(Upstream(u)!SetActive(storage[u], b), j) = s
      BY <2>3
    <3>2. /\ storage[u]' = s
          /\ given[u]' = given[u] \union Upstream(u)!Handed(j, s, Upstream(u)!Receivers(s))
      BY <2>3, <2>4
    <3> QED
      BY <2>2, <2>4, <3>1, <3>2 DEF Upstream!Receive
  <2> QED
    BY <1>4, <2>5 DEF UpstreamStep, Upstream!Next, Upstream!NewJob, Upstream!Activate
<1> QED
  BY <1>3, <1>4

LEMMA LinkDownStep ==
    ASSUME TypeOK, NEW u \in Ups, LinkDown(u), NEW v \in Ups
    PROVE  UpstreamStep(v)
<1>1. /\ storage' = [storage EXCEPT ![u] = SetActive(storage[u], FALSE)]
      /\ DOMAIN storage = Ups /\ UNCHANGED <<issued, given, mapperId, fixedByte>>
  BY DEF LinkDown, TypeOK, minVars
<1>2. CASE v # u
  BY <1>1, <1>2, UnnoticedStep
<1>3. CASE v = u
  <2>1. storage'[u] = SetActive(storage[u], FALSE) /\ ByteOn(u)' = ByteOn(u)
    BY <1>1 DEF ByteOn
  <2>2. Upstream(u)!SetActive(storage[u], FALSE) = SetActive(storage[u], FALSE)
    BY SameOperators
  <2>3. UNCHANGED <<ByteOn(u), issued[u], given[u]>>
    BY <1>1, <2>1
  <2>4. Upstream(u)!Pause
    BY <2>1, <2>2, <2>3 DEF Upstream!Pause
  <2> QED
    BY <1>3, <2>4 DEF UpstreamStep, Upstream!Next
<1> QED
  BY <1>2, <1>3

LEMMA GCStep ==
    ASSUME PlaceInv, GC, NEW v \in Ups
    PROVE  UpstreamStep(v)
<1>1. UNCHANGED <<issued, given, mapperId, fixedByte>>
  BY GCFacts
<1>2. ByteOn(v)' = ByteOn(v)
  BY <1>1 DEF ByteOn
<1>3. CASE v \in Gone
  <2>1. ~IsUsed(storage[v])
    BY <1>3, GCFacts, AsleepUnused DEF PlaceInv
  <2>2. \E i \in Slots : storage'[v] = NewStorage(i)
    BY <1>3, GCFacts
  <2>3. Upstream(v)!Renew
    BY <1>1, <1>2, <2>1, <2>2, SameOperators DEF Upstream!Renew
  <2> QED
    BY <2>3 DEF UpstreamStep, Upstream!Next
<1>4. CASE v \notin Gone /\ v \in Doze
  <2>1. ~IsUsed(storage[v])
    BY <1>4 DEF Doze, Dozes
  <2>2. storage'[v] = Reset(SetActive(storage[v], FALSE))
    BY <1>4, GCFacts
  <2>3. Upstream(v)!Suspend
    BY <1>1, <1>2, <2>1, <2>2, SameOperators, ZenonT(60) DEF Upstream!Suspend
  <2> QED
    BY <2>3 DEF UpstreamStep, Upstream!Next
<1>5. CASE v \notin Gone /\ v \notin Doze
  <2>1. storage'[v] = storage[v]
    BY <1>5, GCFacts
  <2> QED
    BY <1>1, <2>1, UnnoticedStep
<1> QED
  BY <1>3, <1>4, <1>5

LEMMA NextStep ==
    ASSUME PlaceInv, [Next]_vars, NEW v \in Ups
    PROVE  UpstreamStep(v)
<1>0. TypeOK /\ TablesMatch /\ Placed /\ LoginsPlace /\ SessionJobs
  BY DEF PlaceInv
<1>1. CASE UNCHANGED <<storage, issued, given, mapperId, fixedByte>>
  BY <1>1, UnnoticedStep
<1>2. CASE GC
  BY <1>2, GCStep
<1>3. CASE MinerStep
  <2>1. ASSUME NEW m \in MinerIds, Login(m) PROVE UpstreamStep(v)
    <3>1. phase[m] = "login" /\ UNCHANGED issued
      BY <2>1 DEF Login, LoginReuse, LoginConnect
    <3>2. \E u \in Ups : AddTo(m, u)
      <4>1. CASE LoginReuse(m)
        BY <4>1, <1>0, FirstCandidate DEF LoginReuse
      <4>2. CASE LoginConnect(m)
        BY <4>2, <1>0 DEF LoginConnect, TypeOK, Ups
      <4> QED
        BY <2>1, <4>1, <4>2 DEF Login
    <3> QED
      BY <3>1, <3>2, <1>0, LoginStep
  <2>2. ASSUME NEW m \in MinerIds, NEW seq \in Seqs,
               SubmitRefused(m, seq) \/ \E j \in 1 .. MaxJobs : SubmitForwarded(m, seq, j)
        PROVE  UpstreamStep(v)
    BY <1>1, <2>2 DEF SubmitRefused, SubmitForwarded, upVars, minVars
  <2>3. ASSUME NEW m \in MinerIds, Shutdown(m) PROVE UpstreamStep(v)
    BY <1>1, <2>3 DEF Shutdown, upVars
  <2> QED
    BY <2>1, <2>2, <2>3, <1>0, <1>3, ClosedStep DEF MinerStep
<1>4. CASE PoolStep
  <2>1. ASSUME NEW u \in Ups, LinkUp(u) \/ PendingUp(u) PROVE UpstreamStep(v)
    <3>1. /\ logins[u] < MaxLogins /\ logins[u] \in 0 .. MaxLogins
          /\ ReceiveJob(u, logins[u] + 1, TRUE)
      BY <2>1, <1>0 DEF LinkUp, PendingUp, NewSession, TypeOK
    <3>2. logins[u] + 1 \in Sessions
      BY <3>1
    <3> QED
      BY <3>1, <3>2, <1>0, ReceiveStep
  <2>2. ASSUME NEW u \in Ups, LinkJob(u) PROVE UpstreamStep(v)
    <3>1. /\ logins[u] \in Sessions /\ storage[u].active \in BOOLEAN
          /\ ReceiveJob(u, logins[u], storage[u].active)
      <4>1. logins[u] \in 0 .. MaxLogins /\ logins[u] >= 1
        BY <2>2, <1>0 DEF LinkJob, TypeOK, SessionJobs
      <4> QED
        BY <4>1, <2>2, <1>0, StorageFacts DEF LinkJob
    <3> QED
      BY <3>1, <1>0, ReceiveStep
  <2>3. ASSUME NEW u \in Ups, NEW seq \in Seqs, PoolAnswer(u, seq) PROVE UpstreamStep(v)
    BY <1>1, <2>3 DEF PoolAnswer, upVars, minVars
  <2> QED
    BY <2>1, <2>2, <2>3, <1>0, <1>4, LinkDownStep DEF PoolStep
<1> QED
  BY <1>1, <1>2, <1>3, <1>4 DEF Next, Reload, vars, upVars, minVars

(* Each upstream implements NonceStorageSpec, through logins, jobs, gc and *)
(* reconnects, so the theorems about one storage hold for every upstream.  *)
THEOREM UpstreamsImplementStorage == Spec => StoragesRefined
<1>1. Init => \A u \in Ups : Upstream(u)!Init
  BY InitUpstreams
<1>2. PlaceInv /\ [Next]_vars => [\A u \in Ups : UpstreamStep(u)]_vars
  BY NextStep
<1> QED
  BY <1>1, <1>2, PlaceInvariant, PTL DEF Spec, StoragesRefined
=============================================================================
