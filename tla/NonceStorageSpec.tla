-------------------------- MODULE NonceStorageSpec --------------------------
(***************************************************************************)
(* One NonceStorage under the calls its NonceMapper makes.  The guards say *)
(* when the mapper calls an operation; NonceSplitter, which models the     *)
(* callers themselves, is checked to respect them for every upstream.      *)
(***************************************************************************)
EXTENDS NonceStorage

CONSTANT MaxJobs   \* bound: jobs the pools of this upstream issue

ASSUME MaxJobsAssumption == MaxJobs \in Nat

VARIABLES storage,     \* the NonceStorage object
          fixedByte,   \* Miner::m_fixedByte, or NoByte before the login
          issued,      \* jobs received so far; the n-th job has id n
          given        \* history: every [job, slot, miner] sent to a miner

vars == <<storage, fixedByte, issued, given>>

NoByte == -1

Handed(j, s, R) == {[job |-> j.id, slot |-> i, miner |-> s.used[i]] : i \in R}

Init == /\ \E i \in Slots : storage = NewStorage(i)
        /\ fixedByte = [m \in MinerIds |-> NoByte]
        /\ issued = 0
        /\ given = {}

(* NonceMapper::add of a miner; a connection logs in once.                 *)
AddMiner(m) ==
    /\ fixedByte[m] = NoByte
    /\ \E i \in Slots :
         /\ IsNextIndex(storage, i)
         /\ storage' = Add(storage, m, i)
         /\ fixedByte' = [fixedByte EXCEPT ![m] = i]
         /\ given' = IF storage.active
                     THEN given \union Handed(storage.job, storage', {i})
                     ELSE given
    /\ UNCHANGED issued

(* NonceMapper::remove, once per closed miner.                             *)
RemoveMiner(m) ==
    /\ m \in storage.miners
    /\ storage' = Remove(storage, m, fixedByte[m])
    /\ UNCHANGED <<fixedByte, issued, given>>

(* A job the pool sends: a new one, as Client::parseJob drops a repeated   *)
(* job.  b says whether the upstream is active afterwards.                 *)
Receive(c, b) ==
    /\ issued < MaxJobs
    /\ issued' = issued + 1
    /\ LET j == [id |-> issued + 1, clientId |-> c]
           s == SetJob(SetActive(storage, b), j)
       IN  /\ storage' = s
           /\ given' = given \union Handed(j, s, Receivers(s))
    /\ UNCHANGED fixedByte

(* NonceMapper::onJob, also while no strategy has made the mapper active.  *)
NewJob(c) == Receive(c, storage.active)

(* NonceMapper::onActive, followed in the same call by the first job.      *)
Activate(c) == Receive(c, TRUE)

(* NonceMapper::onPause.                                                   *)
Pause == /\ storage' = SetActive(storage, FALSE)
         /\ UNCHANGED <<fixedByte, issued, given>>

(* NonceMapper::suspend, which gc calls only on an unused upstream.        *)
Suspend == /\ ~IsUsed(storage)
           /\ storage' = Reset(SetActive(storage, FALSE))
           /\ UNCHANGED <<fixedByte, issued, given>>

(* NonceSplitter::gc deletes an unused mapper and NonceSplitter::connect   *)
(* later makes a new one in its place.                                     *)
Renew == /\ ~IsUsed(storage)
         /\ \E i \in Slots : storage' = NewStorage(i)
         /\ UNCHANGED <<fixedByte, issued, given>>

Next == \/ \E m \in MinerIds : AddMiner(m) \/ RemoveMiner(m)
        \/ \E c \in Sessions : NewJob(c) \/ Activate(c)
        \/ Pause \/ Suspend \/ Renew

Spec == Init /\ [][Next]_vars
-----------------------------------------------------------------------------
Leases == [job : Nat \ {0}, slot : Slots, miner : MinerIds]

(* Every variable keeps its type.                                          *)
TypeOK == /\ storage \in Storage
          /\ fixedByte \in [MinerIds -> Slots \union {NoByte}]
          /\ issued \in Nat
          /\ given \subseteq Leases

(* The slot table and the map from ids to miners agree: remove() through   *)
(* a stale fixed byte would kill the slot of another miner, and gc would   *)
(* then suspend the upstream under a live miner.                           *)
MinersMatchSlots ==
    /\ \A m \in storage.miners :
         fixedByte[m] # NoByte /\ storage.used[fixedByte[m]] = m
    /\ \A i \in Slots : storage.used[i] > 0 =>
         storage.used[i] \in storage.miners /\ fixedByte[storage.used[i]] = i

(* No part of a job's nonce space is handed to two miners, not even after  *)
(* the first one has closed its connection.                                *)
SlotExclusive ==
    \A a, b \in given : a.job = b.job /\ a.slot = b.slot => a.miner = b.miner

(* While the upstream is active every miner of it has been sent the job    *)
(* that shares are judged by, under its own byte.                          *)
EveryoneHasJob ==
    storage.active =>
        Handed(storage.job, storage,
               {i \in Slots : storage.used[i] > 0}) \subseteq given

(* A share is accepted only for a job of the session it would be sent to.  *)
PrevJobSameSession ==
    storage.prevJob # NoJob => storage.prevJob.clientId = storage.job.clientId

(* nextIndex() finds a slot whenever there is one, wherever the scan       *)
(* starts; the splitter opens a new pool connection when it does not.      *)
FreeSlotFound ==
    HasFree(storage) => \E i \in Slots : IsNextIndex(storage, i)

Lease == INSTANCE NonceLease WITH lease <- given

(* The storage keeps the promise of NonceLease to the pool.                *)
LeaseSpec == Lease!Spec
=============================================================================
