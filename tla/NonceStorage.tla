---------------------------- MODULE NonceStorage ----------------------------
(***************************************************************************)
(* The class xmrig::NonceStorage (proxy/splitters/nicehash/NonceStorage):  *)
(* the table that gives each miner of one upstream a fixed nonce byte.     *)
(* A storage is a record with the fields of the class and every method is  *)
(* an operator on such a record; NonceStorageSpec runs one storage as a    *)
(* state machine and NonceSplitter runs one per upstream.                  *)
(*                                                                         *)
(* A definition under a comment "bug:" is never used by the model: it is   *)
(* what a plausible mistake would make of the definition that follows it,  *)
(* kept to test that the properties notice.  All modules do the same.      *)
(*                                                                         *)
(* used[i] is 0 when slot i is free, the id of the miner that holds it, or *)
(* minus the id of the miner that held it and left ("dead": free again     *)
(* only when the next job arrives).                                        *)
(***************************************************************************)
EXTENDS Integers

CONSTANTS NumSlots,   \* slots of a storage: 256 in the code, one nonce byte
          MinerIds,   \* ids of the miners that may connect
          Sessions    \* rpc session ids of the pools (Job::clientId)

ASSUME NumSlotsAssumption == NumSlots \in Nat \ {0}
ASSUME MinerIdsAssumption == MinerIds \subseteq Nat \ {0}
ASSUME SessionsAssumption == Sessions \subseteq Nat \ {0}

Slots == 0 .. NumSlots - 1

(* Of a job only its identity and the session it came from matter.         *)
Jobs  == [id : Nat \ {0}, clientId : Sessions]
NoJob == [id |-> 0, clientId |-> 0]

Storage == [active  : BOOLEAN,
            job     : Jobs \union {NoJob},
            prevJob : Jobs \union {NoJob},
            miners  : SUBSET MinerIds,
            used    : [Slots -> Int],
            index   : Slots]

(* The constructor: the scan starts at a random slot.                      *)
NewStorage(i) == [active |-> FALSE, job |-> NoJob, prevJob |-> NoJob,
                  miners |-> {}, used |-> [k \in Slots |-> 0], index |-> i]

IsUsed(s)    == \E i \in Slots : s.used[i] > 0
HasFree(s)   == \E i \in Slots : s.used[i] = 0

(* nextIndex(): the two loops visit index..255 and then 0..index-1, so     *)
(* slot i is the ScanPos-th visited; the first free one is taken.          *)
ScanPos(s, i) == IF i >= s.index THEN i - s.index ELSE i - s.index + NumSlots

\* bug: the second loop is missing
IsNextIndexNoWrap(s, i) ==
    /\ s.used[i] = 0 /\ i >= s.index
    /\ \A k \in s.index .. NumSlots - 1 : s.used[k] = 0 => i <= k

IsNextIndex(s, i) ==
    /\ s.used[i] = 0
    /\ \A k \in Slots : s.used[k] = 0 => ScanPos(s, i) <= ScanPos(s, k)

\* bug: the scan starts behind the slot just given out
AddAdvances(s, m, i) == [s EXCEPT !.index = i + 1, !.used = [@ EXCEPT ![i] = m],
                                  !.miners = @ \union {m}]

(* add() of miner m when nextIndex() returned i; with no free slot add()   *)
(* returns false and changes nothing.                                      *)
Add(s, m, i) == [s EXCEPT !.index   = i,
                          !.used    = [@ EXCEPT ![i] = m],
                          !.miners  = @ \union {m}]

\* bug: the slot is free at once
RemoveFrees(s, m, i) == [s EXCEPT !.used = [@ EXCEPT ![i] = 0], !.miners = @ \ {m}]

\* bug: the slot of the last login is killed
RemoveAtIndex(s, m, i) == [s EXCEPT !.used = [@ EXCEPT ![s.index] = -m],
                                    !.miners = @ \ {m}]

(* remove() of a miner whose fixed byte is i.                              *)
Remove(s, m, i) == [s EXCEPT !.used    = [@ EXCEPT ![i] = -m],
                             !.miners  = @ \ {m}]

SetActive(s, b) == [s EXCEPT !.active = b]

Reset(s) == [s EXCEPT !.used = [k \in Slots |-> 0]]

\* bug: the previous job survives a change of the pool session
SetJobKeepsPrev(s, j) ==
    [s EXCEPT !.used    = [k \in Slots |-> IF @[k] < 0 THEN 0 ELSE @[k]],
              !.prevJob = s.job,
              !.job     = j]

(* setJob(): dead slots become free, the replaced job stays acceptable     *)
(* only within its own session.                                            *)
SetJob(s, j) ==
    [s EXCEPT !.used    = [k \in Slots |-> IF @[k] < 0 THEN 0 ELSE @[k]],
              !.prevJob = IF s.job.clientId = j.clientId THEN s.job ELSE NoJob,
              !.job     = j]

\* bug: the loop ends one slot early
ReceiversButLast(s) == {i \in Slots \ {NumSlots - 1} :
                          s.used[i] > 0 /\ s.used[i] \in s.miners}

(* The slots whose miner setJob() sends the job to.                        *)
Receivers(s) == {i \in Slots : s.used[i] > 0 /\ s.used[i] \in s.miners}

IsValidJobId(s, id) ==
    \/ s.job.id = id
    \/ s.prevJob # NoJob /\ s.prevJob.id = id
=============================================================================
