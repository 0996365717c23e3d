----------------------------- MODULE NonceLease -----------------------------
(***************************************************************************)
(* What an upstream in nicehash mode promises to the pool behind it.       *)
(*                                                                         *)
(* In nicehash mode every miner of an upstream hashes the same job, and    *)
(* the highest byte of the 32-bit nonce, fixed by the proxy, is the only   *)
(* thing that keeps two miners from hashing the same nonces.  Handing      *)
(* <<job, byte>> to a miner therefore leases it a 2^24 part of the nonce   *)
(* space of that job, and the promise is that no part is leased twice:     *)
(* not even after the first holder has left, because the shares it found   *)
(* have been submitted and the pool refuses a nonce it has seen.           *)
(***************************************************************************)
EXTENDS Integers

VARIABLE lease   \* every [job, slot, miner] handed out so far

TypeOK == lease \subseteq [job : Nat, slot : Nat, miner : Nat]

(* A part of a job's nonce space belongs to one miner for ever.            *)
Exclusive(L) ==
    \A a, b \in L : a.job = b.job /\ a.slot = b.slot => a.miner = b.miner

(* Leases are only ever added, and only for the newest job.                *)
NewestJob(old, new) == \A a \in new \ old, b \in old : a.job >= b.job

Init == lease = {}

Grant == /\ lease \subseteq lease'
         /\ Exclusive(lease')
         /\ NewestJob(lease, lease')

Spec == Init /\ [][Grant]_lease
=============================================================================
