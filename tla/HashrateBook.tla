---------------------------- MODULE HashrateBook ----------------------------
(***************************************************************************)
(* The hashrates the web pages show (python/aterxdaemon.py, HashrateTask,  *)
(* and hashrate.py, the script it replaces).  The task reads the shares of *)
(* every user, writes a record per user, h_<user>, and their sum, h_super, *)
(* and removes the records of users without shares.  It does so by one     *)
(* command to Redis after the other, between which the proxy records       *)
(* shares and, beside the script, the cleaner removes them.                *)
(***************************************************************************)
EXTENDS Naturals, Sequences, FiniteSets, SequencesExt

CONSTANTS Users,
          Buckets,        \* the lengths a rate is given for
          Window,         \* six hours
          Keep,           \* the cleaner removes what is older
          Diffs,
          Rewards,        \* what P2Pool may pay; 0 when its statistics are missing
          Script,         \* hashrate.py, with cleaner.py beside it
          MaxTime, MaxShares, MaxFails

BookAssumption ==
    /\ IsFiniteSet(Users)
    /\ Buckets \subseteq Nat \ {0}
    /\ Diffs \subseteq Nat \ {0}
    /\ Rewards \subseteq Nat
    /\ {Window, Keep, MaxTime, MaxShares, MaxFails} \subseteq Nat
    /\ Script \in BOOLEAN

VARIABLES now,
          shares,     \* s_<user>; the key is absent when there are none
          rate,       \* h_<user>, a set of at most one record
          super,      \* h_super
          pass,       \* the task's local variables
          fails

vars == <<now, shares, rate, super, pass, fails>>

Zero == [k \in Buckets |-> 0]
Idle == [at |-> "idle", start |-> 0, keys |-> {}, left |-> {}, total |-> 0, reward |-> 0,
         sum |-> Zero, done |-> {}, user |-> {}, read |-> {}, came |-> 0]

Init ==
    /\ now = 0
    /\ shares = [u \in Users |-> <<>>]
    /\ rate = [u \in Users |-> {}]
    /\ super = Zero
    /\ pass = Idle
    /\ fails = 0

Has(u) == shares[u] # <<>>
At(place) == pass.at = place

\* The difficulty of the shares that are younger than length at a time
Since(s, time, length) ==
    SumFunctionOnSet([i \in DOMAIN s |-> IF time < s[i].at + length THEN s[i].diff ELSE 0], DOMAIN s)

\* _determine_hr
DetermineHr(s, time) == [k \in Buckets |-> Since(s, time, k) \div k]

\* _calculate_user_estimated_reward
Estimate(mine, total, reward) == IF total = 0 THEN 0 ELSE (mine * reward) \div total

-----------------------------------------------------------------------------
(* The task *)

\* execute: the time, the keys
Begin ==
    /\ At("idle")
    /\ LET keys == {u \in Users : Has(u)}
       IN pass' = [Idle EXCEPT !.at = IF keys = {} THEN "list" ELSE IF Script THEN "write" ELSE "total",
                               !.start = now, !.keys = keys, !.left = keys]
    /\ UNCHANGED <<now, shares, rate, super, fails>>

\* Bug: the window is that of the shortest rate
BugAddUp(u, reward) ==
    /\ At("total") /\ u \in pass.left
    /\ LET left == pass.left \ {u}
       IN pass' = [pass EXCEPT !.total = @ + Since(shares[u], pass.start, 1),
                               !.at = IF left = {} THEN "write" ELSE @,
                               !.left = IF left = {} THEN pass.keys ELSE left,
                               !.reward = IF left = {} THEN reward ELSE @]
    /\ UNCHANGED <<now, shares, rate, super, fails>>

\* _calculate_total_6h_difficulty, a user at a time, then _get_current_p2pool_reward
AddUp(u, reward) ==
    /\ At("total") /\ u \in pass.left
    /\ LET left == pass.left \ {u}
       IN pass' = [pass EXCEPT !.total = @ + Since(shares[u], pass.start, Window),
                               !.at = IF left = {} THEN "write" ELSE @,
                               !.left = IF left = {} THEN pass.keys ELSE left,
                               !.reward = IF left = {} THEN reward ELSE @]
    /\ UNCHANGED <<now, shares, rate, super, fails>>

\* The loop's end, after which the keys h_* are read
Goes(left) == IF left = {} THEN "list" ELSE "write"

\* Second pass, the reading
Read(u) ==
    /\ At("write") /\ u \in pass.left /\ Has(u)
    /\ pass' = [pass EXCEPT !.at = "put",
                            !.user = {u},
                            !.read = {[rate |-> DetermineHr(shares[u], pass.start),
                                       est |-> Estimate(Since(shares[u], pass.start, Window),
                                                        pass.total, pass.reward)]}]
    /\ UNCHANGED <<now, shares, rate, super, fails>>

\* Second pass, the writing
Write ==
    /\ At("put")
    /\ \E u \in pass.user, r \in pass.read :
        /\ rate' = [rate EXCEPT ![u] = {r}]
        /\ pass' = [pass EXCEPT !.sum = [k \in Buckets |-> @[k] + r.rate[k]],
                                !.done = @ \cup {u},
                                !.left = @ \ {u},
                                !.at = Goes(pass.left \ {u}),
                                !.user = {}, !.read = {}]
    /\ UNCHANGED <<now, shares, super, fails>>

\* hashrate.py does not expect a key to be gone: len(None), the end of the script
ScriptEnds(u) ==
    /\ At("write") /\ u \in pass.left /\ ~Has(u)
    /\ pass' = Idle
    /\ UNCHANGED <<now, shares, rate, super, fails>>

ListOld ==
    /\ At("list")
    /\ pass' = [pass EXCEPT !.at = "clean", !.left = {u \in Users : rate[u] # {}}]
    /\ UNCHANGED <<now, shares, rate, super, fails>>

\* Clean up, the reading
Look(u) ==
    /\ At("clean") /\ u \in pass.left
    /\ pass' = [pass EXCEPT !.left = @ \ {u},
                            !.at = IF Has(u) THEN @ ELSE "delete",
                            !.user = IF Has(u) THEN {} ELSE {u}]
    /\ UNCHANGED <<now, shares, rate, super, fails>>

\* Clean up, the deletion
Delete ==
    /\ At("delete")
    /\ rate' = [u \in Users |-> IF u \in pass.user THEN {} ELSE rate[u]]
    /\ pass' = [pass EXCEPT !.at = "clean", !.user = {}]
    /\ UNCHANGED <<now, shares, super, fails>>

\* What super was made of stays to be compared
SetSuper ==
    /\ At("clean") /\ pass.left = {}
    /\ super' = pass.sum
    /\ pass' = [pass EXCEPT !.at = "idle"]
    /\ UNCHANGED <<now, shares, rate, fails>>

\* Redis does not answer: the exception ends the pass
Fail ==
    /\ ~At("idle") /\ fails < MaxFails
    /\ fails' = fails + 1
    /\ pass' = Idle
    /\ UNCHANGED <<now, shares, rate, super>>

-----------------------------------------------------------------------------
(* The proxy's Recorder, time, the cleaner *)
Recorded == MapThenSumSet(LAMBDA u : Len(shares[u]), Users)

Record(u, diff) ==
    /\ Recorded < MaxShares
    /\ shares' = [shares EXCEPT ![u] = Append(@, [at |-> now, diff |-> diff])]
    /\ pass' = [pass EXCEPT !.came = IF pass.at \in {"total", "write", "put"} THEN @ + diff ELSE @]
    /\ UNCHANGED <<now, rate, super, fails>>

Tick ==
    /\ now < MaxTime
    /\ now' = now + 1
    /\ UNCHANGED <<shares, rate, super, pass, fails>>

TooOld(share) == now - share.at > Keep

\* Up to the first share that is young enough; the daemon's cleaner is the task before this one
Clean(u) ==
    /\ Script \/ At("idle")
    /\ \E n \in 1 .. Len(shares[u]) :
        /\ \A i \in 1 .. n : TooOld(shares[u][i])
        /\ n < Len(shares[u]) => ~TooOld(shares[u][n + 1])
        /\ shares' = [shares EXCEPT ![u] = SubSeq(@, n + 1, Len(@))]
    /\ pass' = IF At("idle") THEN Idle ELSE pass
    /\ UNCHANGED <<now, rate, super, fails>>

Steps ==
    \/ Begin \/ Write \/ ListOld \/ Delete \/ SetSuper
    \/ \E u \in Users : Read(u) \/ Look(u) \/ ScriptEnds(u) \/ \E reward \in Rewards : AddUp(u, reward)

Next ==
    \/ Steps \/ Fail \/ Tick
    \/ \E u \in Users : Clean(u) \/ \E diff \in Diffs : Record(u, diff)

Spec == Init /\ [][Next]_vars /\ WF_vars(Steps)

-----------------------------------------------------------------------------
Rates == [Buckets -> Nat]
TypeOK ==
    /\ now \in 0..MaxTime
    /\ \A u \in Users : \A r \in rate[u] : r.rate \in Rates /\ r.est \in Nat
    /\ super \in Rates
    /\ pass.at \in {"idle", "total", "write", "put", "list", "clean", "delete"}
    /\ pass.user \subseteq Users /\ pass.left \subseteq Users /\ pass.done \subseteq pass.keys
    /\ pass.at \in {"put", "delete"} <=> pass.user # {}

Complete == At("idle") /\ pass.keys # {}
RateOf(u, k) == SumFunctionOnSet([r \in rate[u] |-> r.rate[k]], rate[u])
Est(u)       == SumFunctionOnSet([r \in rate[u] |-> r.est], rate[u])

\* When a pass of the daemon is complete, the sum it has written is that of the
\* records of the users it found, each still there, although shares came and
\* other records were removed meanwhile
SuperExact ==
    Complete /\ ~Script =>
        \A k \in Buckets : super[k] = SumFunctionOnSet([u \in Users |-> RateOf(u, k)], pass.done)

\* Every user found at the start has a record when the pass is complete
NobodyLeftOut == Complete /\ ~Script => pass.done = pass.keys /\ \A u \in pass.done : rate[u] # {}

\* What the users are told to expect is together the reward, rounding apart,
\* unless shares come between the pass that adds up and the one that divides
EstimatesDivide ==
    Complete /\ ~Script /\ pass.came = 0 =>
        LET told == SumFunctionOnSet([u \in Users |-> Est(u)], pass.done)
        IN /\ told <= pass.reward
           /\ pass.total > 0 => told + Cardinality(pass.done) > pass.reward

\* A longer window never holds less work than a shorter one
WindowsNest ==
    \A u \in Users : \A r \in rate[u] : \A j, k \in Buckets :
        j < k => r.rate[j] * j < (r.rate[k] + 1) * k

\* Users without shares are not shown for ever, users with shares come to be shown
Gone(u)  == Has(u) \/ rate[u] = {}
Shown(u) == ~Has(u) \/ rate[u] # {}
=============================================================================
