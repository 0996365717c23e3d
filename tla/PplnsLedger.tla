----------------------------- MODULE PplnsLedger -----------------------------
(***************************************************************************)
(* The balances of the pool's users: the reward splitter of aterxdaemon.py *)
(* (a copy of reward_splitter.py) credits unlocked blocks to the keys      *)
(* b_<wallet>, payer.py pays them out through the wallet.  The two are     *)
(* separate processes that share nothing but Redis, where every change of  *)
(* a balance is a GET followed by a SET.  Either may die between any two   *)
(* commands.                                                               *)
(*                                                                         *)
(* What the shares of a block's window are worth is a constant here; the   *)
(* shares themselves are the subject of ShareTrail.                        *)
(***************************************************************************)
EXTENDS Integers, Sequences, FiniteSets, FiniteSetsExt

CONSTANTS Users,         \* wallets that have a key s_<wallet>
          Blocks,        \* heights of the blocks the pool finds
          Amount,        \* [Blocks -> Nat]: what a block is worth
          Work,          \* [Blocks -> [Users -> Nat]]: value of the shares
          Threshold,     \* THRESHOLD: smaller balances are not paid
          BatchSize,     \* payments in a transaction: 15
          DryRun,        \* DRY_RUN
          MaxSplits,     \* bound: runs of the splitter
          MaxRuns        \* bound: runs of the payer

LedgerAssumption ==
    /\ IsFiniteSet(Users) /\ Blocks \subseteq Nat
    /\ Amount \in [Blocks -> Nat] /\ Work \in [Blocks -> [Users -> Nat]]
    /\ Threshold \in Nat /\ BatchSize \in Nat /\ BatchSize > 1 /\ DryRun \in BOOLEAN
    /\ MaxSplits \in Nat /\ MaxRuns \in Nat

VARIABLES
    balance,    \* b_<wallet>; a key that is not there counts as 0
    marked,     \* blocks that have a key B_<height>
    unlocked,   \* blocks the wallet reports as unlocked
    \* the reward splitter
    spc,        \* where it is
    inTx,       \* the blocks of in_tx it has not finished
    block,      \* the block it is at
    payees,     \* wallets it has not credited for that block
    seen,       \* cur_value
    splits,     \* runs so far
    \* the payer
    ppc,        \* where it is
    txs,        \* all_txs
    amount,     \* what each wallet is to be paid in this run
    cur,        \* index of my_tx
    owed,       \* wallets of my_tx whose balance is not yet reduced
    curBal,     \* cur_bal
    runs,       \* runs so far
    \* the wallet and the chain
    transfers,  \* every transfer the wallet has made
    \* history
    credited,   \* [Blocks -> [Users -> Nat]]: how often it was credited
    tainted     \* wallets whose books an interruption or a race has upset

splitVars == <<spc, inTx, block, payees, seen, splits>>
payVars   == <<ppc, txs, amount, cur, owed, curBal, runs>>
vars      == <<balance, marked, unlocked, splitVars, payVars, transfers,
               credited, tainted>>

TotalWork(b) == SumFunctionOnSet(Work[b], Users)

(* floor(percent * amount).  A block without any share in its window is    *)
(* credited to nobody.                                                     *)
Reward(b, u) == IF TotalWork(b) = 0 THEN 0
                ELSE (Work[b][u] * Amount[b]) \div TotalWork(b)

Init ==
    /\ balance = [u \in Users |-> 0]
    /\ marked = {} /\ unlocked = {}
    /\ spc = "idle" /\ inTx = {} /\ block = 0 /\ payees = {} /\ seen = 0
    /\ splits = 0
    /\ ppc = "idle" /\ txs = <<>> /\ amount = [u \in Users |-> 0]
    /\ cur = 1 /\ owed = {} /\ curBal = 0 /\ runs = 0
    /\ transfers = <<>>
    /\ credited = [b \in Blocks |-> [u \in Users |-> 0]]
    /\ tainted = {}

Unlock(b) == /\ b \notin unlocked
             /\ unlocked' = unlocked \union {b}
             /\ UNCHANGED <<balance, marked, splitVars, payVars, transfers,
                            credited, tainted>>
-----------------------------------------------------------------------------
(* CleanerTask._handle_rewards, then _run_reward_splitter.                 *)

Highest(B) == CHOOSE b \in B : \A c \in B : c <= b

SplitVisit(B) == IF B = {} THEN spc' = "idle" /\ block' = 0
                 ELSE spc' = "check" /\ block' = Highest(B)

StartSplit ==
    /\ spc = "idle" /\ splits < MaxSplits
    /\ unlocked \ marked # {}
    /\ splits' = splits + 1
    /\ inTx' = unlocked
    /\ SplitVisit(unlocked)
    /\ UNCHANGED <<balance, marked, unlocked, payees, seen, payVars, transfers,
                   credited, tainted>>

NextBlock == /\ inTx' = inTx \ {block}
             /\ SplitVisit(inTx \ {block})

CheckBlock ==
    /\ spc = "check"
    /\ \/ /\ block \in marked
          /\ NextBlock
          /\ UNCHANGED payees
       \/ /\ block \notin marked
          /\ payees' = IF TotalWork(block) > 0 THEN Users ELSE {}
          /\ spc' = IF payees' = {} THEN "mark" ELSE "get"
          /\ UNCHANGED <<inTx, block>>
    /\ UNCHANGED <<balance, marked, unlocked, seen, splits, payVars, transfers,
                   credited, tainted>>

GetBalance(u) ==
    /\ spc = "get" /\ u \in payees
    /\ u = CHOOSE v \in payees : TRUE
    /\ seen' = balance[u]
    /\ spc' = "set"
    /\ UNCHANGED <<balance, marked, unlocked, inTx, block, payees, splits,
                   payVars, transfers, credited, tainted>>

\* bug: the old balance is forgotten
NewBalanceOnly(u) == Reward(block, u)

NewBalance(u) == seen + Reward(block, u)

SetBalance(u) ==
    /\ spc = "set" /\ u \in payees
    /\ u = CHOOSE v \in payees : TRUE
    /\ balance' = [balance EXCEPT ![u] = NewBalance(u)]
    /\ credited' = [credited EXCEPT ![block][u] = @ + 1]
    /\ tainted' = IF balance[u] = seen THEN tainted ELSE tainted \union {u}
    /\ payees' = payees \ {u}
    /\ spc' = IF payees' = {} THEN "mark" ELSE "get"
    /\ UNCHANGED <<marked, unlocked, inTx, block, seen, splits, payVars, transfers>>

MarkBlock ==
    /\ spc = "mark"
    /\ marked' = marked \union {block}
    /\ NextBlock
    /\ UNCHANGED <<balance, unlocked, payees, seen, splits, payVars, transfers,
                   credited, tainted>>

(* The daemon is stopped, or Redis raises and the run is given up.         *)
AbortSplit ==
    /\ spc # "idle"
    /\ spc' = "idle" /\ inTx' = {} /\ block' = 0 /\ payees' = {}
    /\ tainted' = IF spc \in {"get", "set", "mark"}
                  THEN tainted \union {u \in Users \ payees : Reward(block, u) > 0}
                  ELSE tainted
    /\ UNCHANGED <<balance, marked, unlocked, seen, splits, payVars, transfers,
                   credited>>
-----------------------------------------------------------------------------
(* payer.py: the wallets over the threshold, richest first, are dealt to   *)
(* transactions; each takes the richest that is left and then the poorest. *)

Sorted(P, a) == CHOOSE q \in [1 .. Cardinality(P) -> P] :
                   /\ \A i, k \in DOMAIN q : i # k => q[i] # q[k]
                   /\ \A i, k \in DOMAIN q : i < k => a[q[i]] >= a[q[k]]

NumBatches(n) == (n + BatchSize - 1) \div BatchSize

(* Where the k-th transaction starts to take from the end of the list.     *)
LastLeft(n, k) == n - (k - 1) * (BatchSize - 1)

Batch(q, k) == LET n == Len(q)
               IN  {q[k]} \union {q[i] : i \in {i \in k + 1 .. n :
                                LastLeft(n, k + 1) < i /\ i <= LastLeft(n, k)}}

\* bug: a transfer that failed on the chain is queued again
RequeuedAlways(t) == [t EXCEPT !.state = IF t.fails < 2 THEN "QUEUE" ELSE "FAILED"]

(* What the loop makes of a failed transaction: back to the queue after    *)
(* the first refusal.  Anything else only leaves a record.                 *)
Requeued(t) ==
    [t EXCEPT !.state = IF t.fails < 2 /\ t.hash = 0 THEN "QUEUE" ELSE "FAILED"]

SetSuccess(t) == [t EXCEPT !.state = "SUCCESS"]

NewTx(P) == [pay |-> P, state |-> "QUEUE", hash |-> 0, fails |-> 0]

StartPay ==
    LET P == {u \in Users : balance[u] > Threshold}
        q == Sorted(P, balance)
    IN  /\ ppc = "idle" /\ runs < MaxRuns
        /\ P # {}
        /\ runs' = runs + 1
        /\ ppc' = "visit"
        /\ amount' = [u \in Users |-> IF u \in P THEN balance[u] ELSE 0]
        /\ txs' = [k \in 1 .. NumBatches(Cardinality(P)) |-> NewTx(Batch(q, k))]
        /\ cur' = 1
        /\ UNCHANGED <<balance, marked, unlocked, splitVars, owed, curBal,
                       transfers, credited, tainted>>

myTx == txs[cur]

PayerOff == /\ ppc' = "idle" /\ txs' = <<>> /\ cur' = 1 /\ owed' = {}
            /\ amount' = [u \in Users |-> 0]

(* On to the next transaction, or out of the loop when all have succeeded. *)
AfterVisit(t) ==
    LET all == [txs EXCEPT ![cur] = t]
    IN  IF cur = Len(txs) /\ \A k \in DOMAIN all : all[k].state = "SUCCESS"
        THEN PayerOff
        ELSE /\ ppc' = "visit"
             /\ txs' = all
             /\ cur' = IF cur = Len(txs) THEN 1 ELSE cur + 1
             /\ owed' = {}
             /\ UNCHANGED amount

Visit(state) == ppc = "visit" /\ myTx.state = state

payerOnly == <<balance, marked, unlocked, splitVars, curBal, runs, credited>>

(* The wallet has too little unlocked, or the send is a dry run.           *)
Wait == /\ Visit("QUEUE")
        /\ AfterVisit(myTx)
        /\ UNCHANGED <<payerOnly, transfers, tainted>>

Transferred(P) ==
    transfers' = Append(transfers, [run |-> runs, amount |-> amount,
                                    part |-> [u \in P |-> "pending"]])

SendAccepted ==
    /\ Visit("QUEUE") /\ ~DryRun
    /\ Transferred(myTx.pay)
    /\ AfterVisit([myTx EXCEPT !.state = "PENDING", !.hash = Len(transfers) + 1])
    /\ UNCHANGED <<payerOnly, tainted>>

(* An error reply.                                                         *)
SendRefused ==
    /\ Visit("QUEUE") /\ ~DryRun
    /\ AfterVisit(Requeued([myTx EXCEPT !.fails = @ + 1]))
    /\ UNCHANGED <<payerOnly, transfers, tainted>>

(* The wallets a run that ends now has paid but not booked.                *)
Unbooked == UNION {{u \in txs[k].pay : /\ transfers[txs[k].hash].part[u] # "failed"
                                       /\ k = cur /\ ppc # "visit" => u \in owed} :
                   k \in {k \in DOMAIN txs : txs[k].hash > 0
                                             /\ txs[k].state # "SUCCESS"}}

(* The answer of the wallet is lost; the exception ends the payer.         *)
SendLost ==
    /\ Visit("QUEUE") /\ ~DryRun
    /\ PayerOff
    /\ \/ /\ Transferred(myTx.pay)
          /\ tainted' = tainted \union Unbooked \union myTx.pay
       \/ /\ tainted' = tainted \union Unbooked
          /\ UNCHANGED transfers
    /\ UNCHANGED payerOnly

AbortPay ==
    /\ ppc # "idle"
    /\ PayerOff
    /\ tainted' = tainted \union Unbooked
    /\ UNCHANGED <<payerOnly, transfers>>

\* bug: one part on the chain is taken for all
AnyPartOut(t) ==
    LET p == {transfers[t.hash].part[u] : u \in t.pay}
    IN  IF "out" \in p THEN {"PAIDONCHAIN"} ELSE {"PENDING"}

(* A transfer is split into several transactions on the chain; of those    *)
(* that are pending, the payer takes the last to be the state.             *)
StatesSeen(t) ==
    LET p == {transfers[t.hash].part[u] : u \in t.pay}
    IN  IF p = {"out"} THEN {"PAIDONCHAIN"}
        ELSE (IF "pending" \in p THEN {"PENDING"} ELSE {})
             \union (IF "failed" \in p THEN {"FAILED"} ELSE {})

QueryState ==
    /\ Visit("PENDING")
    /\ \E s \in StatesSeen(myTx) :
         CASE s = "PAIDONCHAIN" -> /\ ppc' = "get"
                                   /\ txs' = [txs EXCEPT ![cur].state = s]
                                   /\ owed' = myTx.pay
                                   /\ UNCHANGED <<cur, amount>>
           [] s = "PENDING"     -> AfterVisit(myTx)
           [] s = "FAILED"      -> AfterVisit(Requeued(myTx))
    /\ UNCHANGED <<payerOnly, transfers, tainted>>

(* A transaction that has failed, or has succeeded.                        *)
Skip == /\ \/ Visit("FAILED") /\ AfterVisit(Requeued(myTx))
           \/ Visit("SUCCESS") /\ AfterVisit(myTx)
        /\ UNCHANGED <<payerOnly, transfers, tainted>>

(* subtract_payouts                                                        *)
GetPaidBalance(u) ==
    /\ ppc = "get" /\ u \in owed
    /\ u = CHOOSE v \in owed : TRUE
    /\ curBal' = balance[u]
    /\ ppc' = "set"
    /\ UNCHANGED <<balance, marked, unlocked, splitVars, txs, amount, cur,
                   owed, runs, transfers, credited, tainted>>

SubtractPaid(u) ==
    /\ ppc = "set" /\ u \in owed
    /\ u = CHOOSE v \in owed : TRUE
    /\ balance' = [balance EXCEPT ![u] = curBal - amount[u]]
    /\ tainted' = IF balance[u] = curBal THEN tainted ELSE tainted \union {u}
    /\ IF owed = {u} THEN AfterVisit(SetSuccess(myTx))
                     ELSE /\ ppc' = "get" /\ owed' = owed \ {u}
                          /\ UNCHANGED <<txs, amount, cur>>
    /\ UNCHANGED <<marked, unlocked, splitVars, curBal, runs, transfers, credited>>

(* A part of a transfer is mined, or the network drops it.                 *)
Settle(i, u, s) ==
    /\ u \in DOMAIN transfers[i].part
    /\ transfers[i].part[u] = "pending"
    /\ transfers' = [transfers EXCEPT ![i].part[u] = s]
    /\ UNCHANGED <<balance, marked, unlocked, splitVars, payVars, credited, tainted>>
-----------------------------------------------------------------------------
Splitter == \/ StartSplit \/ CheckBlock \/ MarkBlock \/ AbortSplit
            \/ \E u \in Users : GetBalance(u) \/ SetBalance(u)
Payer    == \/ StartPay \/ Wait \/ SendAccepted \/ SendRefused \/ SendLost
            \/ QueryState \/ Skip \/ AbortPay
            \/ \E u \in Users : GetPaidBalance(u) \/ SubtractPaid(u)
Chain    == \/ \E b \in Blocks : Unlock(b)
            \/ \E i \in DOMAIN transfers, u \in Users, s \in {"out", "failed"} :
                 Settle(i, u, s)

Next == Splitter \/ Payer \/ Chain

Spec == Init /\ [][Next]_vars
-----------------------------------------------------------------------------
TxStates == {"QUEUE", "PENDING", "PAIDONCHAIN", "SUCCESS", "FAILED"}

(* Every variable keeps its type.                                          *)
TypeOK ==
    /\ balance \in [Users -> Int] /\ marked \subseteq unlocked
    /\ unlocked \subseteq Blocks
    /\ spc \in {"idle", "check", "get", "set", "mark"}
    /\ ppc \in {"idle", "visit", "get", "set"}
    /\ \A k \in DOMAIN txs :
         txs[k] \in [pay : SUBSET Users, state : TxStates,
                     hash : 0 .. Len(transfers), fails : 0 .. 2]
    /\ payees \subseteq Users /\ owed \subseteq Users /\ tainted \subseteq Users
    /\ amount \in [Users -> Nat] /\ {seen, curBal} \subseteq Int

(* What the pool owes a wallet for the blocks it has split, and what the   *)
(* wallet has been sent.                                                   *)
Earned(u) == SumFunctionOnSet([b \in Blocks |-> Reward(b, u)], marked)
Paid(u)   == SumFunctionOnSet([i \in DOMAIN transfers |-> transfers[i].amount[u]],
                              {i \in DOMAIN transfers :
                                 /\ u \in DOMAIN transfers[i].part
                                 /\ transfers[i].part[u] # "failed"})

(* Between runs the books balance: no satoshi is lost or credited twice    *)
(* except to a wallet that was hit by one of the four accidents that       *)
(* tainted records (a split given up half-way, a payout given up between   *)
(* transfer and booking, an update lost to the other process).             *)
BooksBalance ==
    spc = "idle" /\ ppc = "idle" =>
        \A u \in Users \ tainted : balance[u] = Earned(u) - Paid(u)

(* No interleaving and no crash makes a balance negative: what is booked   *)
(* was there when the run began, and meanwhile balances only grow.         *)
NeverOverdrawn == \A u \in Users : balance[u] >= 0

(* In one run of the payer a wallet is sent one transfer at most, however  *)
(* often sending is tried again and whatever becomes of the transfer.      *)
OneTransferPerRun ==
    \A i, k \in DOMAIN transfers :
        i # k /\ transfers[i].run = transfers[k].run =>
            DOMAIN transfers[i].part \intersect DOMAIN transfers[k].part = {}

(* Every wallet over the threshold is in exactly one transaction, and no   *)
(* transaction is too large for the wallet.                                *)
BatchesPartition ==
    ppc # "idle" =>
        /\ UNION {txs[k].pay : k \in DOMAIN txs} = {u \in Users : amount[u] > 0}
        /\ \A k \in DOMAIN txs : Cardinality(txs[k].pay) \in 1 .. BatchSize
        /\ \A i, k \in DOMAIN txs : i # k => txs[i].pay \intersect txs[k].pay = {}

(* The splitter credits no more than the block is worth.                   *)
NeverOverReward ==
    spc = "mark" => SumFunctionOnSet([u \in Users |-> Reward(block, u)], Users) <= Amount[block]

(* A wallet's balance is reduced only by a payment that is on the chain.   *)
BookedOnlyWhenPaid ==
    \A u \in Users : SubtractPaid(u) => transfers[myTx.hash].part[u] = "out"

(* aterxdaemon.py:212 says of the branch that computes the rewards of a    *)
(* block "Block not processed yet": nothing of it has been credited.       *)
SplitStartsClean ==
    spc = "check" /\ spc' \in {"get", "mark"} => \A u \in Users : credited[block][u] = 0
=============================================================================
