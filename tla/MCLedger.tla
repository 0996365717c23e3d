------------------------------ MODULE MCLedger ------------------------------
(***************************************************************************)
(* Small instances of what keeps the pool's books: the trail of shares,    *)
(* the balances, the daemon that runs the tasks and the files it leaves,   *)
(* the estimates, and the proxy in front of a pool that counts shares.     *)
(*                                                                         *)
(* These parts share no state, so a run is of one part: part says of       *)
(* which, and v1, v2, .. are its variables, in the order its module        *)
(* declares them.  Zero from the first one that the part has no use for.   *)
(***************************************************************************)
EXTENDS Integers, Sequences, TLAPS

CONSTANT Parts

VARIABLES part, v1, v2, v3, v4, v5, v6, v7, v8, v9, v10, v11, v12, v13, v14, v15, v16, v17, v18, v19
vars == <<part, v1, v2, v3, v4, v5, v6, v7, v8, v9, v10, v11, v12, v13, v14, v15, v16, v17, v18, v19>>

Rest14 == <<v14, v15, v16, v17, v18, v19>>
Zero14 == v14 = 0 /\ v15 = 0 /\ v16 = 0 /\ v17 = 0 /\ v18 = 0 /\ v19 = 0
Rest13 == <<v13, Rest14>>
Zero13 == v13 = 0 /\ Zero14
Rest10 == <<v10, v11, v12, Rest13>>
Zero10 == v10 = 0 /\ v11 = 0 /\ v12 = 0 /\ Zero13
Rest7  == <<v7, v8, v9, Rest10>>
Zero7  == v7 = 0 /\ v8 = 0 /\ v9 = 0 /\ Zero10

---------------------------------------------------------------------------
(* Two wallets and a handful of shares on a clock of a few ticks: shares   *)
(* grow old, lists are trimmed, emptied, forgotten and created again while *)
(* new shares arrive.                                                      *)
Trail == INSTANCE ShareTrail WITH
    Users <- {"u1", "u2"}, Keep <- 4, Window <- 2, MaxShares <- 3, MaxTime <- 6, MaxPasses <- 2,
    now <- v1, trail <- v2, connected <- v3, share <- v4, step <- v5, pc <- v6, todo <- v7, user <- v8,
    count <- v9, last <- v10, passes <- v11, accepted <- v12, raced <- v13

(* Two blocks: one whose value does not divide evenly, one that pays a     *)
(* single wallet.  Three wallets need a second transaction; two are paid   *)
(* in two runs.  Estimates for two users, of windows of one and three      *)
(* ticks and a reward that does not divide: by the daemon, and by the      *)
(* script.  The daemon's loop has an interval of six ticks, and tasks that *)
(* may take longer than it; its files have five ages, and it dies twice.   *)
(* At the proxy (Batches) two miners that wait for their answers, whose    *)
(* connections may be reset; (Reruns) two of a pool that takes or refuses, *)
(* with sockets for one at a time, and Redis failing; (InPieces, which is  *)
(* for this alone) one whose messages come in pieces or are odd, and Redis *)
(* failing.                                                                *)
Worth       == [b \in {1, 2} |-> IF b = 1 THEN 9 ELSE 4]
WorkOf(users) == [b \in {1, 2} |-> IF b = 1 THEN [u \in users |-> u]
                                 ELSE [u \in users |-> IF u = 1 THEN 5 ELSE 0]]

Batches == INSTANCE LedgerProofs WITH
    Users <- 1..3, Blocks <- {1, 2}, Amount <- Worth, Work <- WorkOf(1..3), Threshold <- 1, BatchSize <- 2,
    DryRun <- FALSE, MaxSplits <- 2, MaxRuns <- 1,
    balance <- v1, marked <- v2, unlocked <- v3, spc <- v4, inTx <- v5, block <- v6, payees <- v7,
    seen <- v8, splits <- v9, ppc <- v10, txs <- v11, amount <- v12, cur <- v13, owed <- v14,
    curBal <- v15, runs <- v16, transfers <- v17, credited <- v18, tainted <- v19,
    Owners <- {"u1", "u2"}, Buckets <- {1, 3}, Window <- 2, Keep <- 2, Diffs <- {3}, Rewards <- {0, 7},
    Script <- FALSE, MaxTime <- 3, MaxShares <- 2, MaxFails <- 1,
    now <- v1, listed <- v2, rate <- v3, super <- v4, pass <- v5, fails <- v6,
    Enabled <- {"exporter", "hashrate"}, Interval <- 6, Grace <- 1, MaxTask <- 8,
    pc <- v1, at <- v2, running <- v3, since <- v4, left <- v5, pidFile <- v6, script <- v7,
    waited <- v8, needs <- v9, calls <- v10, ran <- v11, killed <- v12,
    Old <- 3, MaxCrashes <- 2,
    place <- v1, latest <- v2, shares <- v3, window <- v4, log <- v5, graph <- v6, answer <- v7,
    reading <- v8, overlap <- v9, dirty <- v10, parsed <- v11, crashes <- v12,
    Miners <- {"a", "b"}, MaxSubmits <- 1, LastJob <- 1, Answers <- {"ok", "refused", "error"},
    Pieces <- FALSE, Waits <- TRUE, Hellos <- TRUE, Resets <- TRUE,
    Oddities <- FALSE, StoreFails <- FALSE, MaxSockets <- 5,
    link <- v1, inputs <- v2, ready <- v3, entry <- v4, inbox <- v5, pool <- v6, peer <- v7, credit <- v8, death <- v9
Reruns == INSTANCE LedgerProofs WITH
    Users <- 1..2, Blocks <- {1, 2}, Amount <- Worth, Work <- WorkOf(1..2), Threshold <- 1, BatchSize <- 2,
    DryRun <- FALSE, MaxSplits <- 2, MaxRuns <- 2,
    balance <- v1, marked <- v2, unlocked <- v3, spc <- v4, inTx <- v5, block <- v6, payees <- v7,
    seen <- v8, splits <- v9, ppc <- v10, txs <- v11, amount <- v12, cur <- v13, owed <- v14,
    curBal <- v15, runs <- v16, transfers <- v17, credited <- v18, tainted <- v19,
    Owners <- {"u1", "u2"}, Buckets <- {1, 3}, Window <- 2, Keep <- 2, Diffs <- {3}, Rewards <- {7},
    Script <- TRUE, MaxTime <- 3, MaxShares <- 2, MaxFails <- 1,
    now <- v1, listed <- v2, rate <- v3, super <- v4, pass <- v5, fails <- v6,
    Enabled <- {"exporter", "hashrate"}, Interval <- 6, Grace <- 1, MaxTask <- 8,
    pc <- v1, at <- v2, running <- v3, since <- v4, left <- v5, pidFile <- v6, script <- v7,
    waited <- v8, needs <- v9, calls <- v10, ran <- v11, killed <- v12,
    Old <- 3, MaxCrashes <- 2,
    place <- v1, latest <- v2, shares <- v3, window <- v4, log <- v5, graph <- v6, answer <- v7,
    reading <- v8, overlap <- v9, dirty <- v10, parsed <- v11, crashes <- v12,
    Miners <- {"a", "b"}, MaxSubmits <- 2, LastJob <- 2, Answers <- {"ok", "refused"},
    Pieces <- FALSE, Waits <- TRUE, Hellos <- FALSE, Resets <- FALSE,
    Oddities <- FALSE, StoreFails <- TRUE, MaxSockets <- 4,
    link <- v1, inputs <- v2, ready <- v3, entry <- v4, inbox <- v5, pool <- v6, peer <- v7, credit <- v8, death <- v9

InPieces == INSTANCE LedgerProofs WITH
    Users <- 1..2, Blocks <- {1, 2}, Amount <- Worth, Work <- WorkOf(1..2), Threshold <- 1, BatchSize <- 2,
    DryRun <- FALSE, MaxSplits <- 2, MaxRuns <- 2,
    balance <- v1, marked <- v2, unlocked <- v3, spc <- v4, inTx <- v5, block <- v6, payees <- v7,
    seen <- v8, splits <- v9, ppc <- v10, txs <- v11, amount <- v12, cur <- v13, owed <- v14,
    curBal <- v15, runs <- v16, transfers <- v17, credited <- v18, tainted <- v19,
    Owners <- {"u1", "u2"}, Buckets <- {1, 3}, Window <- 2, Keep <- 2, Diffs <- {3}, Rewards <- {7},
    Script <- TRUE, MaxTime <- 3, MaxShares <- 2, MaxFails <- 1,
    now <- v1, listed <- v2, rate <- v3, super <- v4, pass <- v5, fails <- v6,
    Enabled <- {"exporter", "hashrate"}, Interval <- 6, Grace <- 1, MaxTask <- 8,
    pc <- v1, at <- v2, running <- v3, since <- v4, left <- v5, pidFile <- v6, script <- v7,
    waited <- v8, needs <- v9, calls <- v10, ran <- v11, killed <- v12,
    Old <- 3, MaxCrashes <- 2,
    place <- v1, latest <- v2, shares <- v3, window <- v4, log <- v5, graph <- v6, answer <- v7,
    reading <- v8, overlap <- v9, dirty <- v10, parsed <- v11, crashes <- v12,
    Miners <- {"a"}, MaxSubmits <- 2, LastJob <- 2, Answers <- {"ok", "refused", "error"},
    Pieces <- TRUE, Waits <- FALSE, Hellos <- FALSE, Resets <- FALSE,
    Oddities <- TRUE, StoreFails <- TRUE, MaxSockets <- 3,
    link <- v1, inputs <- v2, ready <- v3, entry <- v4, inbox <- v5, pool <- v6, peer <- v7, credit <- v8, death <- v9

PartsAssumption == Parts \subseteq {"trail", "batches", "reruns", "tasks", "files", "book", "script",
                                    "pairs", "pieces", "waiting"}
ASSUME /\ PartsAssumption
       /\ Trail!AgesAssumption /\ Trail!TrailBounds
       /\ Batches!LedgerAssumption /\ Reruns!LedgerAssumption
       /\ Batches!Tasks!LoopAssumption /\ Batches!Files!FilesAssumption
       /\ Batches!Book!BookAssumption /\ Reruns!Book!BookAssumption
       /\ Batches!Tap!TapAssumption /\ InPieces!Tap!TapAssumption /\ Reruns!Tap!TapAssumption /\ Reruns!Exact

---------------------------------------------------------------------------
Init == /\ part \in Parts
        /\ \/ part = "trail"   /\ Trail!Init   /\ Zero14
           \/ part = "batches" /\ Batches!Init
           \/ part = "reruns"  /\ Reruns!Init
           \/ part = "tasks"   /\ Batches!Tasks!Init   /\ Zero13
           \/ part = "files"   /\ Batches!Files!Init   /\ Zero13
           \/ part = "book"    /\ Batches!Book!Init    /\ Zero7
           \/ part = "script"  /\ Reruns!Book!Init  /\ Zero7
           \/ part = "pairs"   /\ Batches!Tap!Init   /\ Zero10
           \/ part = "pieces"  /\ InPieces!Tap!Init /\ Zero10
           \/ part = "waiting" /\ Reruns!Tap!Init   /\ Zero10

Of(p) == part = p /\ UNCHANGED part

TrailStep  == Of("trail")   /\ Trail!Next   /\ UNCHANGED Rest14
BatchStep  == Of("batches") /\ Batches!Next
RerunStep  == Of("reruns")  /\ Reruns!Next
TaskStep   == Of("tasks")   /\ Batches!Tasks!Next   /\ UNCHANGED Rest13
FileStep   == Of("files")   /\ Batches!Files!Next   /\ UNCHANGED Rest13
BookStep   == Of("book")    /\ Batches!Book!Next    /\ UNCHANGED Rest7
ScriptStep == Of("script")  /\ Reruns!Book!Next  /\ UNCHANGED Rest7
PairStep   == Of("pairs")   /\ Batches!Tap!Next  /\ UNCHANGED Rest10
PieceStep  == Of("pieces")  /\ InPieces!Tap!Next /\ UNCHANGED Rest10
WaitStep   == Of("waiting") /\ Reruns!Tap!Next   /\ UNCHANGED Rest10

Next == \/ TrailStep \/ BatchStep \/ RerunStep \/ TaskStep \/ FileStep
        \/ BookStep \/ ScriptStep \/ PairStep \/ PieceStep \/ WaitStep

Spec == Init /\ [][Next]_vars

---------------------------------------------------------------------------
(* The cleaner may stop at the first share that is young enough, and what  *)
(* may still be split has all its shares, those apart that raced with it.  *)
TrailKept == part = "trail" => Trail!TypeOK /\ Trail!TrailInOrder /\ Trail!WindowIntact

(* aterxdaemon.py's README: only shares that are too old are dropped.      *)
OnlyOldSharesDropped == [][part = "trail" => Trail!OnlyOldSharesDropped]_vars

(* Between runs of the splitter and the payer a wallet's balance is what   *)
(* it earned less what it was paid, the four accidents apart; no balance   *)
(* is ever negative.                                                       *)
BooksBalance ==
    /\ part = "batches" => Batches!TypeOK /\ Batches!BooksBalance
    /\ part = "reruns"  => Reruns!TypeOK /\ Reruns!BooksBalance /\ Reruns!NeverOverdrawn

(* A run of the payer divides the wallets among its transactions, pays     *)
(* each once, however often sending is tried again; and a block is never   *)
(* split for more than it is worth.                                        *)
PaidOncePerRun ==
    /\ part = "batches" => Batches!OneTransferPerRun /\ Batches!BatchesPartition /\ Batches!NeverOverReward
    /\ part = "reruns"  => Reruns!OneTransferPerRun

(* A wallet's balance is reduced only by a payment that is on the chain.   *)
BookedOnlyWhenPaid ==
    [][/\ part = "batches" => Batches!BookedOnlyWhenPaid
       /\ part = "reruns"  => Reruns!BookedOnlyWhenPaid]_vars

(* aterxdaemon.py:212: nothing of a block that is "not processed yet" has  *)
(* been credited.                                                          *)
SplitStartsClean == [][part = "reruns" => Reruns!SplitStartsClean]_vars

(* The file names a daemon that lives, every enabled task has its turn in  *)
(* every cycle; the files of a cycle are there for the next, are bounded,  *)
(* and those left half written are removed, wherever the daemon died; the  *)
(* sum and the estimates of the hashrates are those of the users that a    *)
(* pass found, while shares come and records go.                           *)
CyclesHold ==
    /\ part = "tasks"  => Batches!Tasks!TypeOK /\ Batches!Tasks!FileNamesDaemon /\ Batches!Tasks!AllTurns
    /\ part = "files"  => Batches!Files!TypeOK /\ Batches!Files!StatsFound /\ Batches!Files!FilesBounded /\ Batches!Files!BrokenGo
    /\ part = "book"   => /\ Batches!Book!TypeOK /\ Batches!Book!SuperExact /\ Batches!Book!NobodyLeftOut
                          /\ Batches!Book!EstimatesDivide /\ Batches!Book!WindowsNest
    /\ part = "script" => Reruns!Book!TypeOK /\ Reruns!Book!WindowsNest

(* A pass of the cleaner that reaches the end of a list leaves nothing in  *)
(* it that is too old; cycles keep their distance; and a graph fails only  *)
(* beside the exporter.                                                    *)
PassesHold == [][/\ part = "trail" => Trail!PassRemovesOld
                 /\ part = "tasks" => Batches!Tasks!Paced
                 /\ part = "files" => Batches!Files!GraphFailsBeside]_vars

(* Both sockets of a miner are listed or neither is; each exception that   *)
(* ends the proxy has its condition; no share is recorded twice, and where *)
(* miners wait for answers none that the pool did not take.                *)
SharesCounted ==
    /\ part = "pairs"   => Batches!Tap!TypeOK /\ Batches!Tap!Paired /\ Batches!Tap!DiesOnly /\ Batches!Tap!CreditedOnce
    /\ part = "pieces"  => InPieces!Tap!TypeOK /\ InPieces!Tap!DiesOnly /\ InPieces!Tap!CreditedOnce
    /\ part = "waiting" => Reruns!Tap!CreditedOnce /\ Reruns!Tap!CreditTrue

---------------------------------------------------------------------------
(* What is proved of these parts for every instance, for the instances     *)
(* above: each keeps the invariant of its module, and steps of other parts *)
(* do not concern it.                                                      *)
PartsSound == /\ part = "trail"   => Trail!TrailInv
              /\ part = "batches" => Batches!LedgerInv
              /\ part = "reruns"  => Reruns!LedgerInv
              /\ part = "tasks"   => Batches!LoopInv
              /\ part = "files"   => Batches!FilesInv
              /\ part = "book"    => Batches!BookInv
              /\ part = "script"  => Reruns!BookInv
              /\ part = "pairs"   => Batches!TapInv
              /\ part = "pieces"  => InPieces!TapInv
              /\ part = "waiting" => Reruns!TapInv /\ Reruns!ExactInv

LEMMA InstancesAllowed ==
    /\ Trail!AgesAssumption /\ Trail!TrailBounds
    /\ Batches!LedgerAssumption /\ Reruns!LedgerAssumption
    /\ Batches!Tasks!LoopAssumption /\ Batches!Files!FilesAssumption
    /\ Batches!Book!BookAssumption /\ Reruns!Book!BookAssumption
    /\ Batches!Tap!TapAssumption /\ InPieces!Tap!TapAssumption /\ Reruns!Tap!TapAssumption /\ Reruns!Exact
<1>1. Trail!AgesAssumption /\ Trail!TrailBounds
  BY DEF Trail!AgesAssumption, Trail!TrailBounds
<1>2. Batches!IsFiniteSet(1..3) /\ Reruns!IsFiniteSet(1..2)
  <2>1. 1 \in Int /\ 2 \in Int /\ 3 \in Int
    BY SMTT(40)
  <2> QED
    BY <2>1, Batches!FS_Interval, Reruns!FS_Interval, ZenonT(60)
<1>3. Worth \in [{1, 2} -> Nat]
  BY SMTT(40) DEF Worth
<1>4. WorkOf(1..3) \in [{1, 2} -> [1..3 -> Nat]] /\ WorkOf(1..2) \in [{1, 2} -> [1..2 -> Nat]]
  BY SMTT(40) DEF WorkOf
<1>5. Batches!LedgerAssumption
  BY <1>2, <1>3, <1>4 DEF Batches!LedgerAssumption
<1>6. Reruns!LedgerAssumption
  BY <1>2, <1>3, <1>4 DEF Reruns!LedgerAssumption
<1>7. Batches!Tasks!LoopAssumption
  <2>1. Batches!Tasks!Tasks[2] = "exporter" /\ Batches!Tasks!Tasks[3] = "hashrate" /\ {2, 3} \subseteq DOMAIN Batches!Tasks!Tasks
    BY SMTT(40) DEF Batches!Tasks!Tasks
  <2> QED
    BY <2>1 DEF Batches!Tasks!LoopAssumption
<1>8. Batches!Files!FilesAssumption
  BY SMTT(40) DEF Batches!Files!FilesAssumption
<1>9. Batches!IsFiniteSet({"u1", "u2"}) /\ Reruns!IsFiniteSet({"u1", "u2"})
  <2>1. {"u1", "u2"} = {"u1"} \cup {"u2"}
    OBVIOUS
  <2>2. Batches!IsFiniteSet({"u1"}) /\ Reruns!IsFiniteSet({"u1"})
    BY Batches!FS_Singleton, Reruns!FS_Singleton, ZenonT(60)
  <2>3. Batches!IsFiniteSet({"u1"} \cup {"u2"})
    BY ONLY <2>2, Batches!FS_AddElement, ZenonT(60)
  <2>4. Reruns!IsFiniteSet({"u1"} \cup {"u2"})
    BY ONLY <2>2, Reruns!FS_AddElement, ZenonT(60)
  <2> QED
    BY <2>1, <2>3, <2>4
<1>10. Batches!Book!IsFiniteSet({"u1", "u2"}) /\ Reruns!Book!IsFiniteSet({"u1", "u2"})
  BY <1>9, Batches!BookSizes, Reruns!BookSizes
<1>11. Batches!Book!BookAssumption
  BY <1>10 DEF Batches!Book!BookAssumption
<1>12. Reruns!Book!BookAssumption
  BY <1>10, SMTT(40) DEF Reruns!Book!BookAssumption
<1>13. Batches!Tap!TapAssumption /\ InPieces!Tap!TapAssumption /\ Reruns!Tap!TapAssumption
  BY SMTT(40) DEF Batches!Tap!TapAssumption, InPieces!Tap!TapAssumption, Reruns!Tap!TapAssumption
<1>14. Reruns!Exact
  BY SMTT(40) DEF Reruns!Exact
<1> QED
  BY <1>1, <1>5, <1>6, <1>7, <1>8, <1>11, <1>12, <1>13, <1>14

LEMMA InitParts == Init => PartsSound
<1> SUFFICES ASSUME Init PROVE PartsSound
  BY SMTT(40)
<1>1. part = "trail" => Trail!TrailInv
  BY InstancesAllowed, Trail!InitTrail DEF Init
<1>2. part = "batches" => Batches!LedgerInv
  BY InstancesAllowed, Batches!InitLedger DEF Init
<1>3. part = "reruns" => Reruns!LedgerInv
  BY InstancesAllowed, Reruns!InitLedger DEF Init
<1>4. part = "tasks" => Batches!LoopInv
  BY InstancesAllowed, Batches!InitLoop DEF Init
<1>5. part = "files" => Batches!FilesInv
  BY InstancesAllowed, Batches!InitFiles DEF Init
<1>6. part = "book" => Batches!BookInv
  BY InstancesAllowed, Batches!InitBook DEF Init
<1>7. part = "script" => Reruns!BookInv
  BY InstancesAllowed, Reruns!InitBook DEF Init
<1>8. part = "pairs" => Batches!TapInv
  BY InstancesAllowed, Batches!TapInit DEF Init
<1>9. part = "pieces" => InPieces!TapInv
  BY InstancesAllowed, InPieces!TapInit, SMTT(40) DEF Init
<1>10. part = "waiting" => Reruns!TapInv /\ Reruns!ExactInv
  BY InstancesAllowed, Reruns!TapInit, Reruns!ExactInit DEF Init
<1> QED
  BY <1>1, <1>2, <1>3, <1>4, <1>5, <1>6, <1>7, <1>8, <1>9, <1>10 DEF PartsSound

(* A step of the run is one of the part it is of, or leaves its variables  *)
(* alone.                                                                  *)
LEMMA StepOfPart ==
    ASSUME [Next]_vars
    PROVE  /\ part' = part
           /\ part = "trail"   => [Trail!Next]_(Trail!vars)
           /\ part = "batches" => [Batches!Next]_(Batches!vars)
           /\ part = "reruns"  => [Reruns!Next]_(Reruns!vars)
           /\ part = "tasks"   => [Batches!Tasks!Next]_(Batches!Tasks!vars)
           /\ part = "files"   => [Batches!Files!Next]_(Batches!Files!vars)
           /\ part = "book"    => [Batches!Book!Next]_(Batches!Book!vars)
           /\ part = "script"  => [Reruns!Book!Next]_(Reruns!Book!vars)
           /\ part = "pairs"   => [Batches!Tap!Next]_(Batches!Tap!vars)
           /\ part = "pieces"  => [InPieces!Tap!Next]_(InPieces!Tap!vars)
           /\ part = "waiting" => [Reruns!Tap!Next]_(Reruns!Tap!vars)
<1> USE DEF Next, TrailStep, BatchStep, RerunStep, TaskStep, FileStep, BookStep, ScriptStep, PairStep, PieceStep,
            WaitStep, Of, vars
<1>1. part' = part
  BY SMTT(40)
<1>2. part = "trail" => [Trail!Next]_(Trail!vars)
  BY SMTT(40) DEF Trail!vars, Trail!recVars, Trail!cleanVars, Trail!histVars
<1>3. part = "batches" => [Batches!Next]_(Batches!vars)
  BY SMTT(40) DEF Batches!vars, Batches!splitVars, Batches!payVars
<1>4. part = "reruns" => [Reruns!Next]_(Reruns!vars)
  BY SMTT(40) DEF Reruns!vars, Reruns!splitVars, Reruns!payVars
<1>5. part = "tasks" => [Batches!Tasks!Next]_(Batches!Tasks!vars)
  BY SMTT(40) DEF Batches!Tasks!vars
<1>6. part = "files" => [Batches!Files!Next]_(Batches!Files!vars)
  BY SMTT(40) DEF Batches!Files!vars
<1>7. part = "book" => [Batches!Book!Next]_(Batches!Book!vars)
  BY SMTT(40) DEF Batches!Book!vars
<1>8. part = "script" => [Reruns!Book!Next]_(Reruns!Book!vars)
  BY SMTT(40) DEF Reruns!Book!vars
<1>9. part = "pairs" => [Batches!Tap!Next]_(Batches!Tap!vars)
  BY SMTT(40) DEF Batches!Tap!vars
<1>10. part = "pieces" => [InPieces!Tap!Next]_(InPieces!Tap!vars)
  BY SMTT(40) DEF InPieces!Tap!vars
<1>11. part = "waiting" => [Reruns!Tap!Next]_(Reruns!Tap!vars)
  BY SMTT(40) DEF Reruns!Tap!vars
<1> QED
  BY <1>1, <1>2, <1>3, <1>4, <1>5, <1>6, <1>7, <1>8, <1>9, <1>10, <1>11

LEMMA NextParts ==
    ASSUME PartsSound, [Next]_vars
    PROVE  PartsSound'
<1>1. part = "trail" => Trail!TrailInv'
  BY StepOfPart, InstancesAllowed, Trail!NextTrail DEF PartsSound
<1>2. part = "batches" => Batches!LedgerInv'
  BY StepOfPart, InstancesAllowed, Batches!NextLedger DEF PartsSound
<1>3. part = "reruns" => Reruns!LedgerInv'
  BY StepOfPart, InstancesAllowed, Reruns!NextLedger DEF PartsSound
<1>4. part = "tasks" => Batches!LoopInv'
  BY StepOfPart, InstancesAllowed, Batches!NextLoop DEF PartsSound
<1>5. part = "files" => Batches!FilesInv'
  BY StepOfPart, InstancesAllowed, Batches!NextFiles DEF PartsSound
<1>6. part = "book" => Batches!BookInv'
  BY StepOfPart, InstancesAllowed, Batches!NextBook DEF PartsSound
<1>7. part = "script" => Reruns!BookInv'
  BY StepOfPart, InstancesAllowed, Reruns!NextBook DEF PartsSound
<1>8. part = "pairs" => Batches!TapInv'
  BY StepOfPart, InstancesAllowed, Batches!TapNext DEF PartsSound
<1>9. part = "pieces" => InPieces!TapInv'
  BY StepOfPart, InstancesAllowed, InPieces!TapNext DEF PartsSound
<1>10. part = "waiting" => Reruns!TapInv' /\ Reruns!ExactInv'
  BY StepOfPart, InstancesAllowed, Reruns!TapNext, Reruns!ExactNext DEF PartsSound
<1>11. part' = part
  BY StepOfPart, SMTT(40)
<1> QED
  BY <1>1, <1>2, <1>3, <1>4, <1>5, <1>6, <1>7, <1>8, <1>9, <1>10, <1>11 DEF PartsSound

(* Every part keeps its invariant.                                         *)
THEOREM PartsStaySound == Spec => []PartsSound
<1>1. PartsSound /\ [Next]_vars => PartsSound'
  BY NextParts, SMTT(40)
<1> QED
  BY <1>1, InitParts, PTL DEF Spec

(* The lists of shares stay in order, and a window that may still be split *)
(* has all its shares.                                                     *)
THEOREM TrailStaysKept == Spec => []TrailKept
<1>1. PartsSound => TrailKept
  BY InstancesAllowed, Trail!WindowKept DEF PartsSound, TrailKept, Trail!TrailInv
<1> QED
  BY <1>1, PartsStaySound, PTL

(* Between runs the balances are what was earned less what was paid.       *)
THEOREM BooksStayBalanced == Spec => []BooksBalance
<1>1. PartsSound => BooksBalance
  BY InstancesAllowed, Batches!BooksClose, Reruns!BooksClose
     DEF PartsSound, BooksBalance, Batches!LedgerInv, Batches!LedgerTypes,
         Reruns!LedgerInv, Reruns!LedgerTypes, Reruns!Covered
<1> QED
  BY <1>1, PartsStaySound, PTL

(* A run of the payer pays a wallet once, a block is not split for more    *)
(* than its worth.                                                         *)
THEOREM RunsPayOnce == Spec => []PaidOncePerRun
<1>1. PartsSound => PaidOncePerRun
  BY InstancesAllowed, Batches!RewardKept
     DEF PartsSound, PaidOncePerRun, Batches!LedgerInv, Reruns!LedgerInv
<1> QED
  BY <1>1, PartsStaySound, PTL

(* Only what is on the chain is booked.                                    *)
THEOREM OnlyPaidIsBooked == Spec => BookedOnlyWhenPaid
<1>1. PartsSound => /\ part = "batches" => Batches!BookedOnlyWhenPaid
                    /\ part = "reruns"  => Reruns!BookedOnlyWhenPaid
  BY Batches!BookingPaid, Reruns!BookingPaid
     DEF PartsSound, Batches!BookedOnlyWhenPaid, Reruns!BookedOnlyWhenPaid
<1> QED
  BY <1>1, PartsStaySound, PTL DEF BookedOnlyWhenPaid

(* The loop, the files and the estimates hold what a cycle needs.          *)
THEOREM CyclesAlwaysHold == Spec => []CyclesHold
<1>1. ASSUME PartsSound PROVE CyclesHold
  <2>1. part = "tasks" => Batches!Tasks!TypeOK /\ Batches!Tasks!FileNamesDaemon /\ Batches!Tasks!AllTurns
    BY <1>1, Batches!LoopTyped, SMTT(40) DEF PartsSound, Batches!LoopInv, Batches!LoopAt
  <2>2. part = "files" => /\ Batches!Files!TypeOK /\ Batches!Files!StatsFound
                          /\ Batches!Files!FilesBounded /\ Batches!Files!BrokenGo
    BY <1>1, InstancesAllowed, Batches!FilesFound DEF PartsSound
  <2>3. part = "book" => /\ Batches!Book!TypeOK /\ Batches!Book!SuperExact /\ Batches!Book!NobodyLeftOut
                         /\ Batches!Book!EstimatesDivide /\ Batches!Book!WindowsNest
    BY <1>1, InstancesAllowed, Batches!BookHolds DEF PartsSound
  <2>4. part = "script" => Reruns!Book!TypeOK /\ Reruns!Book!WindowsNest
    BY <1>1, InstancesAllowed, Reruns!BookHolds DEF PartsSound
  <2> QED
    BY <2>1, <2>2, <2>3, <2>4 DEF CyclesHold
<1> QED
  BY <1>1, PartsStaySound, PTL

(* A pass leaves nothing too old, cycles keep their distance, and a graph  *)
(* fails only beside the exporter.                                         *)
THEOREM PassesAlwaysHold == Spec => PassesHold
<1>1. ASSUME PartsSound, [Next]_vars
      PROVE  /\ part = "trail" => Trail!PassRemovesOld
             /\ part = "tasks" => Batches!Tasks!Paced
             /\ part = "files" => Batches!Files!GraphFailsBeside
  <2>1. part = "trail" => Trail!PassRemovesOld
    BY <1>1, StepOfPart, InstancesAllowed, Trail!PassesRemove DEF PartsSound
  <2>2. part = "tasks" => Batches!Tasks!Paced
    BY <1>1, StepOfPart, InstancesAllowed, Batches!LoopPaced DEF PartsSound
  <2>3. part = "files" => Batches!Files!GraphFailsBeside
    BY <1>1, Batches!GraphsFail DEF PartsSound
  <2> QED
    BY <2>1, <2>2, <2>3
<1> QED
  BY <1>1, PartsStaySound, PTL DEF Spec, PassesHold

(* The proxy records no share twice, and none that the pool did not take   *)
(* where miners wait for their answers.                                    *)
THEOREM SharesAlwaysCounted == Spec => []SharesCounted
<1>1. ASSUME PartsSound PROVE SharesCounted
  <2>1. part = "pairs" => /\ Batches!Tap!TypeOK /\ Batches!Tap!Paired
                          /\ Batches!Tap!DiesOnly /\ Batches!Tap!CreditedOnce
    BY <1>1, InstancesAllowed, Batches!TapHolds DEF PartsSound
  <2>2. part = "pieces" => InPieces!Tap!TypeOK /\ InPieces!Tap!DiesOnly /\ InPieces!Tap!CreditedOnce
    BY <1>1, InstancesAllowed, InPieces!TapHolds DEF PartsSound
  <2>3. part = "waiting" => Reruns!Tap!CreditedOnce /\ Reruns!Tap!CreditTrue
    BY <1>1, InstancesAllowed, Reruns!TapHolds, Reruns!ExactHolds DEF PartsSound
  <2> QED
    BY <2>1, <2>2, <2>3 DEF SharesCounted
<1> QED
  BY <1>1, PartsStaySound, PTL
=============================================================================
