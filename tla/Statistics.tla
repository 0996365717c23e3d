----------------------------- MODULE Statistics -----------------------------
(***************************************************************************)
(* The listeners that count: Stats, Workers with its Worker rows, and      *)
(* AccessLog.  Each keeps books of its own on what the bus tells of the    *)
(* miners; here the bus is the environment and the books are compared.     *)
(*                                                                         *)
(* A miner is out, in (connected), on (its login was accepted and a mapper *)
(* has it) or gone.  Its route is "main" or "own": a miner of              *)
(* donate-over-proxy that named its pool, whose mapper is DonateSplitter's.*)
(* The mapper of an answer whose miner has gone gives a null miner.        *)
(***************************************************************************)
EXTENDS Integers, Sequences, FiniteSets, SequencesExt

CONSTANTS Miners,
          OwnPool,      \* the miners that name a pool of their own
          Modes,        \* the ways to name a worker
          Name,         \* the name of a miner under a mode
          MaxShares,    \* bound of the shares that are answered or refused
          MaxReloads    \* bound of the changes of configuration

None == "none"

StatisticsAssumption ==
    /\ OwnPool \subseteq Miners /\ None \notin Modes
    /\ {MaxShares, MaxReloads} \subseteq Nat

VARIABLES miner,    \* phase and route of each miner
          mode,     \* m_mode of Workers; None is disabled
          customs,  \* isCustomDiffStats()
          workers,  \* m_workers; m_map is the place of a name in it
          index,    \* m_miners: the worker of each miner, 0 when absent
          stats,    \* StatsData
          lines,    \* what the access log holds of each miner
          missed,   \* accepted shares since the last reset() with no worker to credit
          since,    \* stats.accepted at the last reset()
          alive,    \* the process
          shares, reloads

vars == <<miner, mode, customs, workers, index, stats, lines, missed, since, alive, shares, reloads>>

Init == /\ miner = [m \in Miners |-> [phase |-> "out", route |-> "main"]]
        /\ mode \in Modes \union {None} /\ customs \in BOOLEAN
        /\ workers = <<>> /\ index = [m \in Miners |-> 0]
        /\ stats = [connections |-> 0, accepted |-> 0, rejected |-> 0, invalid |-> 0, donated |-> 0]
        /\ lines = [m \in Miners |-> [login |-> 0, close |-> 0]]
        /\ missed = 0 /\ since = 0 /\ alive = TRUE /\ shares = 0 /\ reloads = 0

Placed(m)   == miner[m].phase = "on"
OnMain(m)   == Placed(m) /\ miner[m].route = "main"
NewRow(n)   == [name |-> n, connections |-> 1, accepted |-> 0, rejected |-> 0, invalid |-> 0]

NameByMiner(w, m) == Name[w][m]

(* Workers::add(), on a book of rows and their index.                      *)
Added(b, m) ==
    LET n  == NameByMiner(b.mode, m)
        at == {i \in DOMAIN b.workers : b.workers[i].name = n}
        i  == CHOOSE k \in at : TRUE
    IN  IF at = {} THEN [b EXCEPT !.workers = Append(@, NewRow(n)), !.index[m] = Len(b.workers) + 1]
        ELSE [b EXCEPT !.workers[i].connections = @ + 1, !.index[m] = i]

Book == [mode |-> mode, workers |-> workers, index |-> index]
Keep(b) == workers' = b.workers /\ index' = b.index

(* indexByMiner(): 0 when the miner is not found.                          *)
Row(m) == IF Placed(m) /\ index[m] \in DOMAIN workers THEN index[m] ELSE 0

(* login() and remove() of Workers leave a miner alone that has a route.   *)
Joins(route) == route = "main"
MainOnly(m)  == miner[m].route = "main"

(* onEvent() and onRejectedEvent() of Workers: what an event makes of the  *)
(* rows, unless they are disabled.                                         *)
OnEvent(rows) == IF mode = None THEN workers ELSE rows

---------------------------------------------------------------------------
Others  == UNCHANGED <<mode, customs, since, reloads>>
Survive == UNCHANGED alive

Connect(m) == /\ miner[m].phase = "out"
              /\ miner' = [miner EXCEPT ![m].phase = "in"]
              /\ stats' = [stats EXCEPT !.connections = @ + 1]
              /\ UNCHANGED <<workers, index, lines, missed, shares>> /\ Others /\ Survive

AccessLine(m, accepted) == IF accepted THEN [lines EXCEPT ![m].login = @ + 1] ELSE lines

(* A login passes Login, DonateSplitter and the splitter; one that is      *)
(* refused reaches onRejectedEvent() of the others, which do nothing.      *)
Login(m) ==
    /\ miner[m].phase = "in"
    /\ \/ /\ miner' = [miner EXCEPT ![m].phase = "refused"]
          /\ lines' = AccessLine(m, FALSE)
          /\ UNCHANGED <<workers, index>>
       \/ \E route \in {"main"} \union (IF m \in OwnPool THEN {"own"} ELSE {}) :
              /\ miner' = [miner EXCEPT ![m] = [phase |-> "on", route |-> route]]
              /\ lines' = AccessLine(m, TRUE)
              /\ IF mode # None /\ Joins(route) THEN Keep(Added(Book, m))
                 ELSE UNCHANGED <<workers, index>>
    /\ UNCHANGED <<stats, missed, shares>> /\ Others /\ Survive

ClosedAny(m) == stats.connections - 1

(* CloseEvent: a miner without a mapper leaves no line.                    *)
Close(m) ==
    /\ miner[m].phase \in {"in", "refused", "on"}
    /\ miner' = [miner EXCEPT ![m].phase = "gone"]
    /\ stats' = [stats EXCEPT !.connections = ClosedAny(m)]
    /\ lines' = IF Placed(m) THEN [lines EXCEPT ![m].close = @ + 1] ELSE lines
    /\ workers' = OnEvent(IF MainOnly(m) /\ Row(m) # 0
                          THEN [workers EXCEPT ![Row(m)].connections = @ - 1] ELSE workers)
    /\ UNCHANGED <<index, missed, shares>> /\ Others /\ Survive

Counted == shares < MaxShares /\ shares' = shares + 1

(* A SubmitEvent that is rejected by the session or a mapper.              *)
Refused(m) ==
    /\ Placed(m) /\ Counted
    /\ stats' = [stats EXCEPT !.invalid = @ + 1]
    /\ workers' = OnEvent(IF MainOnly(m) /\ Row(m) # 0
                          THEN [workers EXCEPT ![Row(m)].invalid = @ + 1] ELSE workers)
    /\ UNCHANGED <<miner, index, lines, missed>> /\ Others /\ Survive

\* bug: a share that the pool refused is a share accepted
CreditAnyway(r, error) == IF r = 0 THEN workers ELSE [workers EXCEPT ![r].accepted = @ + 1]

(* Worker::add(), reject(): row 0 is no row.                               *)
Credit(r, error) == IF r = 0 THEN workers
                    ELSE IF error THEN [workers EXCEPT ![r].rejected = @ + 1]
                    ELSE [workers EXCEPT ![r].accepted = @ + 1]

(* Recorder::accept(), the last listener, reads the user of the miner of a *)
(* share that is accepted and not donated.  It is deadly without a miner.  *)
Accepts(left, donate) == donate \/ ~left

(* Its onEvent(), and its onRejectedEvent() that does nothing.             *)
Records(left, donate, error) == ~error => Accepts(left, donate)

(* An AcceptEvent of the pool: r is the worker it finds, 0 for a miner     *)
(* that has left (null).  Of a donated share Stats counts no error.        *)
Answered(r, donate, left) ==
    /\ Counted
    /\ \E error \in BOOLEAN :
           /\ stats' = CASE ~error            -> [stats EXCEPT !.accepted = @ + 1,
                                                     !.donated = @ + (IF donate THEN 1 ELSE 0)]
                         [] error /\ ~donate  -> [stats EXCEPT !.rejected = @ + 1]
                         [] OTHER             -> stats
           /\ workers' = OnEvent(Credit(r, error))
           /\ alive' = Records(left, donate, error)
           /\ missed' = IF ~error /\ (mode = None \/ r = 0) THEN missed + 1 ELSE missed
    /\ UNCHANGED <<miner, index, lines>> /\ Others

Answer(m)  == Placed(m) /\ \E donate \in BOOLEAN : /\ miner[m].route = "own" => donate
                                                 /\ Answered(Row(m), donate, FALSE)
LateAnswer == (\E m \in Miners : miner[m].phase = "gone" /\ lines[m].login > 0)
              /\ \E donate \in BOOLEAN : Answered(0, donate, TRUE)

(* A share of a miner's own difficulty: Stats adds to the hashrate only,   *)
(* a worker counts a share when the statistics are of those.               *)
CustomShare(m) ==
    /\ Placed(m) /\ Counted /\ customs /\ mode # None /\ Row(m) # 0
    /\ workers' = Credit(Row(m), FALSE)
    /\ missed' = missed - 1
    /\ UNCHANGED <<miner, index, stats, lines>> /\ Others /\ Survive

(* Workers::reset(): the miners with a mapper, by their id.                *)
Reset(w) ==
    LET clear == [mode |-> w, workers |-> <<>>, index |-> [m \in Miners |-> 0]] IN
    IF w = None THEN clear
    ELSE FoldSet(LAMBDA m, b : Added(b, m), clear, {m \in Miners : Placed(m)})

(* Workers::onConfigChanged().                                             *)
Reload == /\ reloads < MaxReloads /\ reloads' = reloads + 1
          /\ \E w \in Modes \union {None} :
                 \/ /\ w # mode /\ mode' = w /\ Keep(Reset(w))
                    /\ missed' = 0 /\ since' = stats.accepted /\ UNCHANGED customs
                 \/ w = mode /\ customs' = ~customs /\ UNCHANGED <<mode, workers, index, missed, since>>
          /\ UNCHANGED <<miner, stats, lines, shares, alive>>

Next == alive /\ ( \/ \E m \in Miners : \/ Connect(m) \/ Login(m) \/ Close(m)
                                        \/ Refused(m) \/ Answer(m) \/ CustomShare(m)
                  \/ LateAnswer \/ Reload )
Spec == Init /\ [][Next]_vars

---------------------------------------------------------------------------
Names == {Name[w][m] : w \in Modes, m \in Miners}

TypeOK ==
    /\ miner \in [Miners -> [phase: {"out", "in", "refused", "on", "gone"}, route: {"main", "own"}]]
    /\ mode \in Modes \union {None} /\ customs \in BOOLEAN
    /\ workers \in Seq([name: Names, connections: Nat, accepted: Nat, rejected: Nat, invalid: Nat])
    /\ index \in [Miners -> 0 .. Len(workers)]
    /\ stats \in [{"connections", "accepted", "rejected", "invalid", "donated"} -> Nat]
    /\ lines \in [Miners -> [login: 0 .. 1, close: 0 .. 1]]

(* A change of mode makes rows of all who have a mapper, also of those with*)
(* a route, whose end is then not seen: they stay in their row, whether    *)
(* they are still there or not, until the next change.                     *)
Stuck(m) == miner[m].route = "own" /\ index[m] # 0

(* A worker's row counts the sessions of its name that are open, however   *)
(* they came and went and whatever the name is made of since a reload, and *)
(* those that are stuck in it; there is one row a name, and the one of a   *)
(* miner bears its name.                                                   *)
ConnectionsExact ==
    mode # None =>
        /\ \A i \in DOMAIN workers : workers[i].connections =
               Cardinality({m \in Miners : (OnMain(m) \/ Stuck(m)) /\ Name[mode][m] = workers[i].name})
        /\ \A m \in Miners : OnMain(m) => Row(m) # 0 /\ workers[Row(m)].name = Name[mode][m]
        /\ \A i, j \in DOMAIN workers : workers[i].name = workers[j].name => i = j

AcceptedOf(rows) == FoldSeq(LAMBDA r, sum : r.accepted + sum, 0, rows)

(* The two books of accepted shares agree: what Stats has counted since    *)
(* the rows were made is in the rows, but for answers that come after      *)
(* their miner has left, and with the shares of own difficulty added.      *)
BooksAgree == mode # None => stats.accepted - since = AcceptedOf(workers) + missed

(* The access log tells of each session that a mapper had its beginning    *)
(* and its end, once each and in that order, and of no other.              *)
AccessPairs == \A m \in Miners :
    /\ lines[m].login = 1 <=> (Placed(m) \/ lines[m].close = 1)
    /\ miner[m].phase = "gone" => lines[m].close = lines[m].login

(* Stats counts the connections that are open.                             *)
ConnectionsOpen ==
    stats.connections = Cardinality({m \in Miners : miner[m].phase \in {"in", "refused", "on"}})
=============================================================================
