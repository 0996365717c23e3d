----------------------------- MODULE MCLiveness -----------------------------
(***************************************************************************)
(* What must happen in the end: that miners are served again, that who     *)
(* asks is told, that what is no longer needed goes, and that programs     *)
(* that are told to end do.  Under the fairness each module states, which  *)
(* is that the loop runs the callbacks that are due.                       *)
(*                                                                         *)
(* These parts share no state, so a run is of one part: part says of       *)
(* which, and v1, v2, .. are its variables, in the order its module        *)
(* declares them.  Zero from the first one that the part has no use for.   *)
(***************************************************************************)
EXTENDS Integers, Sequences

CONSTANTS Parts,
          NoFile  \* no value of a configuration

VARIABLES part, v1, v2, v3, v4, v5, v6, v7, v8, v9, v10, v11, v12, v13, v14, v15, v16
vars == <<part, v1, v2, v3, v4, v5, v6, v7, v8, v9, v10, v11, v12, v13, v14, v15, v16>>

Rest15 == <<v15, v16>>
Zero15 == v15 = 0 /\ v16 = 0
Rest14 == <<v14, Rest15>>
Zero14 == v14 = 0 /\ Zero15
Rest13 == <<v13, Rest14>>
Zero13 == v13 = 0 /\ Zero14
Rest10 == <<v10, v11, v12, Rest13>>
Zero10 == v10 = 0 /\ v11 = 0 /\ v12 = 0 /\ Zero13
Rest9  == <<v9, Rest10>>
Zero9  == v9 = 0 /\ Zero10
Rest8  == <<v8, Rest9>>
Zero8  == v8 = 0 /\ Zero9
Rest7  == <<v7, Rest8>>
Zero7  == v7 = 0 /\ Zero8
Rest6  == <<v6, Rest7>>
Zero6  == v6 = 0 /\ Zero7
Rest5  == <<v5, Rest6>>
Zero5  == v5 = 0 /\ Zero6
Rest4  == <<v4, Rest5>>
Zero4  == v4 = 0 /\ Zero5
Rest3  == <<v3, Rest4>>
Zero3  == v3 = 0 /\ Zero4
Rest2  == <<v2, Rest3>>
Zero2  == v2 = 0 /\ Zero3

---------------------------------------------------------------------------
(* Two upstreams of one slot and three miners.                             *)
Upstreams == INSTANCE NonceSplitter WITH
    NumSlots <- 1, MinerIds <- {1, 2, 3}, MaxUps <- 2, MaxLogins <- 1, Sessions <- {1},
    MaxJobs <- 1, MaxReqs <- 0, MaxReloads <- 1,
    num <- v1, storage <- v2, suspended <- v3, link <- v4, pending <- v5, results <- v6, phase
    <- v7, mapperId <- v8, fixedByte <- v9, inflight <- v10, logins <- v11, issued <- v12,
    reloads <- v13, given <- v14, reqs <- v15, answers <- v16

(* A client of a pool over TLS.                                            *)
Dial == INSTANCE StratumClient WITH
    Handles <- {1, 2}, JobIds <- {1, 2}, MaxSeq <- 2, MaxFails <- 2, Index <- 0,
    Proxy <- FALSE, TLS <- TRUE, KeepAlive <- TRUE, PoolReconnects <- TRUE,
    c <- v1, strayed <- v2

(* Three pools, the first of which becomes steady; two, of which the       *)
(* backup does.                                                            *)
First == INSTANCE PoolStrategy WITH
    NumPools <- 3, Retries <- 2, MaxFails <- 2, Steady <- {0}, MayStop <- FALSE,
    LateLogins <- FALSE, PoolReconnects <- TRUE,
    links <- v1, index <- v2, active <- v3, told <- v4, wanted <- v5, twice <- v6, calm <- v7

Backup == INSTANCE PoolStrategy WITH
    NumPools <- 2, Retries <- 2, MaxFails <- 2, Steady <- {1}, MayStop <- FALSE,
    LateLogins <- FALSE, PoolReconnects <- TRUE,
    links <- v1, index <- v2, active <- v3, told <- v4, wanted <- v5, twice <- v6, calm <- v7

(* A session of three requests.                                            *)
Session == INSTANCE MinerSession WITH
    MaxRequests <- 3, TlsPort <- TRUE, Strict <- FALSE, Password <- TRUE,
    Skew <- 0, LoginTimeout <- 2, SocketTimeout <- 3, MaxSilent <- 5,
    s <- v1

(* A daemon that is polled, and one with a feed.                           *)
Poll == INSTANCE DaemonClient WITH
    MaxTip <- 3, MaxFailures <- 1, Room <- 2, Faults <- 1, Silences <- 0, Submits <- 0, Stops <- 0,
    Zmq <- FALSE, HasHash <- FALSE,
    c <- v1, tip <- v2, left <- v3

Feed == INSTANCE DaemonClient WITH
    MaxTip <- 2, MaxFailures <- 1, Room <- 2, Faults <- 1, Silences <- 0, Submits <- 0, Stops <- 0,
    Zmq <- TRUE, HasHash <- TRUE,
    c <- v1, tip <- v2, left <- v3

(* Two jobs of a pool that wants the templates of our own node.            *)
OwnNode == INSTANCE SelfSelect WITH
    MaxJobs <- 2, Retries <- 1, MaxOld <- 1, Faults <- 3, Silences <- 0, Shares <- 1,
    Origin <- TRUE,
    s <- v1, left <- v2

(* Two exchanges; a host may not be found, and the API's server may go.    *)
Http == INSTANCE HttpExchange WITH
    Ids <- {1, 2}, Rebinds <- 1, DnsFails <- TRUE, Peers <- {"plain", "trusted", "wrong"},
    ctx <- v1, owners <- v2, rebinds <- v3, touched <- v4

(* Two listeners.                                                          *)
Dns == INSTANCE Resolver WITH
    Listeners <- {"l1", "l2"}, TTL <- 2, MaxAsks <- 2, Depth <- 2,
    b <- v1, loops <- v2, holds <- v3, asks <- v4, seen <- v5, lost <- v6, broken <- v7

(* Two miners and a donation pool.                                         *)
Route == INSTANCE DonateRoute WITH
    Miners <- {"a", "b"}, Requests <- {"r"},
    up <- v1, over <- v2, miner <- v3, owner <- v4, mapperId <- v5, mappers <- v6, seq <- v7, of
    <- v8, active <- v9, client <- v10, heard <- v11, pending <- v12, sent <- v13, replies <-
    v14

(* Files that differ in what a reload compares, and one that cannot be     *)
(* used.                                                                   *)
Few == [ok : {TRUE}, watch : BOOLEAN, http : {1}, set : {1, 2}, extra : {0}, dns : {1}]
       \cup [ok : {FALSE}, watch : {TRUE}, http : {0}, set : {1}, extra : {0}, dns : {2}]

Reload == INSTANCE ConfigReload WITH
    Configs <- Few, Ports <- {1, 2}, NoFile <- NoFile, Atomic <- TRUE, Quiet <- TRUE,
    MaxEdits <- 2, MaxPuts <- 2, PortFree <- TRUE,
    file <- v1, conf <- v2, dns <- v3, watcher <- v4, httpd <- v5, bound <- v6, taken <- v7,
    touched <- v8, edit <- v9, put <- v10, edits <- v11, puts <- v12

(* Configurations of two tokens, one that cannot be used; who changes them *)
(* and who only asks.                                                      *)
Access(token, usable) ==
    [restricted |-> FALSE, token |-> token, watch |-> TRUE, usable |-> usable, n |-> 0]
Accesses == {Access("t1", TRUE), Access("t2", TRUE), Access("t1", FALSE)}
Asked == [method : {"PUT"}, path : {"config"}, auth : {"t1", "t2"}, json : {TRUE}, alive : BOOLEAN,
          body : {"config"}, config : Accesses]

Api == INSTANCE ApiAccess WITH
    Configs <- Accesses, NoToken <- "empty", Tokens <- {"t1", "t2"}, SaveFails <- TRUE,
    Requests <- Asked,
    conf <- v1, file <- v2, watcher <- v3, last <- v4

(* Two threads that print a line each.                                     *)
Log == INSTANCE LogFile WITH
    Threads <- {"loop", "worker"}, MaxPrints <- 1, MaxSize <- 2, MaxRuns <- 1, Fails <- 1,
    log <- v1, run <- v2, printed <- v3, buffers <- v4, lock <- v5, next <- v6, upto <- v7,
    woken <- v8, requests <- v9, pos <- v10, file <- v11, lost <- v12, fails <- v13

Printed == [by : {"loop", "worker"}, run : {1}, n : {1}, size : {1, 2}]

(* A miner, and the parts that every build has.                            *)
Life == INSTANCE AppLife WITH
    Miners <- {"a"},
    Parts <- {"signals", "access", "server", "proxyTimer", "minersTimer", "poolTimer"},
    phase <- v1, handles <- v2, miners <- v3, stored <- v4, pool <- v5, daemon <- v6, freed <-
    v7, alive <- v8

(* An interval of six ticks.                                               *)
Tasks == INSTANCE TaskLoop WITH
    Enabled <- {"exporter", "hashrate"}, Interval <- 6, Grace <- 1, MaxTask <- 8,
    pc <- v1, at <- v2, running <- v3, since <- v4, left <- v5, pidFile <- v6, script <- v7,
    waited <- v8, needs <- v9, splits <- v10, ran <- v11, killed <- v12

(* Two users; by the daemon and by the script.                             *)
Book == INSTANCE HashrateBook WITH
    Users <- {"u1", "u2"}, Buckets <- {1, 2}, Window <- 1, Keep <- 1, Diffs <- {3}, Rewards <- {7},
    Script <- FALSE, MaxTime <- 2, MaxShares <- 1, MaxFails <- 1,
    now <- v1, shares <- v2, rate <- v3, super <- v4, pass <- v5, fails <- v6

ByScript == INSTANCE HashrateBook WITH
    Users <- {"u1", "u2"}, Buckets <- {1, 2}, Window <- 1, Keep <- 1, Diffs <- {3}, Rewards <- {7},
    Script <- TRUE, MaxTime <- 2, MaxShares <- 1, MaxFails <- 1,
    now <- v1, shares <- v2, rate <- v3, super <- v4, pass <- v5, fails <- v6

(* One miner, whose messages come in pieces.                               *)
Tap == INSTANCE StratumTap WITH
    Miners <- {"a"}, MaxSubmits <- 2, LastJob <- 1, Answers <- {"ok", "refused", "error"},
    Pieces <- TRUE, Waits <- FALSE, Hellos <- FALSE, Resets <- FALSE,
    Oddities <- FALSE, StoreFails <- TRUE, MaxSockets <- 3,
    link <- v1, list <- v2, ready <- v3, user <- v4, inbox <- v5, pool <- v6, peer <- v7, credit
    <- v8, death <- v9

PartsAssumption ==
    Parts \subseteq {"splitter", "dial", "first", "backup", "session", "poll", "feed",
                      "node", "http", "dns", "route", "reload", "api", "log", "life", "tasks",
                      "book", "script", "tap"}
ASSUME PartsAssumption

---------------------------------------------------------------------------
Init == /\ part \in Parts
        /\ \/ part = "splitter" /\ Upstreams!Init
           \/ part = "dial"     /\ Dial!Init      /\ Zero3
           \/ part = "first"    /\ First!Init     /\ Zero8
           \/ part = "backup"   /\ Backup!Init    /\ Zero8
           \/ part = "session"  /\ Session!Init   /\ Zero2
           \/ part = "poll"     /\ Poll!Init      /\ Zero4
           \/ part = "feed"     /\ Feed!Init      /\ Zero4
           \/ part = "node"     /\ OwnNode!Init   /\ Zero3
           \/ part = "http"     /\ Http!Init      /\ Zero5
           \/ part = "dns"      /\ Dns!Init       /\ Zero8
           \/ part = "route"    /\ Route!Init     /\ Zero15
           \/ part = "reload"   /\ Reload!Init    /\ Zero13
           \/ part = "api"      /\ Api!Init       /\ Zero5
           \/ part = "log"      /\ Log!Init       /\ Zero14
           \/ part = "life"     /\ Life!Init      /\ ~v6 /\ Zero9
           \/ part = "tasks"    /\ Tasks!Init     /\ Zero13
           \/ part = "book"     /\ Book!Init      /\ Zero7
           \/ part = "script"   /\ ByScript!Init  /\ Zero7
           \/ part = "tap"      /\ Tap!Init       /\ Zero10

Of(p) == part = p /\ UNCHANGED part

SplitterStep == Of("splitter") /\ Upstreams!Next
DialStep     == Of("dial")     /\ Dial!Next      /\ UNCHANGED Rest3
FirstStep    == Of("first")    /\ First!Next     /\ UNCHANGED Rest8
BackupStep   == Of("backup")   /\ Backup!Next    /\ UNCHANGED Rest8
SessionStep  == Of("session")  /\ Session!Next   /\ UNCHANGED Rest2
PollStep     == Of("poll")     /\ Poll!Next      /\ UNCHANGED Rest4
FeedStep     == Of("feed")     /\ Feed!Next      /\ UNCHANGED Rest4
NodeStep     == Of("node")     /\ OwnNode!Next   /\ UNCHANGED Rest3
HttpStep     == Of("http")     /\ Http!Next      /\ UNCHANGED Rest5
DnsStep      == Of("dns")      /\ Dns!Next       /\ UNCHANGED Rest8
RouteStep    == Of("route")    /\ Route!Next     /\ UNCHANGED Rest15
ReloadStep   == Of("reload")   /\ Reload!Next    /\ UNCHANGED Rest13
ApiStep      == Of("api")      /\ Api!Next       /\ UNCHANGED Rest5
LogStep      == Of("log")      /\ Log!Next       /\ UNCHANGED Rest14
LifeStep     == Of("life")     /\ Life!Next      /\ UNCHANGED Rest9
TasksStep    == Of("tasks")    /\ Tasks!Next     /\ UNCHANGED Rest13
BookStep     == Of("book")     /\ Book!Next      /\ UNCHANGED Rest7
ScriptStep   == Of("script")   /\ ByScript!Next  /\ UNCHANGED Rest7
TapStep      == Of("tap")      /\ Tap!Next       /\ UNCHANGED Rest10

Next == \/ SplitterStep \/ DialStep \/ FirstStep \/ BackupStep \/ SessionStep \/ PollStep
        \/ FeedStep \/ NodeStep \/ HttpStep \/ DnsStep \/ RouteStep \/ ReloadStep \/ ApiStep
        \/ LogStep \/ LifeStep \/ TasksStep \/ BookStep \/ ScriptStep \/ TapStep

On(p, A) == part = p /\ A

Fairness ==
    /\ WF_(Upstreams!vars)(On("splitter", Upstreams!GC))
    /\ \A m \in {1, 2, 3} : WF_(Upstreams!vars)(On("splitter", Upstreams!Closed(m)))
    /\ WF_(Dial!vars)(On("dial", Dial!Tick)) /\ WF_(Dial!vars)(On("dial", Dial!DnsAnswers))
    /\ \A h \in {1, 2} : WF_(Dial!vars)(On("dial", Dial!CloseDone(h)))
    /\ \A i \in 0..2 : /\ WF_(First!vars)(On("first", First!Client(First!Going(i))))
                       /\ WF_(First!vars)(On("first", First!Client(First!Tried(i))))
    /\ \A i \in 0..1 : /\ WF_(Backup!vars)(On("backup", Backup!Client(Backup!Going(i))))
                       /\ WF_(Backup!vars)(On("backup", Backup!Client(Backup!Tried(i))))
    /\ WF_v1(On("session", Session!ShutDone)) /\ WF_v1(On("session", Session!HandleClosed))
    /\ WF_(Poll!vars)(On("poll", Poll!Runs(Poll!OnTimer))) /\ WF_(Poll!vars)(On("poll", Poll!Runs(Poll!JobTimeout)))
    /\ WF_(Poll!vars)(On("poll", Poll!Runs(Poll!Resolved))) /\ WF_(Poll!vars)(On("poll", Poll!Runs(Poll!Dialled)))
    /\ WF_(Poll!vars)(On("poll", Poll!Runs(Poll!Handshake))) /\ WF_(Poll!vars)(On("poll", Poll!Runs(Poll!ZMQClosed)))
    /\ \A kind \in Poll!Kinds : WF_(Poll!vars)(On("poll", Poll!Runs(Poll!Handle(kind))))
    /\ \A m \in Poll!Msgs : WF_(Poll!vars)(On("poll", Poll!Runs(Poll!HttpData(m))))
    /\ WF_(Feed!vars)(On("feed", Feed!Runs(Feed!OnTimer))) /\ WF_(Feed!vars)(On("feed", Feed!Runs(Feed!JobTimeout)))
    /\ WF_(Feed!vars)(On("feed", Feed!Runs(Feed!Resolved))) /\ WF_(Feed!vars)(On("feed", Feed!Runs(Feed!Dialled)))
    /\ WF_(Feed!vars)(On("feed", Feed!Runs(Feed!Handshake))) /\ WF_(Feed!vars)(On("feed", Feed!Runs(Feed!ZMQClosed)))
    /\ \A kind \in Feed!Kinds : WF_(Feed!vars)(On("feed", Feed!Runs(Feed!Handle(kind))))
    /\ \A m \in Feed!Msgs : WF_(Feed!vars)(On("feed", Feed!Runs(Feed!HttpData(m))))
    /\ WF_(OwnNode!vars)(On("node", OwnNode!OldIgnored))
    /\ WF_(OwnNode!vars)(On("node", OwnNode!Template))
    /\ WF_(OwnNode!vars)(On("node", OwnNode!BlockAnswer))
    /\ WF_(OwnNode!vars)(On("node", OwnNode!Offered)) /\ WF_(OwnNode!vars)(On("node", OwnNode!Tick))
    /\ \A i \in {1, 2} : /\ WF_(Http!vars)(On("http", Http!OnResolved(i)))
                         /\ WF_(Http!vars)(On("http", Http!OnConnect(i)))
                         /\ WF_(Http!vars)(On("http", Http!Free(i)))
                         /\ WF_(Http!vars)(On("http", Http!OnEnd(i) /\ v1[i].stored))
                         /\ WF_(Http!vars)(On("http", Http!Written(i)))
                         /\ WF_(Http!vars)(On("http", Http!PeerGone(i)))
    /\ WF_(Dns!vars)(On("dns", Dns!LookedUp)) /\ WF_(Dns!vars)(On("dns", Dns!Told))
    /\ WF_(Dns!vars)(On("dns", Dns!ToldAll)) /\ WF_(Dns!vars)(On("dns", Dns!GoesOn))
    /\ \A m \in {"a", "b"} : WF_(Route!vars)(On("route", Route!MinerClosed(m)))
    /\ \A i \in {0, 1} : /\ WF_(Route!vars)(On("route", Route!Resolved(i)))
                         /\ WF_(Route!vars)(On("route", Route!ClientClosed(i)))
                         /\ WF_(Route!vars)(On("route", Route!Connected(i) \/ Route!ClientCloses(i)))
                         /\ WF_(Route!vars)(On("route", Route!Answer(i, "r") \/ Route!ClientCloses(i)))
    /\ WF_(Reload!vars)(On("reload", Reload!OnFsEvent))
    /\ WF_(Reload!vars)(On("reload", Reload!OnFileChanged))
    /\ WF_(Reload!vars)(On("reload", Reload!Restart))
    /\ WF_(Api!vars)(On("api", Api!OnFileChanged))
    /\ WF_(Log!vars)(On("log", Log!FlushBegin)) /\ WF_(Log!vars)(On("log", Log!FlushOne))
    /\ WF_(Log!vars)(On("log", Log!FlushEnd)) /\ WF_(Log!vars)(On("log", Log!WriteDone))
    /\ WF_(Life!vars)(On("life", Life!Resolved)) /\ WF_(Life!vars)(On("life", Life!PoolClosed))
    /\ WF_(Life!vars)(On("life", Life!LoopEnds))
    /\ \A m \in {"a"} : /\ WF_(Life!vars)(On("life", Life!ShutDone(m)))
                        /\ WF_(Life!vars)(On("life", Life!MinerClosed(m)))
    /\ \A p \in Life!AllParts : WF_(Life!vars)(On("life", Life!HandleClosed(p)))
    /\ WF_(Tasks!vars)(On("tasks", Tasks!Task)) /\ WF_(Tasks!vars)(On("tasks", Tasks!CycleEnds))
    /\ WF_(Tasks!vars)(On("tasks", Tasks!Wakes)) /\ WF_(Tasks!vars)(On("tasks", Tasks!Stopped))
    /\ WF_(Tasks!vars)(On("tasks", Tasks!Kill)) /\ WF_(Tasks!vars)(On("tasks", Tasks!Tick))
    /\ WF_(Book!vars)(On("book", Book!Steps))
    /\ WF_(ByScript!vars)(On("script", ByScript!Steps))
    /\ WF_(Tap!vars)(On("tap", Tap!Loop))

FairSpec == Init /\ [][Next]_vars /\ Fairness

---------------------------------------------------------------------------
(* Most of what must happen is stated as []<>P of its part, since what is   *)
(* waited for ends the wait.                                               *)

(* Miners are served in the end: an upstream without miners goes, a client *)
(* that shall connect never gets stuck, the first pool is returned to and  *)
(* a backup that answers is found, the chain of pools never gives up; the  *)
(* job follows the tip of the chain, and the newest one is handed on.  Not *)
(* so of a client that began an attempt beside a socket, nor of a daemon's *)
(* feed whose socket was closed twice or deleted beside libuv.             *)
ServedInTheEnd ==
    /\ <>[](part = "splitter" /\ Upstreams!NobodyConnected)
           => <>[](part = "splitter" => Upstreams!OneUpstream)
    /\ []<>(part = "dial" => Dial!NotStuck)
    /\ []<>(part = "first" => First!ByFirst) /\ [](part = "first" => First!ChainAlive)
    /\ [](part = "first" => First!UpLeftAlone)
    /\ []<>(part = "backup" => Backup!Served)
    /\ []<>(part = "poll" => Poll!AtTip) /\ [](part = "poll" => Poll!KeepsTrying)
    /\ []<>(part = "feed" => Feed!AtTip)
    /\ <>[](part = "node" => OwnNode!NewestHanded)

(* What was asked is told and what is closed goes: a session that closes   *)
(* is deleted; a request is answered or failed to its owner and reclaimed, *)
(* unless its host was not found (the owner never hears, the context stays *)
(* until the API goes) or the API went (the owner never hears); a lookup   *)
(* tells everyone but whom a refused one forgot, and unless a loop goes on *)
(* over a queue that was cleared; a share on a route is answered or its    *)
(* miner gone, and the route ends with its pool.                           *)
SettledInTheEnd ==
    /\ []<>(part = "session" => Session!NotClosing)
    /\ \A i \in {1, 2} : /\ []<>(part = "http" => Http!OwnerTold(i))
                         /\ []<>(part = "http" => Http!Reclaimed(i))
    /\ \A l \in {"l1", "l2"} : []<>(part = "dns" => Dns!ListenerTold(l))
    /\ \A m \in {"a", "b"} : /\ []<>(part = "route" => Route!ShareSettled(m, "r"))
                             /\ []<>(part = "route" => Route!ClientEnded(m))
    /\ \A i \in {0, 1} : []<>(part = "route" => Route!RouteEnded(i))

(* A change of the file, or by a PUT, comes into use; a line is written; a *)
(* program that is told to end ends, and a daemon that is not never leaves *)
(* out a task; users come and go in the book of the hashrates; and what a  *)
(* miner sends is sent on.                                                 *)
DoneInTheEnd ==
    /\ []<>(part = "reload" => Reload!EditApplied) /\ []<>(part = "reload" => Reload!PutApplied)
    /\ []<>(part = "api" => Api!FileInUse)
    /\ \A l \in Printed : []<>(part = "log" => Log!Settled(l))
    /\ []<>(part = "life" => Life!Ended)
    /\ []<>(part = "tasks" => Tasks!ScriptDone) /\ []<>(part = "tasks" => Tasks!Obeyed)
    /\ \A t \in {"exporter", "hashrate"} : []<>(part = "tasks" => Tasks!HadTurn(t))
    /\ \A u \in {"u1", "u2"} : /\ []<>(part = "book" => Book!Gone(u))
                               /\ []<>(part = "book" => Book!Shown(u))
                               /\ []<>(part = "script" => ByScript!Gone(u))
                               /\ []<>(part = "script" => ByScript!Shown(u))
    /\ []<>(part = "tap" => Tap!SentOn("a"))
=============================================================================
