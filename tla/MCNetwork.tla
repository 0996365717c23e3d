----------------------------- MODULE MCNetwork -----------------------------
(***************************************************************************)
(* Small instances of what talks: the clients of pools and daemons and the *)
(* strategies that hold them, the sessions of miners and the splitters     *)
(* between both, the donations, and the transport below.                   *)
(*                                                                         *)
(* These parts share no state, so a run is of one part: part says of       *)
(* which, and v1, v2, .. are its variables, in the order its module        *)
(* declares them.  Zero from the first one that the part has no use for.   *)
(***************************************************************************)
EXTENDS Integers, Sequences, FiniteSetTheorems, TLAPS

CONSTANT Parts

VARIABLES part, v1, v2, v3, v4, v5, v6, v7, v8, v9, v10, v11, v12, v13, v14
vars == <<part, v1, v2, v3, v4, v5, v6, v7, v8, v9, v10, v11, v12, v13, v14>>

Rest9 == <<v9, v10, v11, v12, v13, v14>>
Zero9 == v9 = 0 /\ v10 = 0 /\ v11 = 0 /\ v12 = 0 /\ v13 = 0 /\ v14 = 0
Rest8 == <<v8, Rest9>>
Zero8 == v8 = 0 /\ Zero9
Rest7 == <<v7, Rest8>>
Zero7 == v7 = 0 /\ Zero8
Rest6 == <<v6, Rest7>>
Zero6 == v6 = 0 /\ Zero7
Rest5 == <<v5, Rest6>>
Zero5 == v5 = 0 /\ Zero6
Rest4 == <<v4, Rest5>>
Zero4 == v4 = 0 /\ Zero5
Rest3 == <<v3, Rest4>>
Zero3 == v3 = 0 /\ Zero4
Rest2 == <<v2, Rest3>>
Zero2 == v2 = 0 /\ Zero3

---------------------------------------------------------------------------
(* What ComponentProofs is about.  A client behind a SOCKS5 proxy and TLS, *)
(* with two handles, so that a second socket shows, of a pool that may     *)
(* redirect it.  Three pools, the middle one a backup that has a backup.   *)
(* Three miners on at most two upstreams.  Donations of two ticks in a     *)
(* period of three, with a donation pool that fails and an upstream that   *)
(* sleeps.  Two miners that pass their shares on to the donation pool, two *)
(* shares each.                                                            *)
(*                                                                         *)
(* Three jobs of a pool that wants our node's templates: one handed out,   *)
(* one on offer and one that replaces it.  A daemon that is polled, three  *)
(* tips, so that a template of an old one can arrive after one of a newer  *)
(* and be the last.  Two exchanges, over TLS or not, and a server that is  *)
(* made anew twice.  Three listeners of a lookup: one asks while another is*)
(* told and a third waits.  A buffer of three bytes and a stream of ten.   *)
(* The nonce table has a run of its own and is not used here.              *)
Net == INSTANCE ComponentProofs WITH
    Handles <- {1, 2}, JobIds <- {1, 2}, MaxSeq <- 3, MaxFails <- 2, Index <- 1,
    Proxy <- TRUE, TLS <- TRUE, KeepAlive <- TRUE, PoolReconnects <- TRUE,
    c <- v1, strayed <- v2,
    NumPools <- 3, Retries <- 2, Steady <- {}, MayStop <- TRUE, LateLogins <- TRUE,
    links <- v1, index <- v2, active <- v3, told <- v4, wanted <- v5, twice <- v6, calm <- v7,
    Miners <- {"a", "b", "c"}, MaxMappers <- 2, Timeouts <- {0, 1},
    up <- v1, upstreams <- v2, idles <- v3, released <- v4, timeout <- v5, at <- v6, shares <- v7, answered <- v8,
    NewJobs <- 3, Level <- 2, Period <- 3, MaxTicks <- 3, DonateFails <- TRUE, Sleeps <- TRUE, Reloads <- TRUE,
    u <- v1,
    Guests <- {"a", "b"}, Requests <- {"r1", "r2"},
    running <- v1, over <- v2, miner <- v3, owner <- v4, mapperId <- v5, mappers <- v6, seq <- v7, of <- v8,
    usable <- v9, client <- v10, heard <- v11, pending <- v12, sent <- v13, replies <- v14,
    PoolJobs <- 3, Pauses <- 1, MaxOld <- 2, Refusals <- 5, Silent <- 1, MaxShares <- 2, Origin <- TRUE,
    own <- v1, spare <- v2,
    Ids <- {1, 2}, Rebinds <- 2, DnsFails <- TRUE, Peers <- {"plain", "trusted", "wrong"},
    ctx <- v1, owners <- v2, rebinds <- v3, touched <- v4,
    Newest <- 3, MostFails <- 2, Places <- 2, Troubles <- 1, Unheard <- 1, MaxBlocks <- 1, Halts <- 1,
    Zmq <- FALSE, HasHash <- TRUE,
    daemon <- v1, chain <- v2, budget <- v3,
    Listeners <- {"l1", "l2", "l3"}, TTL <- 2, MaxAsks <- 2, Depth <- 3,
    lookup <- v1, rounds <- v2, kept <- v3, tries <- v4, known <- v5, forgotten <- v6, torn <- v7,
    Wires <- {"c1"}, Cap <- 3, Init0 <- 1, MaxBytes <- 10,
    readers <- v1, received <- v2, newlines <- v3, wired <- v4, allocs <- v5, spares <- v6,
    NumSlots <- 1, MinerIds <- {1}, Sessions <- {1}, MaxJobs <- 1,
    storage <- v1, fixedByte <- v2, issued <- v3, given <- v4

(* One pool; donations that nothing fails; a daemon with a feed; three     *)
(* exchanges without TLS; three connections and a pool of two chunks.      *)
Net1 == INSTANCE ComponentProofs WITH
    Handles <- {1, 2}, JobIds <- {1, 2}, MaxSeq <- 3, MaxFails <- 5, Index <- 1,
    Proxy <- TRUE, TLS <- TRUE, KeepAlive <- TRUE, PoolReconnects <- TRUE,
    c <- v1, strayed <- v2,
    NumPools <- 1, Retries <- 5, Steady <- {}, MayStop <- TRUE, LateLogins <- TRUE,
    links <- v1, index <- v2, active <- v3, told <- v4, wanted <- v5, twice <- v6, calm <- v7,
    Miners <- {"a", "b", "c"}, MaxMappers <- 2, Timeouts <- {0, 1},
    up <- v1, upstreams <- v2, idles <- v3, released <- v4, timeout <- v5, at <- v6, shares <- v7, answered <- v8,
    NewJobs <- 3, Level <- 2, Period <- 3, MaxTicks <- 3, DonateFails <- FALSE, Sleeps <- FALSE, Reloads <- TRUE,
    u <- v1,
    Guests <- {"a", "b"}, Requests <- {"r1", "r2"},
    running <- v1, over <- v2, miner <- v3, owner <- v4, mapperId <- v5, mappers <- v6, seq <- v7, of <- v8,
    usable <- v9, client <- v10, heard <- v11, pending <- v12, sent <- v13, replies <- v14,
    PoolJobs <- 3, Pauses <- 1, MaxOld <- 2, Refusals <- 5, Silent <- 1, MaxShares <- 2, Origin <- TRUE,
    own <- v1, spare <- v2,
    Ids <- {1, 2, 3}, Rebinds <- 2, DnsFails <- TRUE, Peers <- {"plain"},
    ctx <- v1, owners <- v2, rebinds <- v3, touched <- v4,
    Newest <- 2, MostFails <- 2, Places <- 2, Troubles <- 2, Unheard <- 0, MaxBlocks <- 0, Halts <- 1,
    Zmq <- TRUE, HasHash <- TRUE,
    daemon <- v1, chain <- v2, budget <- v3,
    Listeners <- {"l1", "l2", "l3"}, TTL <- 2, MaxAsks <- 2, Depth <- 3,
    lookup <- v1, rounds <- v2, kept <- v3, tries <- v4, known <- v5, forgotten <- v6, torn <- v7,
    Wires <- {"c1", "c2", "c3"}, Cap <- 2, Init0 <- 2, MaxBytes <- 3,
    readers <- v1, received <- v2, newlines <- v3, wired <- v4, allocs <- v5, spares <- v6,
    NumSlots <- 1, MinerIds <- {1}, Sessions <- {1}, MaxJobs <- 1,
    storage <- v1, fixedByte <- v2, issued <- v3, given <- v4

(* A session of four requests; timeouts of two and three ticks, and a wall *)
(* clock that is two ticks ahead.                                          *)
Session == INSTANCE MinerSession WITH
    MaxRequests <- 4, TlsPort <- TRUE, Strict <- FALSE, Password <- TRUE,
    Skew <- 2, LoginTimeout <- 2, SocketTimeout <- 3, MaxSilent <- 7,
    s <- v1

(* Three miners and two jobs; two miners and three jobs, so that a share   *)
(* crosses a job while a miner comes, leaves and is followed.              *)
Extra == INSTANCE ExtraNonce WITH
    MinerIds <- {1, 2, 3}, MaxJobs <- 2, MaxShares <- 1, Kinds <- {"daemon"},
    storage <- v1, pool <- v2, has <- v3, given <- v4, patched <- v5, shares <- v6, results <- v7, answers <- v8
Cross == INSTANCE ExtraNonce WITH
    MinerIds <- {1, 2}, MaxJobs <- 3, MaxShares <- 1, Kinds <- {"daemon"},
    storage <- v1, pool <- v2, has <- v3, given <- v4, patched <- v5, shares <- v6, results <- v7, answers <- v8

PartsAssumption == Parts \subseteq {"dial", "failover", "single", "session", "simple", "extra", "cross", "fee",
                                    "calm", "route", "poll", "feed", "node", "http", "crowd", "dns", "lines",
                                    "chunks"}
ASSUME /\ PartsAssumption
       /\ Net!Dial!HandlesAssumption /\ Net!Dial!SwitchAssumption /\ Net!Dial!BoundsAssumption
       /\ Net!Strategy!NumPoolsAssumption /\ Net!Strategy!RetriesAssumption /\ Net!Strategy!SteadyAssumption
       /\ Net!Strategy!SwitchAssumption /\ Net!Strategy!P!MaxFailsAssumption
       /\ Net1!Strategy!NumPoolsAssumption /\ Net1!Strategy!RetriesAssumption
       /\ Session!TimeAssumption /\ Net!Simple!TimeoutAssumption /\ Net!Simple!MappersAssumption
       /\ Extra!MinersAssumption /\ Extra!BoundsAssumption /\ Cross!MinersAssumption /\ Cross!BoundsAssumption
       /\ Net!Fee!TickAssumption /\ Net1!Fee!TickAssumption /\ Net!Route!RouteAssumption
       /\ Net!Daemon!DaemonAssumption /\ Net1!Daemon!DaemonAssumption /\ Net!Node!SelfSelectAssumption
       /\ Net!Web!HttpAssumption /\ Net1!Web!HttpAssumption /\ Net!Dns!ResolverAssumption
       /\ Net!Lines!LineAssumption /\ Net1!Lines!LineAssumption

---------------------------------------------------------------------------
Init == /\ part \in Parts
        /\ \/ part = "dial"       /\ Net!Dial!Init        /\ Zero3
           \/ part = "failover"   /\ Net!Strategy!Init    /\ Zero8
           \/ part = "single"     /\ Net1!Strategy!Init   /\ Zero8
           \/ part = "session"    /\ Session!Init         /\ Zero2
           \/ part = "simple"     /\ Net!Simple!Init      /\ Zero9
           \/ part = "extra"      /\ Extra!Init           /\ Zero9
           \/ part = "cross"      /\ Cross!Init           /\ Zero9
           \/ part = "fee"        /\ Net!Fee!Init         /\ Zero2
           \/ part = "calm"       /\ Net1!Fee!Init        /\ Zero2
           \/ part = "route"      /\ Net!Route!Init
           \/ part = "poll"       /\ Net!Daemon!Init      /\ Zero4
           \/ part = "feed"       /\ Net1!Daemon!Init     /\ Zero4
           \/ part = "node"       /\ Net!Node!Init        /\ Zero3
           \/ part = "http"       /\ Net!Web!Init         /\ Zero5
           \/ part = "crowd"      /\ Net1!Web!Init        /\ Zero5
           \/ part = "dns"        /\ Net!Dns!Init         /\ Zero8
           \/ part = "lines"      /\ Net!Lines!Init       /\ Zero7
           \/ part = "chunks"     /\ Net1!Lines!Init      /\ Zero7

Of(p) == part = p /\ UNCHANGED part

DialStep     == Of("dial")     /\ Net!Dial!Next        /\ UNCHANGED Rest3
FailoverStep == Of("failover") /\ Net!Strategy!Next    /\ UNCHANGED Rest8
SingleStep   == Of("single")   /\ Net1!Strategy!Next   /\ UNCHANGED Rest8
SessionStep  == Of("session")  /\ Session!Next         /\ UNCHANGED Rest2
SimpleStep   == Of("simple")   /\ Net!Simple!Next      /\ UNCHANGED Rest9
ExtraStep    == Of("extra")    /\ Extra!Next           /\ UNCHANGED Rest9
CrossStep    == Of("cross")    /\ Cross!Next           /\ UNCHANGED Rest9
FeeStep      == Of("fee")      /\ Net!Fee!Next         /\ UNCHANGED Rest2
CalmStep     == Of("calm")     /\ Net1!Fee!Next        /\ UNCHANGED Rest2
RouteStep    == Of("route")    /\ Net!Route!Next
PollStep     == Of("poll")     /\ Net!Daemon!Next      /\ UNCHANGED Rest4
FeedStep     == Of("feed")     /\ Net1!Daemon!Next     /\ UNCHANGED Rest4
NodeStep     == Of("node")     /\ Net!Node!Next        /\ UNCHANGED Rest3
HttpStep     == Of("http")     /\ Net!Web!Next         /\ UNCHANGED Rest5
CrowdStep    == Of("crowd")    /\ Net1!Web!Next        /\ UNCHANGED Rest5
DnsStep      == Of("dns")      /\ Net!Dns!Next         /\ UNCHANGED Rest8
LinesStep    == Of("lines")    /\ Net!Lines!Next       /\ UNCHANGED Rest7
ChunksStep   == Of("chunks")   /\ Net1!Lines!Next      /\ UNCHANGED Rest7

Next == \/ DialStep \/ FailoverStep \/ SingleStep \/ SessionStep \/ SimpleStep \/ ExtraStep \/ CrossStep
        \/ FeeStep \/ CalmStep \/ RouteStep \/ PollStep \/ FeedStep \/ NodeStep
        \/ HttpStep \/ CrowdStep \/ DnsStep \/ LinesStep \/ ChunksStep

Spec == Init /\ [][Next]_vars

---------------------------------------------------------------------------
(* A client that never began an attempt beside a socket holds one socket   *)
(* and leaks none, asserts nothing in vain, and tells of each share the    *)
(* pool's answer to it; of the pools that did not one is up, the one the   *)
(* upstream was told of.                                                   *)
LinksSound ==
    /\ part = "dial"     => /\ Net!Dial!TypeOK /\ Net!Dial!SocketOwned /\ Net!Dial!AssertionsHold
                           /\ Net!Dial!AnswersMatch /\ Net!Dial!SharesFiled
    /\ part = "failover" => Net!Strategy!TypeOK /\ Net!Strategy!OneUp /\ Net!Strategy!ActiveConnected
    /\ part = "single"   => Net1!Strategy!ActiveConnected

(* The client implements what IClient promises, and is astray once it      *)
(* began an attempt beside a socket: see PoolLink.                         *)
LinkSpec == /\ (part = "dial" => Net!Dial!AsLink!Init)
            /\ [][part = "dial" => Net!Dial!AsLink!Next \/ UNCHANGED Net!Dial!Link]_vars

(* The extra nonces of one job are leased as the bytes of an upstream in   *)
(* nicehash mode are, each to one miner for ever: see NonceLease.          *)
LeaseSpec == /\ (part \in {"extra", "cross"} => Extra!AsLease!Init)
             /\ [][(part \in {"extra", "cross"}) => Extra!AsLease!Grant \/ UNCHANGED v4]_vars

(* Counters and registry follow a session however it ends, no listener nor *)
(* handle reaches one that is deleted, each request is replied once or     *)
(* waits, and a silent session is closed after the timeout and the skew of *)
(* the clocks.                                                             *)
SessionsSound == part = "session" => /\ Session!TypeOK /\ Session!CountersExact /\ Session!PointersLive
                                     /\ Session!RequestsAccounted /\ Session!SilenceBound

(* A miner has its upstream, or its extra nonce, to itself, the job it is  *)
(* judged by, and an answer at most once.  A share goes to the pool whose  *)
(* job it is of; who serves a miner in the place of the splitter serves it *)
(* alone, is there as long as it is called and answers a share once.       *)
SplittersSound ==
    /\ part = "simple" => Net!Simple!TypeOK /\ Net!Simple!OwnUpstream /\ Net!Simple!IdlesExact
    /\ part = "extra"  => Extra!TypeOK /\ Extra!PatchedAsHashed /\ Extra!EveryoneHasJob /\ Extra!AnsweredOnce
    /\ part = "cross"  => Cross!TypeOK /\ Cross!PatchedAsHashed /\ Cross!EveryoneHasJob /\ Cross!AnsweredOnce
    /\ part = "fee"    => Net!Fee!TypeOK /\ Net!Fee!ShareToOwner
    /\ part = "calm"   => Net1!Fee!TypeOK /\ Net1!Fee!ShareToOwner
    /\ part = "route" => Net!Route!TypeOK /\ Net!Route!PointersLive /\ Net!Route!OneOwner /\ Net!Route!AnsweredOnce

(* A daemon that counts as usable is watched, and one that is not is tried *)
(* unless it never answered; its shares are filed, and the socket of its   *)
(* feed is used as long as there is one; a template is offered for the job *)
(* it was made for, also after answers that come late, twice or never.     *)
TemplatesSound ==
    /\ part = "poll" => /\ Net!Daemon!TypeOK /\ Net!Daemon!ViewExact /\ Net!Daemon!SharesFiled
                       /\ Net!Daemon!KeepsTrying /\ Net!Daemon!FeedHeld
    /\ part = "feed" => /\ Net1!Daemon!TypeOK /\ Net1!Daemon!ViewExact
                       /\ Net1!Daemon!KeepsTrying /\ Net1!Daemon!FeedHeld
    /\ part = "node" => Net!Node!TypeOK /\ Net!Node!TemplateOfJob /\ Net!Node!IdleIsUp

(* A request is heard of once and forgotten before it is freed, a lookup   *)
(* leaves nobody waiting but whom it forgot, nor with an old address, and  *)
(* lines arrive whole in buffers that are nobody else's.                   *)
TransportSound ==
    /\ part = "http"   => /\ Net!Web!TypeOK /\ Net!Web!HeardOnce /\ Net!Web!SentWhereMeant
                         /\ Net!Web!ForgottenFirst /\ Net!Web!ReplyFirst
    /\ part = "crowd"  => /\ Net1!Web!TypeOK /\ Net1!Web!HeardOnce /\ Net1!Web!SentWhereMeant
                         /\ Net1!Web!ForgottenFirst /\ Net1!Web!ReplyFirst
    /\ part = "dns"    => Net!Dns!TypeOK /\ Net!Dns!WithinTTL /\ Net!Dns!NobodyLeft
    /\ part = "lines"  => Net!Lines!TypeOK /\ Net!Lines!LinesWhole
    /\ part = "chunks" => Net1!Lines!ChunksOwned /\ Net1!Lines!AllBack

(* The bus tells of a session in one order; an upstream is handed on with  *)
(* a job its last miner has not hashed; after a donation miners have the   *)
(* newest job of their own pool.                                           *)
HandedOver ==
    [][/\ part = "session" => Session!EventOrder \/ UNCHANGED v1
       /\ part = "simple"  => Net!Simple!HandedOnFresh
       /\ part = "calm"    => Net1!Fee!NewestAfter]_vars

(* Whom a lookup or a socket calls back has a listener: Client.cpp asserts *)
(* it.  It is violated: a lookup that outlives stop() or a redirect of the *)
(* pool leaves a socket behind that no deleteLater() closes.               *)
AssertedListener ==
    [][part = "dial" /\ (Net!Dial!DnsAnswers \/ \E h \in {1, 2} : Net!Dial!ReadData(h)) => v1.listener]_vars

(* A session without a sign of life stays open for its timeout and no      *)
(* longer (STRATUM.md).  It is violated: see Skew.                         *)
TimedOut == part = "session" => Session!SilentClosed

---------------------------------------------------------------------------
(* What is proved of the parts for every instance, for those here.         *)
ProvedParts == /\ part = "dial"     => Net!DialInv
               /\ part = "failover" => Net!StrategyInv
               /\ part = "single"   => Net1!StrategyInv
               /\ part = "session"  => Session!SessionInv
               /\ part = "simple"   => Net!SimpleInv
               /\ part = "extra"    => Extra!ExtraInv
               /\ part = "cross"    => Cross!ExtraInv
               /\ part = "fee"      => Net!FeeInv
               /\ part = "calm"     => Net1!FeeInv
               /\ part = "route"    => Net!RouteInv
               /\ part = "poll"     => Net!DaemonInv
               /\ part = "feed"     => Net1!DaemonInv
               /\ part = "node"     => Net!NodeGood(v1)
               /\ part = "http"     => Net!WebInv
               /\ part = "crowd"    => Net1!WebInv
               /\ part = "dns"      => Net!DnsInv
               /\ part = "lines"    => Net!LinesInv
               /\ part = "chunks"   => Net1!LinesInv

LEMMA InstancesAllowed ==
    /\ Net!DialAllowed /\ Net!StrategyAllowed /\ Net1!StrategyAllowed
    /\ Session!TimeAssumption /\ Net!SimpleAllowed
    /\ Extra!MinersAssumption /\ Extra!BoundsAssumption
    /\ Cross!MinersAssumption /\ Cross!BoundsAssumption
    /\ Net!Fee!TickAssumption /\ Net1!Fee!TickAssumption /\ Net!Route!RouteAssumption
    /\ Net!Daemon!DaemonAssumption /\ Net1!Daemon!DaemonAssumption /\ Net!Node!SelfSelectAssumption
    /\ Net!Web!HttpAssumption /\ Net1!Web!HttpAssumption /\ Net!Dns!ResolverAssumption
    /\ Net!Lines!LineAssumption /\ Net1!Lines!LineAssumption
<1>1. /\ Extra!IsFiniteSet({1, 2, 3}) /\ Cross!IsFiniteSet({1, 2}) /\ Net!Dial!IsFiniteSet({1, 2})
      /\ Net!Simple!IsFiniteSet({0, 1})
  <2>1. /\ 0 \in Int /\ 1 \in Int /\ 2 \in Int /\ 3 \in Int
        /\ {1, 2, 3} = 1 .. 3 /\ {1, 2} = 1 .. 2 /\ {0, 1} = 0 .. 1
    OBVIOUS
  <2>2. \A T : /\ (IsFiniteSet(T) <=> Extra!IsFiniteSet(T))
              /\ (IsFiniteSet(T) <=> Cross!IsFiniteSet(T))
              /\ (IsFiniteSet(T) <=> Net!Dial!IsFiniteSet(T))
              /\ (IsFiniteSet(T) <=> Net!Simple!IsFiniteSet(T))
    BY DEF IsFiniteSet, Extra!IsFiniteSet, Cross!IsFiniteSet, Net!Dial!IsFiniteSet, Net!Simple!IsFiniteSet
  <2>3. IsFiniteSet({1, 2, 3}) /\ IsFiniteSet({1, 2}) /\ IsFiniteSet({0, 1})
    BY <2>1, FS_Interval, Zenon
  <2> QED
    BY <2>2, <2>3
<1>2. Net!Route!IsFiniteSet({"a", "b"}) /\ Net!Simple!Nobody \notin {"a", "b", "c"}
  <2>1. IsFiniteSet({"a"}) /\ {"a", "b"} = {"a"} \union {"b"}
    BY FS_Singleton
  <2>2. IsFiniteSet({"a"} \union {"b"})
    BY <2>1, FS_AddElement
  <2>3. IsFiniteSet({"a", "b"})
    BY <2>1, <2>2
  <2> QED
    BY <2>3 DEF IsFiniteSet, Net!Route!IsFiniteSet, Net!Simple!Nobody
<1>3. Net!DialAllowed
  BY <1>1 DEF Net!DialAllowed, Net!Dial!HandlesAssumption, Net!Dial!SwitchAssumption, Net!Dial!BoundsAssumption
<1>4. Net!StrategyAllowed /\ Net1!StrategyAllowed
  BY DEF Net!StrategyAllowed, Net!Strategy!NumPoolsAssumption, Net!Strategy!RetriesAssumption,
     Net!Strategy!P!MaxFailsAssumption, Net1!StrategyAllowed, Net1!Strategy!NumPoolsAssumption,
     Net1!Strategy!RetriesAssumption, Net1!Strategy!P!MaxFailsAssumption
<1>5. Net!SimpleAllowed /\ Net!Route!RouteAssumption
  BY <1>1, <1>2 DEF Net!SimpleAllowed, Net!Simple!TimeoutAssumption, Net!Simple!MappersAssumption,
     Net!Route!RouteAssumption
<1>6. Net!Fee!TickAssumption /\ Net1!Fee!TickAssumption
  BY DEF Net!Fee!TickAssumption, Net1!Fee!TickAssumption
<1>7. /\ Net!Daemon!DaemonAssumption /\ Net1!Daemon!DaemonAssumption /\ Net!Node!SelfSelectAssumption
      /\ Net!Web!HttpAssumption /\ Net1!Web!HttpAssumption /\ Net!Dns!ResolverAssumption
      /\ Net!Lines!LineAssumption /\ Net1!Lines!LineAssumption
  BY DEF Net!Daemon!DaemonAssumption, Net1!Daemon!DaemonAssumption, Net!Node!SelfSelectAssumption,
     Net!Web!HttpAssumption, Net1!Web!HttpAssumption, Net!Dns!ResolverAssumption,
     Net!Lines!LineAssumption, Net1!Lines!LineAssumption
<1> QED
  BY <1>1, <1>3, <1>4, <1>5, <1>6, <1>7 DEF Extra!MinersAssumption, Extra!BoundsAssumption, Cross!MinersAssumption,
     Cross!BoundsAssumption, Session!TimeAssumption

LEMMA InitProved == Init => ProvedParts
<1> SUFFICES ASSUME Init PROVE ProvedParts
  OBVIOUS
<1>1. part = "dial" => Net!DialInv
  BY InstancesAllowed, Net!DialInit DEF Init
<1>2. part = "failover" => Net!StrategyInv
  BY InstancesAllowed, Net!StrategyInit DEF Init
<1>3. part = "single" => Net1!StrategyInv
  BY InstancesAllowed, Net1!StrategyInit DEF Init
<1>4. part = "session" => Session!SessionInv
  BY InstancesAllowed, Session!InitSession DEF Init
<1>5. part = "simple" => Net!SimpleInv
  BY InstancesAllowed, Net!SimpleInit DEF Init
<1>6. part = "extra" => Extra!ExtraInv
  BY InstancesAllowed, Extra!InitExtra DEF Init
<1>7. part = "cross" => Cross!ExtraInv
  BY InstancesAllowed, Cross!InitExtra DEF Init
<1>8. part = "fee" => Net!FeeInv
  BY InstancesAllowed, Net!FeeInit DEF Init
<1>9. part = "calm" => Net1!FeeInv
  BY InstancesAllowed, Net1!FeeInit DEF Init
<1>10. part = "route" => Net!RouteInv
  BY InstancesAllowed, Net!RouteInit DEF Init
<1>11. part = "poll" => Net!DaemonInv
  BY InstancesAllowed, Net!DaemonInit DEF Init
<1>12. part = "feed" => Net1!DaemonInv
  BY InstancesAllowed, Net1!DaemonInit DEF Init
<1>13. part = "node" => Net!NodeGood(v1)
  BY InstancesAllowed, Net!NodeInit DEF Init
<1>14. part = "http" => Net!WebInv
  BY InstancesAllowed, Net!WebInit DEF Init
<1>15. part = "crowd" => Net1!WebInv
  BY InstancesAllowed, Net1!WebInit DEF Init
<1>16. part = "dns" => Net!DnsInv
  BY InstancesAllowed, Net!DnsInit DEF Init
<1>17. part = "lines" => Net!LinesInv
  BY InstancesAllowed, Net!LinesInit DEF Init
<1>18. part = "chunks" => Net1!LinesInv
  BY InstancesAllowed, Net1!LinesInit DEF Init
<1> QED
  BY <1>1, <1>2, <1>3, <1>4, <1>5, <1>6, <1>7, <1>8, <1>9, <1>10, <1>11, <1>12, <1>13, <1>14, <1>15, <1>16,
     <1>17, <1>18 DEF ProvedParts

(* A step is of one part.                                                  *)
LEMMA StepOfPart ==
    ASSUME [Next]_vars
    PROVE  /\ part' = part
           /\ part = "dial"     => [Net!Dial!Next]_(Net!Dial!vars)
           /\ part = "failover" => [Net!Strategy!Next]_(Net!Strategy!vars)
           /\ part = "single"   => [Net1!Strategy!Next]_(Net1!Strategy!vars)
           /\ part = "session"  => [Session!Next]_v1
           /\ part = "simple"   => [Net!Simple!Next]_(Net!Simple!vars)
           /\ part = "extra"    => [Extra!Next]_(Extra!vars)
           /\ part = "cross"    => [Cross!Next]_(Cross!vars)
           /\ part = "fee"      => [Net!Fee!Next]_v1
           /\ part = "calm"     => [Net1!Fee!Next]_v1
           /\ part = "route"    => [Net!Route!Next]_(Net!Route!vars)
           /\ part = "poll"     => [Net!Daemon!Next]_(Net!Daemon!vars)
           /\ part = "feed"     => [Net1!Daemon!Next]_(Net1!Daemon!vars)
           /\ part = "node"     => [Net!Node!Next]_(Net!Node!vars)
           /\ part = "http"     => [Net!Web!Next]_(Net!Web!vars)
           /\ part = "crowd"    => [Net1!Web!Next]_(Net1!Web!vars)
           /\ part = "dns"      => [Net!Dns!Next]_(Net!Dns!vars)
           /\ part = "lines"    => [Net!Lines!Next]_(Net!Lines!vars)
           /\ part = "chunks"   => [Net1!Lines!Next]_(Net1!Lines!vars)
BY DEF Next, Of, vars, DialStep, FailoverStep, SingleStep, SessionStep, SimpleStep, ExtraStep, CrossStep,
   FeeStep, CalmStep, RouteStep, PollStep, FeedStep, NodeStep, HttpStep, CrowdStep, DnsStep, LinesStep,
   ChunksStep, Net!Dial!vars, Extra!vars, Cross!vars, Net!Strategy!vars, Net1!Strategy!vars, Net!Simple!vars, Net!Route!vars,
   Net!Daemon!vars, Net1!Daemon!vars, Net!Node!vars, Net!Web!vars, Net1!Web!vars, Net!Dns!vars, Net!Lines!vars,
   Net1!Lines!vars

(* What is known of each part stays, and of some a step says more.         *)
LEMMA NextProved ==
    ASSUME ProvedParts, [Next]_vars
    PROVE  /\ ProvedParts'
           /\ part = "dial"    => Net!Dial!AsLink!Next \/ UNCHANGED Net!Dial!Link
           /\ part = "session" => Session!EventOrder \/ UNCHANGED v1
           /\ part = "simple"  => Net!Simple!HandedOnFresh
           /\ part = "calm"    => Net1!Fee!NewestAfter
<1>1. ASSUME part = "dial" PROVE Net!DialInv' /\ (Net!Dial!AsLink!Next \/ UNCHANGED Net!Dial!Link)
  BY <1>1, StepOfPart, InstancesAllowed, Net!DialSteps DEF ProvedParts
<1>2. part = "failover" => Net!StrategyInv'
  BY StepOfPart, InstancesAllowed, Net!StrategyNext DEF ProvedParts
<1>3. part = "single" => Net1!StrategyInv'
  BY StepOfPart, InstancesAllowed, Net1!StrategyNext DEF ProvedParts
<1>4. part = "session" => Session!SessionInv' /\ (Session!EventOrder \/ UNCHANGED v1)
  BY StepOfPart, InstancesAllowed, Session!NextSession DEF ProvedParts
<1>5. part = "simple" => Net!SimpleInv' /\ Net!Simple!HandedOnFresh
  BY StepOfPart, InstancesAllowed, Net!SimpleNext DEF ProvedParts
<1>6. part = "extra" => Extra!ExtraInv'
  BY StepOfPart, InstancesAllowed, Extra!NextExtra DEF ProvedParts
<1>7. part = "cross" => Cross!ExtraInv'
  BY StepOfPart, InstancesAllowed, Cross!NextExtra DEF ProvedParts
<1>8. part = "fee" => Net!FeeInv'
  BY StepOfPart, InstancesAllowed, Net!FeeNext DEF ProvedParts
<1>9. part = "calm" => Net1!FeeInv' /\ Net1!Fee!NewestAfter
  BY StepOfPart, InstancesAllowed, Net1!FeeNext DEF ProvedParts
<1>10. part = "route" => Net!RouteInv'
  BY StepOfPart, InstancesAllowed, Net!RouteNext DEF ProvedParts
<1>11. part' = part
  BY StepOfPart
<1>12. part = "poll" => Net!DaemonInv'
  BY StepOfPart, InstancesAllowed, Net!DaemonNext DEF ProvedParts
<1>13. part = "feed" => Net1!DaemonInv'
  BY StepOfPart, InstancesAllowed, Net1!DaemonNext DEF ProvedParts
<1>14. part = "node" => Net!NodeGood(v1)'
  BY StepOfPart, InstancesAllowed, Net!NodeNext DEF ProvedParts
<1>15. part = "http" => Net!WebInv'
  BY StepOfPart, InstancesAllowed, Net!WebNext DEF ProvedParts
<1>16. part = "crowd" => Net1!WebInv'
  BY StepOfPart, InstancesAllowed, Net1!WebNext DEF ProvedParts
<1>17. part = "dns" => Net!DnsInv'
  BY StepOfPart, InstancesAllowed, Net!DnsNext DEF ProvedParts
<1>18. part = "lines" => Net!LinesInv'
  BY StepOfPart, InstancesAllowed, Net!LinesStep DEF ProvedParts
<1>19. part = "chunks" => Net1!LinesInv'
  BY StepOfPart, InstancesAllowed, Net1!LinesStep DEF ProvedParts
<1> QED
  BY <1>1, <1>2, <1>3, <1>4, <1>5, <1>6, <1>7, <1>8, <1>9, <1>10, <1>11, <1>12, <1>13, <1>14, <1>15, <1>16,
     <1>17, <1>18, <1>19 DEF ProvedParts

LEMMA ProvedStay == Spec => []ProvedParts
<1>1. ProvedParts /\ [Next]_vars => ProvedParts'
  BY NextProved
<1> QED
  BY <1>1, InitProved, PTL DEF Spec

(* A client that never began an attempt beside a socket holds one socket   *)
(* and leaks none, asserts nothing in vain, and tells of each share the    *)
(* pool's answer to it; of the pools that did not one is up, the one the   *)
(* upstream was told of.                                                   *)
THEOREM LinksStaySound == Spec => []LinksSound
<1>1. ASSUME ProvedParts PROVE LinksSound
  <2>1. part = "dial" => /\ Net!Dial!TypeOK /\ Net!Dial!SocketOwned /\ Net!Dial!AssertionsHold
                         /\ Net!Dial!AnswersMatch /\ Net!Dial!SharesFiled
    BY <1>1, InstancesAllowed, Net!DialSafe DEF ProvedParts
  <2>2. part = "failover" => Net!Strategy!TypeOK /\ Net!Strategy!OneUp /\ Net!Strategy!ActiveConnected
    BY <1>1 DEF ProvedParts, Net!StrategyInv
  <2>3. part = "single" => Net1!Strategy!ActiveConnected
    BY <1>1 DEF ProvedParts, Net1!StrategyInv
  <2> QED
    BY <2>1, <2>2, <2>3 DEF LinksSound
<1> QED
  BY <1>1, ProvedStay, PTL

(* The client keeps the promise of IClient in every step it takes, up to   *)
(* the one that begins an attempt beside a socket.                         *)
THEOREM LinkHolds == Spec => LinkSpec
<1> DEFINE Moved == part = "dial" => Net!Dial!AsLink!Next \/ UNCHANGED Net!Dial!Link
<1>1. Init => (part = "dial" => Net!Dial!AsLink!Init)
  BY Net!DialLinkInit DEF Init
<1>2. ProvedParts /\ [Next]_vars => [Moved]_vars
  BY NextProved
<1> QED
  BY <1>1, <1>2, ProvedStay, PTL DEF Spec, LinkSpec

(* An extra nonce of a job is leased to one miner for ever.                *)
THEOREM LeasesHold == Spec => LeaseSpec
<1> DEFINE Leased == part \in {"extra", "cross"} => Extra!AsLease!Grant \/ UNCHANGED v4
<1>1. Init => (part \in {"extra", "cross"} => Extra!AsLease!Init)
  BY DEF Init, Extra!Init, Cross!Init, Extra!AsLease!Init
<1>2. ProvedParts /\ [Next]_vars => [Leased]_vars
  <2> SUFFICES ASSUME ProvedParts, [Next]_vars, part \in {"extra", "cross"}, part' = part
               PROVE  Extra!AsLease!Grant \/ UNCHANGED v4
    BY StepOfPart
  <2>1. CASE part = "extra"
    BY <2>1, StepOfPart, InstancesAllowed, Extra!GrantStep DEF ProvedParts
  <2>2. CASE part = "cross"
    <3>1. Cross!AsLease!Grant \/ UNCHANGED v4
      BY <2>2, StepOfPart, InstancesAllowed, Cross!GrantStep DEF ProvedParts
    <3> QED
      BY <3>1 DEF Cross!AsLease!Grant, Cross!AsLease!Exclusive, Cross!AsLease!NewestJob,
         Extra!AsLease!Grant, Extra!AsLease!Exclusive, Extra!AsLease!NewestJob
  <2> QED
    BY <2>1, <2>2
<1> QED
  BY <1>1, <1>2, ProvedStay, PTL DEF Spec, LeaseSpec

(* Counters, registry and pointers follow a session however it ends, each  *)
(* request is replied once or waits, and a silent session is closed after  *)
(* the timeout and the skew of the clocks.                                 *)
THEOREM SessionsStaySound == Spec => []SessionsSound
<1>1. ProvedParts => SessionsSound
  BY InstancesAllowed, Session!SessionSound, Session!SilenceBounded DEF ProvedParts, SessionsSound
<1> QED
  BY <1>1, ProvedStay, PTL

(* A miner has its upstream, or its extra nonce, to itself, and an answer  *)
(* at most once; a share goes to the pool whose job it is of; and who      *)
(* serves a miner for the splitter serves it alone and as long as needed.  *)
THEOREM SplittersStaySound == Spec => []SplittersSound
<1>1. ASSUME ProvedParts PROVE SplittersSound
  <2>1. part = "simple" => Net!Simple!TypeOK /\ Net!Simple!OwnUpstream /\ Net!Simple!IdlesExact
    BY <1>1 DEF ProvedParts, Net!SimpleInv
  <2>2. part = "extra" => Extra!TypeOK /\ Extra!PatchedAsHashed /\ Extra!EveryoneHasJob /\ Extra!AnsweredOnce
    BY <1>1 DEF ProvedParts, Extra!ExtraInv
  <2>3. part = "cross" => Cross!TypeOK /\ Cross!PatchedAsHashed /\ Cross!EveryoneHasJob /\ Cross!AnsweredOnce
    BY <1>1 DEF ProvedParts, Cross!ExtraInv
  <2>4. part = "fee" => Net!Fee!TypeOK /\ Net!Fee!ShareToOwner
    BY <1>1, Net!FeeTyped DEF ProvedParts
  <2>5. part = "calm" => Net1!Fee!TypeOK /\ Net1!Fee!ShareToOwner
    BY <1>1, Net1!FeeTyped DEF ProvedParts
  <2>6. part = "route" => /\ Net!Route!TypeOK /\ Net!Route!PointersLive /\ Net!Route!OneOwner
                          /\ Net!Route!AnsweredOnce
    BY <1>1, InstancesAllowed, Net!RouteHolds DEF ProvedParts
  <2> QED
    BY <2>1, <2>2, <2>3, <2>4, <2>5, <2>6 DEF SplittersSound
<1> QED
  BY <1>1, ProvedStay, PTL

(* A daemon that counts as usable is watched, and one that is not is tried *)
(* unless it never answered; its shares are filed, and the socket of its   *)
(* feed is used as long as there is one; a template is offered for the job *)
(* it was made for, also after answers that come late, twice or never.     *)
THEOREM TemplatesStaySound == Spec => []TemplatesSound
<1>1. ASSUME ProvedParts PROVE TemplatesSound
  <2>1. part = "poll" => /\ Net!Daemon!TypeOK /\ Net!Daemon!ViewExact /\ Net!Daemon!SharesFiled
                         /\ Net!Daemon!KeepsTrying /\ Net!Daemon!FeedHeld
    BY <1>1, InstancesAllowed, Net!DaemonHolds DEF ProvedParts
  <2>2. part = "feed" => /\ Net1!Daemon!TypeOK /\ Net1!Daemon!ViewExact
                         /\ Net1!Daemon!KeepsTrying /\ Net1!Daemon!FeedHeld
    BY <1>1, InstancesAllowed, Net1!DaemonHolds DEF ProvedParts
  <2>3. part = "node" => Net!Node!TypeOK /\ Net!Node!TemplateOfJob /\ Net!Node!IdleIsUp
    BY <1>1, Net!NodeHolds DEF ProvedParts
  <2> QED
    BY <2>1, <2>2, <2>3 DEF TemplatesSound
<1> QED
  BY <1>1, ProvedStay, PTL

(* A request is heard of once and forgotten before it is freed, a lookup   *)
(* leaves nobody waiting but whom it forgot, nor with an old address, and  *)
(* lines arrive whole in buffers that are nobody else's.                   *)
THEOREM TransportStaysSound == Spec => []TransportSound
<1>1. ASSUME ProvedParts PROVE TransportSound
  <2>1. part = "http" => /\ Net!Web!TypeOK /\ Net!Web!HeardOnce /\ Net!Web!SentWhereMeant
                         /\ Net!Web!ForgottenFirst /\ Net!Web!ReplyFirst
    BY <1>1, Net!WebHolds DEF ProvedParts
  <2>2. part = "crowd" => /\ Net1!Web!TypeOK /\ Net1!Web!HeardOnce /\ Net1!Web!SentWhereMeant
                          /\ Net1!Web!ForgottenFirst /\ Net1!Web!ReplyFirst
    BY <1>1, Net1!WebHolds DEF ProvedParts
  <2>3. part = "dns" => Net!Dns!TypeOK /\ Net!Dns!WithinTTL /\ Net!Dns!NobodyLeft
    BY <1>1, InstancesAllowed, Net!DnsHolds DEF ProvedParts
  <2>4. part = "lines" => Net!Lines!TypeOK /\ Net!Lines!LinesWhole
    BY <1>1, InstancesAllowed, Net!LinesHold DEF ProvedParts
  <2>5. part = "chunks" => Net1!Lines!ChunksOwned /\ Net1!Lines!AllBack
    BY <1>1, InstancesAllowed, Net1!LinesHold DEF ProvedParts
  <2> QED
    BY <2>1, <2>2, <2>3, <2>4, <2>5 DEF TransportSound
<1> QED
  BY <1>1, ProvedStay, PTL

(* The bus tells of a session in one order; an upstream is handed on with  *)
(* a job its last miner has not hashed; after a donation miners have the   *)
(* newest job of their own pool.                                           *)
THEOREM HandedOverHolds == Spec => HandedOver
<1> DEFINE Handed == /\ part = "session" => Session!EventOrder \/ UNCHANGED v1
                     /\ part = "simple"  => Net!Simple!HandedOnFresh
                     /\ part = "calm"    => Net1!Fee!NewestAfter
<1>1. ProvedParts /\ [Next]_vars => [Handed]_vars
  BY NextProved
<1> QED
  BY <1>1, ProvedStay, PTL DEF Spec, HandedOver
=============================================================================
