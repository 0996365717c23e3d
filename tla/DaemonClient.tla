---------------------------- MODULE DaemonClient ----------------------------
(***************************************************************************)
(* DaemonClient: solo mining on a daemon over HTTP, with or without the    *)
(* daemon's ZMQ feed.                                                      *)
(*                                                                         *)
(* A tip is a pair of height and hash, numbered as the chain grows; 0 is   *)
(* no hash.  A request is kept until its answer is handled; the daemon     *)
(* answers with the tip it has when it gets to the request, and every      *)
(* request has a connection of its own, so answers overtake each other.    *)
(*                                                                         *)
(* The client is one record: state; failures (m_failures, MaxFailures      *)
(* stands for more); timer (off, once after retry(), poll); height, the    *)
(* tip of m_job; prev (m_prevHash); req (m_blocktemplateRequestHash);      *)
(* late, the job timeout has passed; api; results, the size of m_results;  *)
(* dns, tcp: a lookup, a connect of the feed under way; held, libuv holds  *)
(* m_ZMQSocket; feed, the state of the connection; closing, uv_close was   *)
(* called on the socket; net, the requests; up, what its listener was told *)
(* last; again, connect() came while it was connected.                     *)
(*                                                                         *)
(* Nothing in the code keeps libuv's rules for the feed's socket: retry()  *)
(* closes it without asking whether it is closing, and onResolved()        *)
(* deletes the old one whether it is closed, open, or was never connected. *)
(* broken says that one of both happened.  What the build does then is not *)
(* defined, and the model ends there.                                      *)
(***************************************************************************)
EXTENDS Integers, FiniteSets, FiniteSetsExt

CONSTANTS MaxTip,       \* bound of the blocks of the chain
          MaxFailures,  \* bound of the count of failures
          Room,         \* bound of the requests under way
          Faults,       \* bound of what goes wrong
          Silences,     \* bound of the requests that are never answered
          Submits,      \* bound of the shares
          Stops,        \* bound of the owner's disconnects
          Zmq,          \* zmq_port is configured
          HasHash       \* /getheight of this daemon has a hash

DaemonAssumption ==
    /\ MaxTip \in Nat \ {0}
    /\ {MaxFailures, Room, Faults, Silences, Submits, Stops} \subseteq Nat
    /\ Zmq \in BOOLEAN /\ HasHash \in BOOLEAN

VARIABLES c, tip,
          left  \* what is left of Faults, Silences, Submits and Stops

vars == <<c, tip, left>>

Tips   == 1 .. MaxTip
Kinds  == {"height", "info", "template", "block"}
Msgs   == [kind : Kinds, tip : 0 .. MaxTip]   \* tip 0: the daemon has not got to it
States == {"unconnected", "connecting", "connected"}
Phases == {"greeting1", "greeting2", "handshake"}
Feeds  == {"none", "connected", "disconnecting"} \union Phases

Msg(kind, t) == [kind |-> kind, tip |-> t]
UnderWay(d)  == FoldSet(LAMBDA m, n : n + d.net[m], 0, Msgs)

Fresh == [state |-> "unconnected", failures |-> 0, timer |-> "off", height |-> 0, prev |-> 0,
          req |-> 0, late |-> TRUE, api |-> "monero", results |-> 0, dns |-> FALSE, tcp |-> FALSE,
          held |-> FALSE, feed |-> "none", closing |-> FALSE, net |-> [m \in Msgs |-> 0],
          up |-> FALSE, again |-> FALSE, broken |-> FALSE]

Init == /\ c = Fresh /\ tip = 1
        /\ left = [faults |-> Faults, silences |-> Silences, submits |-> Submits, stops |-> Stops]

Spend(what) == left[what] > 0 /\ left' = [left EXCEPT ![what] = @ - 1]

Ask(d, kind) == [d EXCEPT !.net[Msg(kind, 0)] = @ + 1]
Take(d, m)   == [d EXCEPT !.net[m] = @ - 1]

FeedOpen(d) == d.feed \notin {"none", "disconnecting"}

\* bug: a connected client keeps its state when it counts a failure
RetryKeepsState(d) ==
    [d EXCEPT !.failures = IF @ < MaxFailures THEN @ + 1 ELSE @, !.up = FALSE, !.timer = "once",
              !.again = FALSE, !.closing = @ \/ FeedOpen(d), !.broken = FeedOpen(d) /\ d.closing]

(* retry(): the owner hears onClose.  m_failures turns from -1 to 0, so    *)
(* the return for a client that was disconnected is never taken.  The feed *)
(* is closed by what its state says, also a second time.                   *)
Retry(d) ==
    [d EXCEPT !.failures = IF @ < MaxFailures THEN @ + 1 ELSE @, !.up = FALSE, !.timer = "once",
              !.again = FALSE, !.state = IF @ = "connected" THEN "connecting" ELSE @,
              !.closing = @ \/ FeedOpen(d), !.broken = FeedOpen(d) /\ d.closing]

(* ZMQClose(): nothing when it is closed or closing already.               *)
ZMQClose(d) ==
    IF ~FeedOpen(d) THEN d
    ELSE IF d.closing THEN [d EXCEPT !.feed = "disconnecting"]
    ELSE Retry([d EXCEPT !.feed = "disconnecting", !.closing = TRUE])

(* connect(): the feed first where there is one.                           *)
Connect(d) ==
    LET e == [d EXCEPT !.state = "connecting", !.again = @ \/ d.state = "connected"] IN
    IF Zmq THEN [e EXCEPT !.dns = TRUE] ELSE Ask(e, "template")

(* setState(ConnectedState): the failures are forgotten, onLoginSuccess,   *)
(* and from now on the daemon is polled.                                   *)
Connected(d) ==
    IF d.state # "connecting" THEN d
    ELSE [d EXCEPT !.state = "connected", !.failures = 0, !.up = TRUE, !.again = FALSE, !.timer = "poll"]

(* parseJob() of a good template; onJobReceived.                           *)
ParseJob(d, t) ==
    Connected([d EXCEPT !.height = t, !.prev = t, !.late = FALSE])

IsOutdated(d, t) == d.height # t \/ d.prev # t \/ d.late

(* onHttpData() of /getheight and /getinfo: one template request a tip.    *)
TipSeen(d, t) ==
    IF IsOutdated(d, t) /\ t # d.req THEN Ask([d EXCEPT !.req = t], "template") ELSE d

(* handleSubmitResponse(): the entry of the share is erased.               *)
Answered(d) == [d EXCEPT !.results = @ - 1]

---------------------------------------------------------------------------
(* The daemon gets to a request.  The answer to a share has no tip: there  *)
(* 1 only says that it is one.                                             *)
Handle(kind) ==
    /\ c.net[Msg(kind, 0)] > 0
    /\ LET answer == Msg(kind, IF kind = "block" THEN 1 ELSE tip)
       IN c' = [c EXCEPT !.net[Msg(kind, 0)] = @ - 1, !.net[answer] = @ + 1]
    /\ UNCHANGED <<tip, left>>

NewTip == tip < MaxTip /\ tip' = tip + 1 /\ UNCHANGED <<c, left>>

(* onHttpData() of a good answer.  A daemon without a hash in /getheight   *)
(* is asked /getinfo from then on.  A refused share or an answer to no     *)
(* share is an error, see HttpFailed.                                      *)
HttpData(m) ==
    /\ m.tip # 0 /\ c.net[m] > 0
    /\ LET d == Take(c, m) IN
       c' = CASE m.kind = "template" -> ParseJob(d, m.tip)
              [] m.kind = "block"    -> IF Zmq THEN Answered(d) ELSE Ask(Answered(d), "template")
              [] m.kind = "height" /\ ~HasHash -> Ask([d EXCEPT !.api = "default"], "info")
              [] OTHER               -> TipSeen(d, m.tip)
    /\ UNCHANGED <<tip, left>>

(* The request failed, its answer is no JSON, an error object or not a     *)
(* usable template: retry().  Only the error object answers a share.       *)
HttpFailed(m) ==
    /\ c.net[m] > 0 /\ Spend("faults")
    /\ \/ c' = Retry(Take(c, m))
       \/ m.kind = "block" /\ m.tip # 0 /\ c' = Retry(Answered(Take(c, m)))
    /\ UNCHANGED tip

(* HttpClient::onResolved(), the host is not found: the request is given   *)
(* up and its listener never hears of it.  A host that takes the           *)
(* connection and says nothing has the same effect, there is no timeout.   *)
Silent(m) == /\ m.tip = 0 /\ c.net[m] > 0 /\ Spend("silences")
             /\ c' = Take(c, m) /\ UNCHANGED tip

(* onTimer().  With a feed the tip is asked for whatever the state is.     *)
OnTimer ==
    /\ c.timer # "off" /\ UnderWay(c) < Room
    /\ LET d == [c EXCEPT !.timer = IF @ = "once" THEN "off" ELSE @]
           f == [d EXCEPT !.prev = 0, !.req = 0]
           e == IF d.late THEN f ELSE d
       IN c' = IF Zmq THEN Ask(f, "height")
               ELSE CASE d.state = "connecting"  -> Connect(e)
                      [] d.state = "connected"   -> Ask(e, IF e.api = "monero" THEN "height" ELSE "info")
                      [] d.state = "unconnected" -> e
    /\ UNCHANGED <<tip, left>>

JobTimeout == ~c.late /\ c' = [c EXCEPT !.late = TRUE] /\ UNCHANGED <<tip, left>>

(* submit() of a share of the job in hand; any other is refused.           *)
Submit ==
    /\ c.up /\ UnderWay(c) < Room /\ Spend("submits")
    /\ c' = Ask([c EXCEPT !.results = @ + 1], "block") /\ UNCHANGED tip

(* The owner.  connect() looks at nothing, and neither do the strategies   *)
(* that call it: the client may be connected, or a lookup, a connect or    *)
(* the feed of an earlier attempt still there.                             *)
Start == /\ UnderWay(c) < Room
         /\ \/ c' = Connect(c) /\ UNCHANGED left
            \/ /\ Spend("faults")     \* connectError
               /\ c' = Retry([c EXCEPT !.state = "connecting"])
         /\ UNCHANGED tip
Stop  == /\ c.state # "unconnected" /\ Spend("stops")
         /\ c' = [c EXCEPT !.state = "unconnected", !.failures = -1, !.timer = "off", !.up = FALSE,
                           !.again = FALSE]
         /\ UNCHANGED tip

(* onResolved(): the new socket takes the place of the old one.            *)
Resolved == /\ c.dns
            /\ \/ /\ c' = [c EXCEPT !.dns = FALSE, !.tcp = TRUE, !.held = TRUE, !.broken = c.held]
                  /\ UNCHANGED left
               \/ Spend("faults") /\ c' = Retry([c EXCEPT !.dns = FALSE])
            /\ UNCHANGED tip

(* onZMQConnect(): without a connection the socket is left as it is, and   *)
(* never closed; with one the greeting is written.                         *)
Dialled == /\ c.tcp
           /\ LET d == [c EXCEPT !.tcp = FALSE]
                  g == [d EXCEPT !.feed = "greeting1"]
              IN \/ c' = g /\ UNCHANGED left
                 \/ Spend("faults") /\ (c' = Retry(d) \/ c' = ZMQClose(g))
           /\ UNCHANGED tip

(* ZMQRead() during the handshake, one phase a step.  After the last one   *)
(* the template is asked for.                                              *)
Phase(d) == CASE d.feed = "greeting1" -> [d EXCEPT !.feed = "greeting2"]
              [] d.feed = "greeting2" -> [d EXCEPT !.feed = "handshake"]
              [] d.feed = "handshake" -> Ask([d EXCEPT !.feed = "connected"], "template")

TipCame(d) == Ask([d EXCEPT !.prev = 0, !.req = 0, !.timer = "poll"], "height")

(* A write that fails closes the feed, but of the first and the last phase *)
(* the state moves on all the same, and what else has come is read: it is  *)
(* a phase whose write fails too, or a message, or no message.             *)
PhaseFailed(d) ==
    LET e == Phase([ZMQClose(d) EXCEPT !.feed = d.feed]) IN
    CASE d.feed = "greeting1" -> {e, ZMQClose(e)}
      [] d.feed = "greeting2" -> {ZMQClose(d)}
      [] d.feed = "handshake" -> {e, ZMQClose(e), TipCame(e)}

Handshake == /\ c.feed \in Phases /\ ~c.closing /\ UnderWay(c) < Room
             /\ \/ c' = Phase(c) /\ UNCHANGED left
                \/ Spend("faults") /\ c' \in PhaseFailed(c)
             /\ UNCHANGED tip

(* The daemon has a new tip and says so on the feed; ZMQParse() asks for   *)
(* it, and starts the timer whatever the state is.                         *)
ZMQParse ==
    /\ c.feed = "connected" /\ ~c.closing /\ UnderWay(c) < Room /\ tip < MaxTip
    /\ tip' = tip + 1 /\ UNCHANGED left
    /\ c' = TipCame(c)

(* The feed ends, or sends what is no message; onZMQClose().               *)
ZMQLost   == /\ c.feed \in Phases \union {"connected"} /\ ~c.closing /\ Spend("faults")
             /\ c' = ZMQClose(c) /\ UNCHANGED tip
ZMQClosed == /\ c.closing /\ c' = [c EXCEPT !.closing = FALSE, !.feed = "none", !.held = FALSE]
             /\ UNCHANGED <<tip, left>>

Next == /\ ~c.broken
        /\ \/ NewTip \/ JobTimeout \/ OnTimer \/ Submit \/ Start \/ Stop
           \/ Resolved \/ Dialled \/ Handshake \/ ZMQParse \/ ZMQLost \/ ZMQClosed
           \/ \E kind \in Kinds : Handle(kind)
           \/ \E m \in Msgs : HttpData(m) \/ HttpFailed(m) \/ Silent(m)
Spec == Init /\ [][Next]_vars

(* Timers run, the daemon answers (or fails to, which spends a fault), the *)
(* loop delivers.                                                          *)
Runs(A) == ~c.broken /\ A

FairSpec ==
    /\ Spec /\ WF_vars(Runs(OnTimer)) /\ WF_vars(Runs(JobTimeout)) /\ WF_vars(Runs(Resolved))
    /\ WF_vars(Runs(Dialled)) /\ WF_vars(Runs(Handshake)) /\ WF_vars(Runs(ZMQClosed))
    /\ \A kind \in Kinds : WF_vars(Runs(Handle(kind)))
    /\ \A m \in Msgs : WF_vars(Runs(HttpData(m)))

---------------------------------------------------------------------------
TypeOK ==
    /\ c \in [state : States, failures : -1 .. MaxFailures, timer : {"off", "once", "poll"},
              height : 0 .. MaxTip, prev : 0 .. MaxTip, req : 0 .. MaxTip, late : BOOLEAN,
              api : {"monero", "default"}, results : 0 .. Submits, dns : BOOLEAN, tcp : BOOLEAN,
              held : BOOLEAN, feed : Feeds, closing : BOOLEAN, net : [Msgs -> Nat],
              up : BOOLEAN, again : BOOLEAN, broken : BOOLEAN]
    /\ tip \in Tips

(* The owner takes the daemon for usable exactly when the client is        *)
(* connected, or was when the owner had it connect once more, and then the *)
(* daemon is polled: also after answers that come late, to a client that   *)
(* was stopped, or that failed meanwhile.                                  *)
ViewExact == /\ c.up <=> c.state = "connected" \/ c.again
             /\ c.again => c.state = "connecting"
             /\ c.up => c.timer = "poll"

(* "time to pause between retries" (README.md): a client that was asked to *)
(* connect never sits still: a timer runs, an answer is to come, or the    *)
(* feed is being set up or shut down.  Unless a request of it was never    *)
(* answered: there is no timeout for that.                                 *)
KeepsTrying ==
    c.state # "unconnected" =>
        \/ c.timer # "off" \/ c.dns \/ c.tcp \/ c.closing \/ c.feed \in Phases
        \/ \E m \in Msgs : c.net[m] > 0
        \/ left.silences < Silences

(* What the code reads, writes and closes is a socket that libuv holds,    *)
(* and a connect under way is of the only one there is, up to the step in  *)
(* which the socket is deleted beside libuv or closed twice.  Without a    *)
(* feed that step never comes.                                             *)
FeedHeld == /\ ~c.broken => /\ c.tcp \/ c.closing \/ c.feed # "none" => c.held
                            /\ c.tcp => c.feed = "none" /\ ~c.closing
            /\ c.broken => Zmq

(* A share the daemon has not answered is still filed under its number, so *)
(* that its miner can be told; filed for good are only shares whose        *)
(* request failed, which is how the code loses them.                       *)
SharesFiled ==
    LET waiting == c.net[Msg("block", 0)] + c.net[Msg("block", 1)]
    IN /\ waiting <= c.results
       /\ c.results <= waiting + (Faults - left.faults) + (Silences - left.silences)

(* The miners have the job of the newest tip: whatever overtakes what,     *)
(* again and again, lost and late answers are made up for by the timers.   *)
(* Unless the feed's socket was closed twice or deleted beside libuv.      *)
AtTip == c.state = "unconnected" \/ (c.up /\ c.height = tip) \/ c.broken
=============================================================================
