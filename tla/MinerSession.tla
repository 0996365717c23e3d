---------------------------- MODULE MinerSession ----------------------------
(***************************************************************************)
(* The side of the proxy that faces the miners: Server accepts a           *)
(* connection, Miner is its session, Miners the registry with the timer,   *)
(* Login and CustomDiff look at a login, Counters count, and Events tells  *)
(* everybody else (heard is the last the bus has told of the session).     *)
(* Sessions share nothing but the registry and the counters, of which      *)
(* registered, added, removed and connections are one session's part; so   *)
(* one session s is modelled.                                              *)
(*                                                                         *)
(* A write either succeeds or closes the session, so a method that writes  *)
(* is the set of its outcomes.  The splitter behind the bus is external:   *)
(* it holds the requests in waiting and answers them, a login with its     *)
(* first job.                                                              *)
(*                                                                         *)
(* Time: silent counts the ticks since m_expire was set.  m_expire is set  *)
(* from the wall clock (milliseconds since 1970) and compared with the     *)
(* monotonic uv_now() (since the machine's start): Skew is how far the     *)
(* first is ahead of the second.  On a machine whose clock is set that is  *)
(* decades.                                                                *)
(***************************************************************************)
EXTENDS Integers, TLAPS

CONSTANTS MaxRequests,    \* bound of the requests of one session
          TlsPort, Strict,\* the port takes TLS; it takes nothing else
          Password,       \* config()->password() is set
          Skew, LoginTimeout, SocketTimeout, MaxSilent

TimeAssumption == {Skew, LoginTimeout, SocketTimeout, MaxSilent, MaxRequests} \subseteq Nat

VARIABLE s

Requests == 1 .. MaxRequests

NoMiner == [alive |-> FALSE, stored |-> FALSE, own |-> FALSE, handle |-> "none",
            registered |-> FALSE, connections |-> 0, added |-> 0, removed |-> 0,
            state |-> "waitLogin", tls |-> "unknown", custom |-> FALSE, silent |-> 0,
            loginId |-> 0, asked |-> 0, replies |-> [n \in Requests |-> 0], waiting |-> {},
            heard |-> "nothing"]

Closing(m)     == m.state = "closing"
Says(m, event) == [m EXCEPT !.heard = event]
Heartbeat(m)   == [m EXCEPT !.silent = 0]

\* bug: a session that closes before its first job is counted as a miner gone
SetStateAlways(m, st) ==
    CASE m.state = st   -> m
      [] st = "ready"   -> [Heartbeat(m) EXCEPT !.state = st, !.added = @ + 1]
      [] st = "closing" -> [m EXCEPT !.state = st, !.removed = @ + 1]
      [] OTHER          -> [m EXCEPT !.state = st]

SetState(m, st) ==
    CASE m.state = st -> m
      [] st = "ready" -> [Heartbeat(m) EXCEPT !.state = st, !.added = @ + 1]
      [] st = "closing" /\ m.state = "ready" -> [m EXCEPT !.state = st, !.removed = @ + 1]
      [] OTHER        -> [m EXCEPT !.state = st]

(* shutdown(): with an error the handle is closed at once, else after the  *)
(* shutdown request.  close() is shutdown(true).                           *)
Shutdown(m, hadError) ==
    IF Closing(m) THEN m
    ELSE [SetState(m, "closing") EXCEPT !.handle = IF hadError THEN "closing" ELSE "shutting"]
Close(m) == Shutdown(m, TRUE)

(* send(): a session that is closing writes nothing.                       *)
Send(m, sent) == IF Closing(m) THEN {m} ELSE {sent, Close(m)}
Reply(m, n)   == Send(m, [m EXCEPT !.replies[n] = @ + 1, !.waiting = @ \ {n}])

(* sendJob(): the first job is the reply to the login.                     *)
SendJob(m) == IF m.state = "waitReady" THEN Reply(SetState(m, "ready"), m.loginId)
              ELSE Send(m, m)

---------------------------------------------------------------------------
(* Requests.                                                               *)
Asked(m)  == [m EXCEPT !.asked = @ + 1]
Passed(m) == [m EXCEPT !.waiting = @ \union {m.asked}]

(* The listeners of a login in the order Proxy subscribes them: Login      *)
(* rejects a wrong password and DonateSplitter a pool it cannot use (bad),*)
(* both by an error and the close; CustomDiff sets a difficulty of the     *)
(* miner's own, and the splitter keeps the miner until it has a job.       *)
Login(m, right, custom, bad) ==
    LET t == [SetState(m, "waitReady") EXCEPT !.loginId = m.asked] IN
    CASE (Password /\ ~right) \/ bad -> {Close(u) : u \in Reply(Says(t, "refused"), m.asked)}
      [] OTHER -> {[Passed(Says(t, "login")) EXCEPT !.custom = custom]}

(* parseRequest("submit"): r tells whether the miner gave the id of its    *)
(* session.  A share of "low" difficulty and one with another's nonce      *)
(* ("stolen") are announced with their error, which the splitter keeps, as *)
(* it refuses a "stale" one; one that only reaches the miner's own         *)
(* difficulty is accepted here.                                            *)
Submit(m, r, share) ==
    CASE ~r -> Reply(Heartbeat(m), m.asked)
      [] m.custom /\ share = "own"  -> Reply(Heartbeat(m), m.asked)
      [] share = "stolen"           -> {Close(u) : u \in Reply(Heartbeat(m), m.asked)}
      [] share \in {"low", "stale"} -> Reply(Heartbeat(m), m.asked)
      [] OTHER                      -> {Passed(Heartbeat(m))}

Shares(m) == {"low", "stolen", "stale", "full"} \union (IF m.custom THEN {"own"} ELSE {})

(* parseRequest(): it returns false, and so ends the session, for anything *)
(* but a login at first, and for anything before the first job.            *)
ParseRequest(m) ==
    CASE m.state = "waitLogin" ->
             {Close(m)} \union UNION {Login(Asked(m), p, u, l) : p, u, l \in BOOLEAN}
      [] m.state = "waitReady" -> {Close(m)}
      [] OTHER -> Reply(Heartbeat(Asked(m)), m.asked + 1)           \* keepalived
                  \union Reply(Asked(m), m.asked + 1)               \* an unknown method
                  \union UNION {Submit(Asked(m), r, share) : r \in BOOLEAN, share \in Shares(m)}

(* parse(): a line that is short or no JSON object ends the session.       *)
Parse(m) == IF Closing(m) THEN {m} ELSE {Close(m)} \union ParseRequest(m)

(* ServerTls::read(): the handshake goes on, ends well or ends badly.      *)
TlsRead(m) == {Close(m)} \union UNION {Send(m, t) : t \in {m, [m EXCEPT !.tls = "ready"]}}

(* read() and startTLS(): the first byte tells whether the session is TLS. *)
TlsOf(m) == CASE m.tls # "unknown" -> {m.tls}
              [] ~TlsPort          -> {"plain"}
              [] Strict            -> {"shaking"}
              [] OTHER             -> {"shaking", "plain"}
Read(m) == UNION {LET t == [m EXCEPT !.tls = k] IN IF k = "shaking" THEN TlsRead(t) ELSE Parse(t)
                    : k \in TlsOf(m)}

---------------------------------------------------------------------------
(* Server::create(), with the constructor of Miner.  A miner that cannot   *)
(* be accepted is deleted at once: its key stays in the storage and its    *)
(* handle closes by a callback of its own, which asks for no miner.        *)
Accept == /\ s = NoMiner
          /\ s' = Says([s EXCEPT !.alive = TRUE, !.stored = TRUE, !.handle = "open",
                                 !.connections = 1, !.registered = TRUE], "connection")
AcceptFails == /\ s = NoMiner
               /\ s' = [s EXCEPT !.stored = TRUE, !.own = TRUE, !.handle = "closing"]

Arrives   == s.handle = "open" /\ s.asked < MaxRequests /\ s' \in Read(s)
StreamEnds == s.handle = "open" /\ \E hadError \in BOOLEAN : s' = Shutdown(s, hadError)
ShutDone  == s.handle = "shutting" /\ s' = [s EXCEPT !.handle = "closing"]

(* The callback of uv_close: CloseEvent, then m_storage.remove().          *)
HandleClosed ==
    /\ s.handle = "closing"
    /\ s' = IF s.own THEN [s EXCEPT !.handle = "none"]
            ELSE [Says(s, "close") EXCEPT !.handle = "none", !.alive = FALSE, !.stored = FALSE,
                                          !.connections = 0, !.registered = FALSE, !.waiting = {}]

(* The splitter: a job for a miner it keeps, an answer to a share.         *)
Kept == s.alive /\ s.heard = "login"
JobComes == Kept /\ s' \in SendJob(s)
Answer   == Kept /\ \E n \in s.waiting \ {s.loginId} : s' \in Reply(s, n)

(* How long a session may be silent, by the two clocks.                    *)
Patience(m) == Skew + (IF m.added > 0 THEN SocketTimeout ELSE LoginTimeout)
Expired(m)  == m.silent > Patience(m)

(* Miners::tick(), once a second.                                          *)
Tick == /\ s.registered /\ s.silent < MaxSilent
        /\ LET t == [s EXCEPT !.silent = IF Closing(s) THEN @ ELSE @ + 1]
           IN  s' = IF Expired(t) THEN Close(t) ELSE t

Init == s = NoMiner
Next == \/ Accept \/ AcceptFails \/ Arrives \/ StreamEnds \/ ShutDone \/ HandleClosed
        \/ JobComes \/ Answer \/ Tick
Spec == Init /\ [][Next]_s

(* The loop runs the callbacks of a shutdown and of a close.               *)
FairSpec == Spec /\ WF_s(ShutDone) /\ WF_s(HandleClosed)

---------------------------------------------------------------------------
TypeOK ==
    /\ {s.alive, s.stored, s.own, s.registered, s.custom} \subseteq BOOLEAN
    /\ s.handle \in {"none", "open", "shutting", "closing"}
    /\ s.state \in {"waitLogin", "waitReady", "ready", "closing"}
    /\ s.tls \in {"unknown", "plain", "shaking", "ready"}
    /\ s.heard \in {"nothing", "connection", "refused", "login", "close"}
    /\ {s.connections, s.added, s.removed} \subseteq {0, 1} /\ s.silent \in 0 .. MaxSilent
    /\ s.loginId \in 0 .. MaxRequests /\ s.asked \in 0 .. MaxRequests
    /\ s.replies \in [Requests -> 0 .. 1] /\ s.waiting \subseteq Requests

(* However a session ends, the counters and the registry follow it: a      *)
(* miner counted in is counted out once, a connection is counted while its *)
(* object lives, and the registry holds exactly the sessions whose end the *)
(* bus has not told.                                                       *)
CountersExact ==
    /\ s.added - s.removed = IF s.state = "ready" THEN 1 ELSE 0
    /\ s.connections = IF s.alive THEN 1 ELSE 0
    /\ s.registered <=> s.heard \in {"connection", "refused", "login"}

(* Listeners keep pointers to miners from a login to the close event, and  *)
(* libuv keeps handles: an object that either of them can still reach is   *)
(* alive and found in the storage (Storage::get asserts it).               *)
PointersLive ==
    /\ s.heard \in {"connection", "refused", "login"} => s.alive
    /\ (s.handle # "none" /\ ~s.own) => s.alive /\ s.stored

(* Of an open session each request is replied once, or waits: the login    *)
(* for the first job, a share for the pool.                                *)
RequestsAccounted ==
    ~Closing(s) => \A n \in Requests :
        s.replies[n] = IF n \in 1 .. s.asked /\ n \notin s.waiting THEN 1 ELSE 0

(* The bus tells a connection, then a login, then the close, in that order *)
(* and each once; nothing is told of a session that was closed.            *)
EventOrder ==
    \/ s'.heard = s.heard
    \/ s.heard = "nothing" /\ s'.heard = "connection"
    \/ s.heard = "connection" /\ s'.heard \in {"login", "refused"}
    \/ s.heard \in {"connection", "login", "refused"} /\ s'.heard = "close"

(* A session that is closing comes to its end: its object is deleted.      *)
NotClosing == ~(Closing(s) /\ s.alive)

(* Miners::tick leaves no session open that has been silent for longer than*)
(* the timeout and the skew of the clocks together.                        *)
SilenceBound == s.registered /\ ~Closing(s) => s.silent <= Patience(s)

(* A session stays open only for the timeout without a login or a sign of  *)
(* life (STRATUM.md: a miner sends keepalived to prevent connection        *)
(* timeout).  Not so where the wall clock is ahead.                        *)
SilentClosed == s.registered /\ ~Closing(s) =>
                    s.silent <= IF s.added > 0 THEN SocketTimeout ELSE LoginTimeout

---------------------------------------------------------------------------
(* Why the books of a session are right.  What a method is handed half way *)
(* through is described by three predicates of a record m: Life ties the   *)
(* object, its handle and what the bus was told together, Counts the       *)
(* counters and the state, Asks the requests.  A request is being answered *)
(* (Due) between its arrival and its reply; closing forgets all of them.   *)
Told == {"connection", "refused", "login"}

Sessions ==
    [alive : BOOLEAN, stored : BOOLEAN, own : BOOLEAN, registered : BOOLEAN, custom : BOOLEAN,
     handle : {"none", "open", "shutting", "closing"}, connections : {0, 1}, added : {0, 1}, removed : {0, 1},
     state : {"waitLogin", "waitReady", "ready", "closing"}, tls : {"unknown", "plain", "shaking", "ready"},
     silent : 0 .. MaxSilent, loginId : 0 .. MaxRequests, asked : 0 .. MaxRequests,
     replies : [Requests -> 0 .. 1], waiting : SUBSET Requests,
     heard : {"nothing", "connection", "refused", "login", "close"}]

Life(m) == /\ m.alive <=> m.registered
           /\ m.alive <=> m.connections = 1
           /\ m.alive <=> m.heard \in Told
           /\ m.alive => m.stored /\ ~m.own
           /\ (m.handle # "none" /\ ~m.own) => m.alive
           /\ m.handle = "open" <=> (m.alive /\ ~Closing(m))
           /\ (m.alive /\ m.state = "waitLogin") => m.heard = "connection"

Counts(m) == /\ m.state \in {"waitLogin", "waitReady"} => m.added = 0 /\ m.removed = 0
             /\ m.state = "ready" => m.added = 1 /\ m.removed = 0
             /\ m.state = "closing" => m.added = m.removed

Accounted(m, n) == m.replies[n] = IF n \in 1 .. m.asked /\ n \notin m.waiting THEN 1 ELSE 0

Asks(m) == /\ m.state = "waitLogin" => m.asked = 0
           /\ m.state = "waitReady" => m.loginId \in m.waiting
           /\ ~Closing(m) => m.waiting \subseteq 1 .. m.asked /\ \A n \in Requests : Accounted(m, n)

Due(m, n) == /\ m.state = "ready" /\ m.waiting \subseteq 1 .. m.asked
             /\ n \in 1 .. m.asked /\ m.replies[n] = 0
             /\ \A k \in Requests \ {n} : Accounted(m, k)

(* What the timer leaves open has been silent no longer than it may, as    *)
(* far as the two clocks agree.                                            *)
Quiet(m) == (m.registered /\ ~Closing(m)) => m.silent <= Patience(m)

Body(m) == m \in Sessions /\ Life(m) /\ Counts(m) /\ m.alive
Good(m) == m \in Sessions /\ Life(m) /\ Counts(m) /\ Asks(m) /\ Quiet(m)

SessionInv == Good(s)

LEMMA InitSession == ASSUME TimeAssumption, Init PROVE SessionInv
<1>1. NoMiner \in Sessions
  BY DEF TimeAssumption, NoMiner, Sessions
<1>2. Life(NoMiner) /\ Counts(NoMiner) /\ Quiet(NoMiner)
  BY DEF NoMiner, Life, Counts, Quiet, Told, Closing
<1>3. Asks(NoMiner)
  BY DEF NoMiner, Asks, Accounted
<1> QED
  BY <1>1, <1>2, <1>3 DEF Init, SessionInv, Good

(* However it is closed, a session that lives is left in order.            *)
LEMMA ShutdownGood ==
    ASSUME NEW m, Body(m), NEW hadError \in BOOLEAN
    PROVE  /\ Good(Shutdown(m, hadError)) /\ Body(Shutdown(m, hadError))
           /\ Shutdown(m, hadError).heard = m.heard
<1> DEFINE t == Shutdown(m, hadError)
<1>1. CASE Closing(m)
  BY <1>1 DEF Body, Good, Shutdown, Asks, Quiet, Closing
<1>2. CASE ~Closing(m)
  <2>1. /\ m \in Sessions /\ m.handle = "open" /\ m.state # "closing"
    BY <1>2 DEF Body, Life, Closing
  <2>2. t = [m EXCEPT !.state = "closing", !.handle = IF hadError THEN "closing" ELSE "shutting",
                      !.removed = IF m.state = "ready" THEN m.removed + 1 ELSE m.removed]
    BY <1>2, <2>1 DEF Shutdown, SetState, Sessions
  <2>3. (IF m.state = "ready" THEN m.removed + 1 ELSE m.removed) = m.added /\ m.added \in {0, 1}
    BY <2>1 DEF Body, Counts, Sessions
  <2>4. /\ t \in Sessions /\ t.state = "closing" /\ t.handle \in {"closing", "shutting"}
        /\ t.removed = m.added /\ t.added = m.added /\ t.heard = m.heard /\ t.alive = m.alive
        /\ t.stored = m.stored /\ t.own = m.own /\ t.connections = m.connections
        /\ t.registered = m.registered
    BY <2>1, <2>2, <2>3, ZenonT(60) DEF Sessions
  <2> HIDE DEF t
  <2> QED
    <3>1. Life(t) /\ Counts(t) /\ t.alive
      BY <2>1, <2>4 DEF Body, Life, Counts, Closing
    <3>2. Asks(t) /\ Quiet(t)
      BY <2>4 DEF Asks, Quiet, Closing
    <3> QED
      BY <2>4, <3>1, <3>2 DEF Body, Good, t
<1> QED
  BY <1>1, <1>2

LEMMA CloseGood ==
    ASSUME NEW m, Body(m)
    PROVE  Good(Close(m)) /\ Body(Close(m)) /\ Close(m).heard = m.heard
BY ShutdownGood DEF Close

(* What a reply writes is a session again.                                 *)
LEMMA Written ==
    ASSUME NEW m \in Sessions, NEW p \in [Requests -> 0 .. 1], NEW w \in SUBSET Requests
    PROVE  [m EXCEPT !.replies = p, !.waiting = w] \in Sessions
BY DEF Sessions

(* A reply that is written leaves the life of the session as it was, and   *)
(* one that cannot be written ends it.                                     *)
LEMMA ReplyBody ==
    ASSUME NEW m, Body(m), NEW n \in Requests, Closing(m) \/ m.replies[n] = 0
    PROVE  \A t \in Reply(m, n) : Body(t) /\ t.heard = m.heard
<1>1. CASE Closing(m)
  BY <1>1 DEF Reply, Send
<1>2. CASE ~Closing(m)
  <2> DEFINE r == [m EXCEPT !.replies[n] = @ + 1, !.waiting = @ \ {n}]
  <2>1. Reply(m, n) = {r, Close(m)}
    BY <1>2 DEF Reply, Send
  <2>2. Body(Close(m)) /\ Close(m).heard = m.heard
    BY CloseGood
  <2>3. m \in Sessions /\ m.replies \in [Requests -> 0 .. 1] /\ m.waiting \subseteq Requests /\ m.replies[n] = 0
    BY <1>2 DEF Body, Sessions
  <2> DEFINE p == [m.replies EXCEPT ![n] = m.replies[n] + 1]
             w == m.waiting \ {n}
  <2>4. r = [m EXCEPT !.replies = p, !.waiting = w]
    OBVIOUS
  <2>5. p \in [Requests -> 0 .. 1] /\ w \in SUBSET Requests
    BY <2>3
  <2> HIDE DEF p, w, r
  <2>0. r \in Sessions
    BY ONLY <2>3, <2>4, <2>5, Written
  <2>6. /\ r \in Sessions /\ r.heard = m.heard /\ r.alive = m.alive /\ r.state = m.state /\ r.handle = m.handle
        /\ r.stored = m.stored /\ r.own = m.own /\ r.connections = m.connections
        /\ r.registered = m.registered /\ r.added = m.added /\ r.removed = m.removed
    BY ONLY <2>0, <2>3, <2>4 DEF Sessions
  <2>7. Body(r)
    BY <2>6 DEF Body, Life, Counts, Closing
  <2> QED
    BY <2>1, <2>2, <2>6, <2>7 DEF r
<1> QED
  BY <1>1, <1>2

(* The reply to a request that is due settles it.                          *)
LEMMA ReplyGood ==
    ASSUME TimeAssumption, NEW m, Body(m), NEW n \in Requests, Due(m, n), Quiet(m)
    PROVE  \A t \in Reply(m, n) : Good(t) /\ t.heard = m.heard
<1> DEFINE r == [m EXCEPT !.replies[n] = @ + 1, !.waiting = @ \ {n}]
<1>1. ~Closing(m) /\ Reply(m, n) = {r, Close(m)}
  BY DEF Due, Reply, Send, Closing
<1>2. Good(Close(m)) /\ Close(m).heard = m.heard
  BY CloseGood
<1>3. Body(r)
  BY <1>1, ReplyBody DEF Due
<1>4. m \in Sessions /\ m.replies \in [Requests -> 0 .. 1] /\ m.asked \in Nat
  BY DEF Body, Sessions, TimeAssumption
<1>5. /\ r.heard = m.heard /\ r.state = m.state /\ r.registered = m.registered /\ r.added = m.added
      /\ r.silent = m.silent /\ r.asked = m.asked /\ r.waiting = m.waiting \ {n}
      /\ r.replies = [m.replies EXCEPT ![n] = m.replies[n] + 1]
  BY <1>4 DEF Sessions
<1> HIDE DEF r
<1>6. Quiet(r)
  BY <1>5 DEF Quiet, Closing, Patience
<1>7. \A k \in Requests : Accounted(r, k)
  <2> SUFFICES ASSUME NEW k \in Requests PROVE Accounted(r, k)
    OBVIOUS
  <2>1. CASE k = n
    BY <2>1, <1>4, <1>5 DEF Accounted, Due
  <2>2. CASE k # n
    <3>1. Accounted(m, k) /\ r.replies[k] = m.replies[k]
      BY <2>2, <1>4, <1>5 DEF Due
    <3> QED
      BY <2>2, <3>1, <1>5 DEF Accounted
  <2> QED
    BY <2>1, <2>2
<1>8. Asks(r)
  BY <1>5, <1>7 DEF Asks, Due, Closing
<1> QED
  BY <1>1, <1>2, <1>3, <1>5, <1>6, <1>8 DEF Good, Body

(* A request of a session that has its job is due when it has come.        *)
LEMMA AskedDue ==
    ASSUME TimeAssumption, NEW m, Good(m), Body(m), m.state = "ready", m.asked < MaxRequests,
           NEW t, t = Asked(m)
    PROVE  /\ Body(t) /\ Due(t, t.asked) /\ Quiet(t) /\ t.heard = m.heard
           /\ t.asked = m.asked + 1 /\ t.asked \in Requests
<1> DEFINE n == m.asked + 1
<1>1. m \in Sessions /\ m.asked \in Nat /\ n \in Requests /\ n \in 0 .. MaxRequests
  BY DEF Body, Sessions, TimeAssumption, Requests
<1>2. \A k \in Requests : k # n => (k \in 1 .. m.asked <=> k \in 1 .. n)
  BY <1>1 DEF Requests
<1>3. n \notin 1 .. m.asked /\ n \in 1 .. n /\ 1 .. m.asked \subseteq 1 .. n
  BY <1>1
<1>4. t = [m EXCEPT !.asked = n]
  BY DEF Asked
<1>5. /\ m.waiting \subseteq 1 .. m.asked /\ \A k \in Requests : Accounted(m, k)
  BY DEF Good, Asks, Closing
<1> HIDE DEF n
<1>6. /\ t \in Sessions /\ t.asked = n /\ t.heard = m.heard /\ t.alive = m.alive /\ t.stored = m.stored
      /\ t.own = m.own /\ t.registered = m.registered /\ t.handle = m.handle /\ t.connections = m.connections
      /\ t.added = m.added /\ t.removed = m.removed /\ t.state = m.state
      /\ t.silent = m.silent /\ t.replies = m.replies /\ t.waiting = m.waiting
  BY <1>1, <1>4 DEF Sessions
<1>7. Body(t) /\ Quiet(t)
  BY <1>6 DEF Body, Good, Life, Counts, Quiet, Patience, Closing
<1>8. Due(t, n)
  BY <1>1, <1>2, <1>3, <1>5, <1>6 DEF Due, Accounted
<1> QED
  BY <1>1, <1>6, <1>7, <1>8 DEF n

LEMMA HeartbeatDue ==
    ASSUME TimeAssumption, NEW m, Body(m), Due(m, m.asked), Quiet(m), NEW h, h = Heartbeat(m)
    PROVE  /\ Body(h) /\ Due(h, h.asked) /\ Quiet(h) /\ h.heard = m.heard /\ h.asked = m.asked
           /\ h.custom = m.custom
<1>1. m \in Sessions /\ 0 \in 0 .. MaxSilent /\ Skew \in Nat /\ SocketTimeout \in Nat /\ LoginTimeout \in Nat
  BY DEF Body, TimeAssumption
<1>2. h = [m EXCEPT !.silent = 0]
  BY DEF Heartbeat
<1>3. /\ h \in Sessions /\ h.asked = m.asked /\ h.heard = m.heard /\ h.alive = m.alive /\ h.stored = m.stored
      /\ h.own = m.own /\ h.registered = m.registered /\ h.handle = m.handle /\ h.connections = m.connections
      /\ h.added = m.added /\ h.removed = m.removed /\ h.state = m.state /\ h.custom = m.custom
      /\ h.silent = 0 /\ h.replies = m.replies /\ h.waiting = m.waiting
  BY <1>1, <1>2 DEF Sessions
<1>4. Body(h) /\ Quiet(h)
  BY <1>1, <1>3 DEF Body, Life, Counts, Quiet, Patience, Closing
<1>5. Due(h, h.asked)
  BY <1>3 DEF Due, Accounted
<1> QED
  BY <1>3, <1>4, <1>5

(* A request that is passed on to the splitter waits.                      *)
LEMMA PassedGood ==
    ASSUME TimeAssumption, NEW m, Body(m), Due(m, m.asked), m.asked \in Requests, Quiet(m)
    PROVE  Good(Passed(m)) /\ Passed(m).heard = m.heard
<1> DEFINE w == m.waiting \union {m.asked}
           t == Passed(m)
<1>1. m \in Sessions /\ m.asked \in Nat /\ w \in SUBSET Requests
  BY DEF Body, Sessions, TimeAssumption
<1>2. t = [m EXCEPT !.waiting = w]
  BY DEF Passed
<1>3. w \subseteq 1 .. m.asked /\ m.asked \in w /\ \A k : k # m.asked => (k \in w <=> k \in m.waiting)
  BY DEF Due
<1> HIDE DEF w, t
<1>4. /\ t \in Sessions /\ t.asked = m.asked /\ t.heard = m.heard /\ t.alive = m.alive /\ t.stored = m.stored
      /\ t.own = m.own /\ t.registered = m.registered /\ t.handle = m.handle /\ t.connections = m.connections
      /\ t.added = m.added /\ t.removed = m.removed /\ t.state = m.state
      /\ t.silent = m.silent /\ t.replies = m.replies /\ t.waiting = w
  BY <1>1, <1>2 DEF Sessions
<1>5. Life(t) /\ Counts(t) /\ Quiet(t)
  BY <1>4 DEF Body, Life, Counts, Quiet, Patience, Closing
<1>6. \A k \in Requests : Accounted(t, k)
  BY <1>3, <1>4 DEF Due, Accounted
<1>7. Asks(t)
  BY <1>3, <1>4, <1>6 DEF Asks, Due, Closing
<1> QED
  BY <1>4, <1>5, <1>7 DEF Good, t

(* A share is replied to, or passed on; or the session ends.               *)
LEMMA SubmitGood ==
    ASSUME TimeAssumption, NEW m, Body(m), Due(m, m.asked), m.asked \in Requests, Quiet(m),
           NEW r, NEW share
    PROVE  \A t \in Submit(m, r, share) : Good(t) /\ t.heard = m.heard
<1> DEFINE h == Heartbeat(m)
<1>1. Body(h) /\ Due(h, h.asked) /\ Quiet(h) /\ h.heard = m.heard /\ h.asked = m.asked /\ h.custom = m.custom
  BY HeartbeatDue
<1> HIDE DEF h
<1>2. \A t \in Reply(h, m.asked) : Good(t) /\ t.heard = m.heard
  BY <1>1, ReplyGood
<1>3. \A t \in {Close(u) : u \in Reply(h, m.asked)} : Good(t) /\ t.heard = m.heard
  <2>1. \A u \in Reply(h, m.asked) : Body(u) /\ u.heard = m.heard
    BY <1>1, ReplyBody DEF Due
  <2>2. \A u \in Reply(h, m.asked) : Good(Close(u)) /\ Close(u).heard = m.heard
    BY <2>1, CloseGood
  <2> QED
    BY <2>2
<1>4. Good(Passed(h)) /\ Passed(h).heard = m.heard
  BY <1>1, PassedGood
<1>5. Submit(m, r, share) \in {Reply(h, m.asked), {Close(u) : u \in Reply(h, m.asked)}, {Passed(h)}}
  BY DEF Submit, h
<1> QED
  BY <1>2, <1>3, <1>4, <1>5

(* A login is refused and its session closed, or it waits for a job.       *)
LEMMA LoginGood ==
    ASSUME TimeAssumption, NEW m, Good(m), Body(m), m.state = "waitLogin", m.asked < MaxRequests,
           NEW right \in BOOLEAN, NEW custom \in BOOLEAN, NEW bad \in BOOLEAN
    PROVE  \A t \in Login(Asked(m), right, custom, bad) : Good(t) /\ t.heard \in {"login", "refused"}
<1>1. m \in Sessions /\ m.asked = 0 /\ m.waiting = {} /\ 1 \in Requests
  <2>1. m \in Sessions /\ m.asked = 0 /\ m.waiting \subseteq 1 .. m.asked /\ MaxRequests \in Nat
    BY DEF Good, Asks, Closing, TimeAssumption
  <2> QED
    BY <2>1 DEF Requests
<1>2. \A n \in Requests : m.replies[n] = 0
  BY <1>1 DEF Good, Asks, Closing, Accounted
<1>3. 1 \in 0 .. MaxRequests
  BY <1>1 DEF Requests, TimeAssumption
<1> DEFINE t == [SetState(Asked(m), "waitReady") EXCEPT !.loginId = Asked(m).asked]
           k == Says(t, "login")
           f == Says(t, "refused")
<1>4. Asked(m) = [m EXCEPT !.asked = 1]
  BY <1>1 DEF Asked
<1>5. t = [m EXCEPT !.asked = 1, !.state = "waitReady", !.loginId = 1]
  BY <1>1, <1>4 DEF SetState, Sessions
<1> HIDE DEF t
<1>6. /\ t \in Sessions /\ t.asked = 1 /\ t.heard = m.heard /\ t.alive = m.alive /\ t.stored = m.stored
      /\ t.own = m.own /\ t.registered = m.registered /\ t.handle = m.handle /\ t.connections = m.connections
      /\ t.added = m.added /\ t.removed = m.removed /\ t.state = "waitReady" /\ t.loginId = 1
      /\ t.silent = m.silent /\ t.replies = m.replies /\ t.waiting = m.waiting
  <2>1. m \in Sessions /\ 1 \in 0 .. MaxRequests
    BY <1>1, <1>3
  <2>2. t \in Sessions
    BY <2>1, <1>5 DEF Sessions
  <2> QED
    BY <2>1, <2>2, <1>1, <1>5 DEF Sessions
<1>7. /\ f \in Sessions /\ f.heard = "refused" /\ f.alive = m.alive /\ f.stored = m.stored
      /\ f.own = m.own /\ f.registered = m.registered /\ f.handle = m.handle /\ f.connections = m.connections
      /\ f.added = m.added /\ f.removed = m.removed /\ f.state = "waitReady" /\ f.replies = m.replies
  BY <1>6 DEF Says, Sessions
<1> HIDE DEF f
<1>8. Body(f) /\ f.replies[1] = 0
  BY <1>1, <1>2, <1>7 DEF Body, Life, Counts, Closing, Told
<1>9. \A u \in {Close(v) : v \in Reply(f, 1)} : Good(u) /\ u.heard = "refused"
  <2>1. \A v \in Reply(f, 1) : Body(v) /\ v.heard = "refused"
    BY <1>1, <1>7, <1>8, ReplyBody
  <2>2. \A v \in Reply(f, 1) : Good(Close(v)) /\ Close(v).heard = "refused"
    BY <2>1, CloseGood
  <2> QED
    BY <2>2
<1> DEFINE p == [Passed(k) EXCEPT !.custom = custom]
<1>10. p = [t EXCEPT !.heard = "login", !.waiting = {1}, !.custom = custom]
  BY <1>1, <1>6, ZenonT(60) DEF Passed, Says, Sessions
<1> HIDE DEF p, k
<1>11. /\ p \in Sessions /\ p.heard = "login" /\ p.alive = m.alive /\ p.stored = m.stored
       /\ p.own = m.own /\ p.registered = m.registered /\ p.handle = m.handle /\ p.connections = m.connections
       /\ p.added = m.added /\ p.removed = m.removed /\ p.state = "waitReady" /\ p.replies = m.replies
       /\ p.loginId = 1 /\ p.asked = 1 /\ p.waiting = {1} /\ p.silent = m.silent
  <2>1. t \in Sessions /\ {1} \in SUBSET Requests
    BY <1>1, <1>6
  <2>2. p \in Sessions
    BY <2>1, <1>10, ZenonT(60) DEF Sessions
  <2>3. p.heard = "login" /\ p.waiting = {1}
    BY <2>1, <1>10 DEF Sessions
  <2>4. /\ p.alive = t.alive /\ p.stored = t.stored
        /\ p.own = t.own /\ p.registered = t.registered /\ p.handle = t.handle /\ p.connections = t.connections
        /\ p.added = t.added /\ p.removed = t.removed /\ p.state = t.state /\ p.replies = t.replies
        /\ p.loginId = t.loginId /\ p.asked = t.asked /\ p.silent = t.silent
    BY <2>1, <1>10 DEF Sessions
  <2> QED
    BY <2>2, <2>3, <2>4, <1>6
<1>12. Life(p) /\ Counts(p) /\ Quiet(p)
  BY <1>11 DEF Body, Good, Life, Counts, Quiet, Patience, Closing, Told
<1>13. Asks(p)
  <2>1. \A n \in Requests : Accounted(p, n)
    BY <1>2, <1>11 DEF Accounted
  <2> QED
    BY <2>1, <1>11 DEF Asks
<1>14. Good(p)
  BY <1>11, <1>12, <1>13 DEF Good
<1>15. Login(Asked(m), right, custom, bad) \in {{Close(u) : u \in Reply(f, 1)}, {p}}
  <2>1. Asked(m).asked = 1
    BY <1>1, <1>4 DEF Sessions
  <2> QED
    BY <2>1 DEF Login, t, k, f, p
<1> QED
  BY <1>9, <1>11, <1>14, <1>15

(* What the bus may have been told in a step that began with m.            *)
Heard(m, t) == \/ t.heard = m.heard
               \/ m.heard = "connection" /\ t.heard \in {"login", "refused"}

(* Every request of an open session leaves it in order, and so does every  *)
(* line that is none.                                                      *)
LEMMA ParseGood ==
    ASSUME TimeAssumption, NEW m, Good(m), Body(m), m.asked < MaxRequests
    PROVE  \A t \in Parse(m) : Good(t) /\ Heard(m, t)
<1>1. CASE Closing(m)
  BY <1>1 DEF Parse, Heard
<1>2. CASE ~Closing(m)
  <2>1. Parse(m) = {Close(m)} \union ParseRequest(m)
    BY <1>2 DEF Parse
  <2>2. Good(Close(m)) /\ Heard(m, Close(m))
    BY CloseGood DEF Heard
  <2>3. CASE m.state = "waitLogin"
    <3>1. ParseRequest(m) = {Close(m)} \union UNION {Login(Asked(m), p, u, l) : p, u, l \in BOOLEAN}
      BY <2>3 DEF ParseRequest
    <3>2. m.heard = "connection"
      BY <2>3 DEF Body, Life
    <3>3. \A p, u, l \in BOOLEAN : \A t \in Login(Asked(m), p, u, l) : Good(t) /\ Heard(m, t)
      BY <2>3, <3>2, LoginGood DEF Heard
    <3> QED
      BY <2>1, <2>2, <3>1, <3>3
  <2>4. CASE m.state = "waitReady"
    <3>1. ParseRequest(m) = {Close(m)}
      BY <2>4 DEF ParseRequest
    <3> QED
      BY <2>1, <2>2, <3>1
  <2>5. CASE m.state = "ready"
    <3> DEFINE a == Asked(m)
               h == Heartbeat(a)
               n == m.asked + 1
    <3>1. Body(a) /\ Due(a, a.asked) /\ Quiet(a) /\ a.heard = m.heard /\ a.asked = n /\ n \in Requests
      BY <2>5, AskedDue
    <3>2. Body(h) /\ Due(h, h.asked) /\ Quiet(h) /\ h.heard = m.heard /\ h.asked = n
      BY <3>1, HeartbeatDue
    <3>3. ParseRequest(m) = Reply(h, n) \union Reply(a, n)
                            \union UNION {Submit(a, r, share) : r \in BOOLEAN, share \in Shares(m)}
      BY <2>5 DEF ParseRequest
    <3> HIDE DEF a, h, n
    <3>4. \A r, share : \A t \in Submit(a, r, share) : Good(t) /\ Heard(m, t)
      BY <3>1, SubmitGood DEF Heard
    <3>5. \A t \in Reply(h, n) : Good(t) /\ Heard(m, t)
      BY <3>1, <3>2, ReplyGood DEF Heard
    <3>6. \A t \in Reply(a, n) : Good(t) /\ Heard(m, t)
      BY <3>1, ReplyGood DEF Heard
    <3>7. ASSUME NEW t \in Parse(m)
          PROVE  \/ t = Close(m) \/ t \in Reply(h, n) \/ t \in Reply(a, n)
                 \/ \E r, share : t \in Submit(a, r, share)
      BY <2>1, <3>3
    <3> QED
      BY <2>2, <3>4, <3>5, <3>6, <3>7
  <2>6. m.state \in {"waitLogin", "waitReady", "ready"}
    BY <1>2 DEF Body, Sessions, Closing
  <2> QED
    BY <2>3, <2>4, <2>5, <2>6
<1> QED
  BY <1>1, <1>2

(* How far TLS has come concerns nothing else.                             *)
LEMMA TlsKept ==
    ASSUME NEW m, Good(m), Body(m), NEW k \in {"unknown", "plain", "shaking", "ready"},
           NEW t, t = [m EXCEPT !.tls = k]
    PROVE  Good(t) /\ Body(t) /\ t.heard = m.heard /\ t.asked = m.asked /\ t.state = m.state
<1>1. m \in Sessions
  BY DEF Body
<1>2. /\ t \in Sessions /\ t.asked = m.asked /\ t.heard = m.heard /\ t.alive = m.alive /\ t.stored = m.stored
      /\ t.own = m.own /\ t.registered = m.registered /\ t.handle = m.handle /\ t.connections = m.connections
      /\ t.added = m.added /\ t.removed = m.removed /\ t.state = m.state /\ t.loginId = m.loginId
      /\ t.silent = m.silent /\ t.replies = m.replies /\ t.waiting = m.waiting
  BY <1>1 DEF Sessions
<1>3. Life(t) /\ Counts(t) /\ Quiet(t)
  BY <1>2 DEF Good, Life, Counts, Quiet, Patience, Closing
<1>4. Asks(t)
  BY <1>2 DEF Good, Asks, Accounted, Closing
<1> QED
  BY <1>2, <1>3, <1>4 DEF Good, Body

LEMMA ReadGood ==
    ASSUME TimeAssumption, NEW m, Good(m), Body(m), m.asked < MaxRequests
    PROVE  \A t \in Read(m) : Good(t) /\ Heard(m, t)
<1> DEFINE T(k) == [m EXCEPT !.tls = k]
<1>1. TlsOf(m) \subseteq {"unknown", "plain", "shaking", "ready"}
  <2>1. m.tls \in {"unknown", "plain", "shaking", "ready"}
    BY DEF Body, Sessions
  <2> QED
    BY <2>1 DEF TlsOf
<1>2. Read(m) = UNION {IF k = "shaking" THEN TlsRead(T(k)) ELSE Parse(T(k)) : k \in TlsOf(m)}
  BY DEF Read
<1> SUFFICES ASSUME NEW k \in TlsOf(m)
             PROVE  \A t \in IF k = "shaking" THEN TlsRead(T(k)) ELSE Parse(T(k)) : Good(t) /\ Heard(m, t)
  BY <1>2
<1> DEFINE u == T(k)
<1>3. Good(u) /\ Body(u) /\ u.heard = m.heard /\ u.asked = m.asked
  BY <1>1, TlsKept
<1> DEFINE r == [u EXCEPT !.tls = "ready"]
<1>4. Good(r) /\ Body(r) /\ r.heard = u.heard
  BY <1>3, TlsKept
<1> HIDE DEF T, u, r
<1>5. \A t \in TlsRead(u) : Good(t) /\ Heard(m, t)
  <2>1. Good(Close(u)) /\ Close(u).heard = u.heard /\ Good(Close(r)) /\ Close(r).heard = r.heard
    BY <1>3, <1>4, CloseGood
  <2>2. \A t \in TlsRead(u) : t \in {u, r, Close(u), Close(r)}
    BY DEF TlsRead, Send, r
  <2> QED
    BY <2>1, <2>2, <1>3, <1>4 DEF Heard
<1>6. \A t \in Parse(u) : Good(t) /\ Heard(m, t)
  BY <1>3, ParseGood DEF Heard
<1> QED
  BY <1>5, <1>6 DEF u

(* What a step leaves of a session that has not begun or is at its end.    *)
LEMMA EndsGood ==
    ASSUME TimeAssumption, SessionInv, Accept \/ AcceptFails \/ ShutDone \/ HandleClosed
    PROVE  Good(s') /\ EventOrder
<1>1. s \in Sessions /\ Good(s)
  BY DEF SessionInv, Good
<1>2. CASE Accept
  <2>1. s = NoMiner /\ s' = [s EXCEPT !.alive = TRUE, !.stored = TRUE, !.handle = "open",
                             !.connections = 1, !.registered = TRUE, !.heard = "connection"]
    BY <1>2 DEF Accept, Says, NoMiner
  <2>2. /\ s'.alive /\ s'.stored /\ s'.own = FALSE /\ s'.registered /\ s'.handle = "open" /\ s'.connections = 1
        /\ s'.heard = "connection" /\ s'.state = "waitLogin" /\ s'.added = 0 /\ s'.removed = 0 /\ s'.silent = 0
        /\ s'.asked = 0 /\ s'.waiting = {} /\ s'.replies = [n \in Requests |-> 0]
    BY <2>1 DEF NoMiner
  <2>3. s' \in Sessions
    BY ONLY <1>1, <2>1, ZenonT(60) DEF Sessions
  <2>4. Life(s') /\ Counts(s') /\ Quiet(s')
    BY <2>2 DEF Life, Counts, Quiet, Patience, Told, Closing, TimeAssumption
  <2>5. Asks(s')
    BY <2>2 DEF Asks, Accounted
  <2>6. s.heard = "nothing"
    BY <2>1 DEF NoMiner
  <2> QED
    BY <2>2, <2>3, <2>4, <2>5, <2>6 DEF Good, EventOrder
<1>3. CASE AcceptFails
  <2>1. s = NoMiner /\ s' = [s EXCEPT !.stored = TRUE, !.own = TRUE, !.handle = "closing"]
    BY <1>3 DEF AcceptFails
  <2>2. /\ s'.alive = FALSE /\ s'.own /\ s'.registered = FALSE /\ s'.handle = "closing" /\ s'.connections = 0
        /\ s'.heard = "nothing" /\ s'.state = "waitLogin" /\ s'.added = 0 /\ s'.removed = 0 /\ s'.silent = 0
        /\ s'.asked = 0 /\ s'.waiting = {} /\ s'.replies = [n \in Requests |-> 0]
    BY <2>1 DEF NoMiner
  <2>3. s' \in Sessions
    BY ONLY <1>1, <2>1, ZenonT(60) DEF Sessions
  <2>4. Life(s') /\ Counts(s') /\ Quiet(s')
    BY <2>2 DEF Life, Counts, Quiet, Told, Closing
  <2>5. Asks(s')
    BY <2>2 DEF Asks, Accounted
  <2>6. s.heard = "nothing"
    BY <2>1 DEF NoMiner
  <2> QED
    BY <2>2, <2>3, <2>4, <2>5, <2>6 DEF Good, EventOrder
<1>4. CASE ShutDone
  <2>1. s.handle = "shutting" /\ s' = [s EXCEPT !.handle = "closing"]
    BY <1>4 DEF ShutDone
  <2>2. /\ s' \in Sessions /\ s'.asked = s.asked /\ s'.heard = s.heard /\ s'.alive = s.alive /\ s'.stored = s.stored
        /\ s'.own = s.own /\ s'.registered = s.registered /\ s'.handle = "closing" /\ s'.connections = s.connections
        /\ s'.added = s.added /\ s'.removed = s.removed /\ s'.state = s.state /\ s'.loginId = s.loginId
        /\ s'.silent = s.silent /\ s'.replies = s.replies /\ s'.waiting = s.waiting
    BY <1>1, <2>1 DEF Sessions
  <2>3. Life(s') /\ Counts(s') /\ Quiet(s')
    BY <1>1, <2>1, <2>2 DEF Good, Life, Counts, Quiet, Patience, Closing
  <2>4. Asks(s')
    BY <1>1, <2>2 DEF Good, Asks, Accounted, Closing
  <2> QED
    BY <2>2, <2>3, <2>4 DEF Good, EventOrder
<1>5. CASE HandleClosed /\ s.own
  <2>1. s.handle = "closing" /\ s' = [s EXCEPT !.handle = "none"]
    BY <1>5 DEF HandleClosed
  <2>2. /\ s' \in Sessions /\ s'.asked = s.asked /\ s'.heard = s.heard /\ s'.alive = s.alive /\ s'.stored = s.stored
        /\ s'.own = s.own /\ s'.registered = s.registered /\ s'.handle = "none" /\ s'.connections = s.connections
        /\ s'.added = s.added /\ s'.removed = s.removed /\ s'.state = s.state /\ s'.loginId = s.loginId
        /\ s'.silent = s.silent /\ s'.replies = s.replies /\ s'.waiting = s.waiting
    BY <1>1, <2>1 DEF Sessions
  <2>3. Life(s') /\ Counts(s') /\ Quiet(s')
    BY <1>1, <1>5, <2>1, <2>2 DEF Good, Life, Counts, Quiet, Patience, Closing
  <2>4. Asks(s')
    BY <1>1, <2>2 DEF Good, Asks, Accounted, Closing
  <2> QED
    BY <2>2, <2>3, <2>4 DEF Good, EventOrder
<1>6. CASE HandleClosed /\ ~s.own
  <2>1. /\ s.handle = "closing"
        /\ s' = [s EXCEPT !.heard = "close", !.handle = "none", !.alive = FALSE, !.stored = FALSE,
                          !.connections = 0, !.registered = FALSE, !.waiting = {}]
    BY <1>6 DEF HandleClosed, Says
  <2>2. s.alive /\ s.heard \in Told /\ s.state = "closing"
    BY <1>1, <1>6, <2>1 DEF Good, Life, Closing
  <2>3. /\ s' \in Sessions /\ s'.heard = "close" /\ s'.alive = FALSE /\ s'.registered = FALSE
        /\ s'.handle = "none" /\ s'.connections = 0 /\ s'.added = s.added /\ s'.removed = s.removed
        /\ s'.state = s.state
    BY <1>1, <2>1, ZenonT(60) DEF Sessions
  <2>4. Life(s') /\ Counts(s') /\ Quiet(s') /\ Asks(s')
    BY <1>1, <2>2, <2>3 DEF Good, Life, Counts, Quiet, Asks, Told, Closing
  <2> QED
    BY <2>2, <2>3, <2>4 DEF Good, EventOrder, Told
<1> QED
  BY <1>2, <1>3, <1>4, <1>5, <1>6

(* The first job replies to the login; a later one is written, or ends the *)
(* session.                                                                *)
LEMMA JobGood ==
    ASSUME TimeAssumption, NEW m, Good(m), Body(m)
    PROVE  \A t \in SendJob(m) : Good(t) /\ t.heard = m.heard
<1>1. CASE m.state # "waitReady"
  <2>1. \A t \in SendJob(m) : t \in {m, Close(m)}
    BY <1>1 DEF SendJob, Send
  <2> QED
    BY <2>1, CloseGood
<1>2. CASE m.state = "waitReady"
  <2> DEFINE r == SetState(m, "ready")
  <2>1. /\ m \in Sessions /\ m.loginId \in m.waiting /\ m.waiting \subseteq 1 .. m.asked
        /\ \A n \in Requests : Accounted(m, n)
        /\ m.added = 0 /\ m.removed = 0
    BY <1>2 DEF Good, Asks, Counts, Closing
  <2>2. m.waiting \subseteq Requests /\ m.loginId \in Requests
    BY <2>1 DEF Sessions
  <2>3. r = [m EXCEPT !.silent = 0, !.state = "ready", !.added = 1]
    <3> DEFINE h == [m EXCEPT !.silent = 0]
    <3>1. r = [h EXCEPT !.state = "ready", !.added = h.added + 1]
      BY <1>2 DEF SetState, Heartbeat
    <3>2. h.added = 0 /\ 0 + 1 = 1
      BY <2>1 DEF Sessions
    <3>3. r = [h EXCEPT !.state = "ready", !.added = 1]
      BY <3>1, <3>2
    <3> QED
      BY <2>1, <3>3 DEF Sessions
  <2> HIDE DEF r
  <2>4. 0 \in 0 .. MaxSilent /\ Skew \in Nat /\ SocketTimeout \in Nat
    BY DEF TimeAssumption
  <2>5. /\ r \in Sessions /\ r.asked = m.asked /\ r.heard = m.heard /\ r.alive = m.alive /\ r.stored = m.stored
        /\ r.own = m.own /\ r.registered = m.registered /\ r.handle = m.handle /\ r.connections = m.connections
        /\ r.added = 1 /\ r.removed = m.removed /\ r.state = "ready"
        /\ r.silent = 0 /\ r.replies = m.replies /\ r.waiting = m.waiting
    BY <2>1, <2>3, <2>4 DEF Sessions
  <2>6. Body(r)
    BY <1>2, <2>1, <2>5 DEF Body, Life, Counts, Closing
  <2>7. Quiet(r)
    BY <2>4, <2>5 DEF Quiet, Patience
  <2>8. Due(r, m.loginId)
    BY <2>1, <2>2, <2>5 DEF Due, Accounted
  <2>9. SendJob(m) = Reply(r, m.loginId)
    BY <1>2 DEF SendJob, r
  <2> QED
    BY <2>2, <2>5, <2>6, <2>7, <2>8, <2>9, ReplyGood
<1> QED
  BY <1>1, <1>2

(* The answer to a share that waits replies to it.                         *)
LEMMA AnswerGood ==
    ASSUME TimeAssumption, NEW m, Good(m), Body(m), NEW n \in m.waiting \ {m.loginId}, n \in Requests
    PROVE  \A t \in Reply(m, n) : Good(t) /\ t.heard = m.heard
<1>1. CASE Closing(m)
  BY <1>1 DEF Reply, Send
<1>2. CASE m.state = "ready"
  <2>1. Due(m, n) /\ Quiet(m)
    BY <1>2 DEF Good, Asks, Due, Accounted, Closing
  <2> QED
    BY <2>1, ReplyGood
<1>3. CASE m.state = "waitReady"
  <2> DEFINE r == [m EXCEPT !.replies[n] = @ + 1, !.waiting = @ \ {n}]
  <2>1. Reply(m, n) = {r, Close(m)} /\ m \in Sessions
    BY <1>3 DEF Reply, Send, Closing, Body
  <2>2. Good(Close(m)) /\ Close(m).heard = m.heard
    BY CloseGood
  <2>3. /\ m.waiting \subseteq 1 .. m.asked /\ \A k \in Requests : Accounted(m, k)
        /\ m.loginId \in m.waiting /\ m.asked \in Nat
    BY <1>3, <2>1 DEF Good, Asks, Closing, Sessions, TimeAssumption
  <2>4. Body(r)
    BY <2>1, <2>3, ReplyBody DEF Accounted
  <2>5. /\ r.heard = m.heard /\ r.state = m.state /\ r.registered = m.registered /\ r.added = m.added
        /\ r.silent = m.silent /\ r.asked = m.asked /\ r.waiting = m.waiting \ {n} /\ r.loginId = m.loginId
        /\ r.replies = [m.replies EXCEPT ![n] = m.replies[n] + 1]
    BY <2>1 DEF Sessions
  <2> HIDE DEF r
  <2>6. \A k \in Requests : Accounted(r, k)
    <3> SUFFICES ASSUME NEW k \in Requests PROVE Accounted(r, k)
      OBVIOUS
    <3>1. m.replies \in [Requests -> 0 .. 1]
      BY <2>1 DEF Sessions
    <3>2. CASE k = n
      BY <3>1, <3>2, <2>3, <2>5 DEF Accounted
    <3>3. CASE k # n
      <4>1. Accounted(m, k) /\ r.replies[k] = m.replies[k]
        BY <3>1, <3>3, <2>3, <2>5
      <4> QED
        BY <3>3, <4>1, <2>5 DEF Accounted
    <3> QED
      BY <3>2, <3>3
  <2>7. Asks(r)
    BY <1>3, <2>3, <2>5, <2>6 DEF Asks, Closing
  <2>8. Quiet(r)
    BY <2>5 DEF Good, Quiet, Patience, Closing
  <2> QED
    BY <2>1, <2>2, <2>4, <2>5, <2>7, <2>8 DEF Good, Body
<1>4. m.state # "waitLogin"
  BY DEF Good, Asks, Closing
<1>5. m.state \in {"waitLogin", "waitReady", "ready", "closing"}
  BY DEF Body, Sessions
<1> QED
  BY <1>1, <1>2, <1>3, <1>4, <1>5 DEF Closing

(* A tick closes what has been silent for too long.                        *)
LEMMA TickGood ==
    ASSUME TimeAssumption, SessionInv, Tick
    PROVE  Good(s') /\ s'.heard = s.heard
<1> DEFINE q == IF Closing(s) THEN s.silent ELSE s.silent + 1
           t == [s EXCEPT !.silent = q]
<1>1. s \in Sessions /\ Good(s) /\ s.registered /\ s.silent < MaxSilent
  BY DEF SessionInv, Good, Tick
<1>2. q \in 0 .. MaxSilent /\ s.silent \in Nat
  BY <1>1 DEF Sessions, TimeAssumption
<1>3. s' = IF Expired(t) THEN Close(t) ELSE t
  BY <1>1 DEF Tick, Sessions
<1>4. Closing(s) => q = s.silent
  OBVIOUS
<1> HIDE DEF q
<1>5. /\ t \in Sessions /\ t.asked = s.asked /\ t.heard = s.heard /\ t.alive = s.alive /\ t.stored = s.stored
      /\ t.own = s.own /\ t.registered = s.registered /\ t.handle = s.handle /\ t.connections = s.connections
      /\ t.added = s.added /\ t.removed = s.removed /\ t.state = s.state /\ t.loginId = s.loginId
      /\ t.silent = q /\ t.replies = s.replies /\ t.waiting = s.waiting
  BY <1>1, <1>2 DEF Sessions
<1> HIDE DEF t
<1>6. Body(t)
  BY <1>1, <1>5 DEF Good, Body, Life, Counts, Closing
<1>7. CASE Expired(t)
  BY <1>3, <1>5, <1>6, <1>7, CloseGood
<1>8. CASE ~Expired(t)
  <2>1. q <= Patience(t)
    <3>1. q \in Nat /\ Skew \in Nat /\ SocketTimeout \in Nat /\ LoginTimeout \in Nat
      BY <1>2 DEF TimeAssumption
    <3> QED
      BY <3>1, <1>5, <1>8 DEF Expired, Patience
  <2>2. Quiet(t)
    BY <2>1, <1>5 DEF Quiet
  <2>3. Asks(t)
    BY <1>1, <1>5 DEF Good, Asks, Accounted, Closing
  <2> QED
    BY <2>2, <2>3, <1>3, <1>5, <1>6, <1>8 DEF Good, Body
<1> QED
  BY <1>7, <1>8

LEMMA NextSession ==
    ASSUME TimeAssumption, SessionInv, [Next]_s
    PROVE  SessionInv' /\ (EventOrder \/ UNCHANGED s)
<1> SUFFICES Good(s') /\ (EventOrder \/ UNCHANGED s)
  BY DEF SessionInv, Good, Life, Counts, Asks, Accounted, Quiet, Patience, Closing, Told, Sessions, Requests
<1>1. Good(s) /\ (s.alive => Body(s)) /\ (s.handle = "open" => s.alive)
  BY DEF SessionInv, Good, Body, Life
<1>2. CASE Accept \/ AcceptFails \/ ShutDone \/ HandleClosed
  BY <1>2, EndsGood
<1>3. CASE Arrives
  <2>1. Body(s) /\ s.asked < MaxRequests /\ s' \in Read(s)
    BY <1>1, <1>3 DEF Arrives
  <2>2. Good(s') /\ Heard(s, s')
    BY <1>1, <2>1, ReadGood
  <2> QED
    BY <2>2 DEF Heard, EventOrder
<1>4. CASE StreamEnds
  <2>1. Body(s)
    BY <1>1, <1>4 DEF StreamEnds
  <2>2. PICK hadError \in BOOLEAN : s' = Shutdown(s, hadError)
    BY <1>4 DEF StreamEnds
  <2> QED
    BY <2>1, <2>2, ShutdownGood DEF EventOrder
<1>5. CASE JobComes
  BY <1>1, <1>5, JobGood DEF JobComes, Kept, EventOrder
<1>6. CASE Answer
  <2>1. PICK n \in s.waiting \ {s.loginId} : s' \in Reply(s, n)
    BY <1>6 DEF Answer
  <2>2. Body(s) /\ n \in Requests
    BY <1>1, <1>6, <2>1 DEF Answer, Kept, Good, Sessions
  <2> QED
    BY <1>1, <2>1, <2>2, AnswerGood DEF EventOrder
<1>7. CASE Tick
  BY <1>7, TickGood DEF EventOrder
<1>8. CASE UNCHANGED s
  BY <1>1, <1>8
<1> QED
  BY <1>2, <1>3, <1>4, <1>5, <1>6, <1>7, <1>8 DEF Next

(* However a session goes, its object, its handle, the counters and its    *)
(* requests stay together.                                                 *)
THEOREM SessionInvariant == ASSUME TimeAssumption PROVE Spec => []SessionInv
<1>1. Init => SessionInv
  BY InitSession
<1>2. SessionInv /\ [Next]_s => SessionInv'
  BY NextSession
<1> QED
  BY <1>1, <1>2, PTL DEF Spec

LEMMA SessionSound ==
    ASSUME TimeAssumption, SessionInv
    PROVE  TypeOK /\ CountersExact /\ PointersLive /\ RequestsAccounted
<1>1. s \in Sessions /\ Life(s) /\ Counts(s) /\ Asks(s)
  BY DEF SessionInv, Good
<1>2. TypeOK
  BY <1>1 DEF Sessions, TypeOK
<1>3. CountersExact
  BY <1>1 DEF Sessions, Life, Counts, CountersExact, Told
<1>4. PointersLive
  BY <1>1 DEF Life, PointersLive, Told
<1>5. RequestsAccounted
  BY <1>1 DEF Asks, RequestsAccounted, Accounted
<1> QED
  BY <1>2, <1>3, <1>4, <1>5

(* Counters and registry follow a session however it ends, nothing that is *)
(* deleted can be reached, and each request is replied once or waits.      *)
THEOREM SessionsSafe ==
    ASSUME TimeAssumption
    PROVE  Spec => [](TypeOK /\ CountersExact /\ PointersLive /\ RequestsAccounted)
BY SessionInvariant, SessionSound, PTL

(* The bus tells of a session in one order.                                *)
THEOREM EventsInOrder == ASSUME TimeAssumption PROVE Spec => [][EventOrder]_s
<1>1. SessionInv /\ [Next]_s => [EventOrder]_s
  BY NextSession
<1> QED
  BY <1>1, SessionInvariant, PTL DEF Spec

(* A silent session is closed in time, up to the skew of the clocks; where *)
(* they agree, within the timeout.                                         *)
LEMMA SilenceBounded ==
    ASSUME TimeAssumption, SessionInv
    PROVE  SilenceBound /\ (Skew = 0 => SilentClosed)
<1>1. Quiet(s)
  BY DEF SessionInv, Good
<1>2. SocketTimeout \in Nat /\ LoginTimeout \in Nat
  BY DEF TimeAssumption
<1> QED
  BY <1>1, <1>2 DEF Quiet, Patience, SilenceBound, SilentClosed

THEOREM SilenceEnds ==
    ASSUME TimeAssumption
    PROVE  Spec => [](SilenceBound /\ (Skew = 0 => SilentClosed))
BY SessionInvariant, SilenceBounded, PTL
=============================================================================
