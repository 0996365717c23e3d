--------------------------- MODULE StratumClient ---------------------------
(***************************************************************************)
(* The class xmrig::Client (base/net/stratum/Client, BaseClient) with its  *)
(* Socks5 and Tls helpers: one connection to one pool and the socket, the  *)
(* DNS request and the two deadlines it owns.  The client is a record c    *)
(* whose fields are the members of the class, and each method an operator  *)
(* from c to the next c; a method that writes to the socket returns the    *)
(* set of the two outcomes.  libuv is external: io[h] is what the loop     *)
(* does with handle h.                                                     *)
(*                                                                         *)
(* Deadlines are armed or not (expire, keepAlive): an armed one may pass   *)
(* at any tick.  Message ids are renumbered from 2 at each login, as only  *)
(* the ids of one login can meet.  asks is what the pool has been sent on  *)
(* this connection and has not answered; answered is what has been passed  *)
(* to onResultAccepted since the login: both only observe.                 *)
(*                                                                         *)
(* Nothing in the code keeps an attempt from beginning beside a socket:    *)
(* connect() looks at neither m_state nor m_socket, and client.reconnect   *)
(* leaves the socket it came on open.  strayed records that either         *)
(* happened.  From then on m_socket and the handles go separate ways; the  *)
(* client is followed until libuv is handed something that is gone, but    *)
(* what it was sent is not: on two sockets the numbers of two logins meet, *)
(* and any answer may come.                                                *)
(***************************************************************************)
EXTENDS Integers, FiniteSets

CONSTANTS Handles,        \* socket handles the loop may hold at once
          JobIds,         \* jobs the pool may send
          MaxSeq,         \* bound of the messages sent after one login
          MaxFails,       \* bound of the count of failures
          Index,          \* m_id: position in the list of pools
          Proxy, TLS,     \* the pool is reached by a SOCKS5 proxy / over TLS
          KeepAlive,      \* the pool announces the keepalive extension
          PoolReconnects  \* the pool may send client.reconnect

HandlesAssumption == Handles \subseteq Nat \ {0} /\ IsFiniteSet(Handles)
SwitchAssumption  == {Proxy, TLS, KeepAlive, PoolReconnects} \subseteq BOOLEAN
BoundsAssumption  == MaxSeq \in Nat \ {0} /\ MaxFails \in Nat \ {0}

VARIABLES c,
          strayed  \* an attempt was begun beside a socket
vars == <<c, strayed>>

SocketStates == {"unconnected", "lookup", "connecting", "connected", "closing", "reconnecting"}
Kinds == {"login", "share", "ping"}
Asks  == [id : 1 .. MaxSeq, kind : Kinds]

NewClient ==
    [state |-> "unconnected", socket |-> 0, io |-> [h \in Handles |-> "none"],
     dns |-> FALSE, expire |-> FALSE, keepAlive |-> FALSE, failures |-> 0,
     listener |-> TRUE, alive |-> TRUE, socks5 |-> "none", tls |-> "none",
     ext |-> FALSE, loggedIn |-> FALSE, job |-> 0, results |-> {}, sequence |-> 1,
     asks |-> {}, answered |-> {}, inRead |-> FALSE]

SetState(s, st) ==
    IF s.state = st THEN s
    ELSE [s EXCEPT !.state  = st,
                   !.expire = CASE st = "lookup"                        -> FALSE
                                [] st \in {"connecting", "reconnecting"} -> TRUE
                                [] OTHER                                -> @]

(* close(): the socket is handed to uv_close, onClose comes later.  In a   *)
(* lookup there is no socket and nothing happens.                          *)
Close(s) ==
    IF s.state \in {"closing", "unconnected"} \/ s.socket = 0 THEN s
    ELSE [SetState(s, "closing") EXCEPT !.io = [@ EXCEPT ![s.socket] = "closing"],
                                        !.loggedIn = FALSE]

Bump(n) == IF n < MaxFails THEN n + 1 ELSE n

(* m_storage.remove(m_key): the client is deleted, and with it m_socket,   *)
(* whether or not libuv still holds it.                                    *)
Removed(s) == [s EXCEPT !.alive = FALSE, !.dns = FALSE, !.socket = 0,
                 !.io = [h \in Handles |-> IF h = s.socket THEN "freed" ELSE @[h]]]

\* bug: the count of failures is not looked at: a disconnected client goes on
ReconnectAlways(s) ==
    IF ~s.listener THEN Removed(s)
    ELSE [SetState(s, "reconnecting") EXCEPT !.keepAlive = FALSE, !.loggedIn = FALSE,
                                             !.failures = Bump(@)]

(* reconnect(): the owner is told that the connection is gone.             *)
Reconnect(s) ==
    IF ~s.listener THEN Removed(s)
    ELSE IF s.failures = -1 THEN [s EXCEPT !.keepAlive = FALSE, !.loggedIn = FALSE]
    ELSE [SetState(s, "reconnecting") EXCEPT !.keepAlive = FALSE, !.loggedIn = FALSE,
                                             !.failures = Bump(@)]

(* onClose(): whichever handle was closed, it is m_socket that is deleted. *)
OnClose(s, h) ==
    Reconnect([SetState([s EXCEPT !.socket = 0], "unconnected") EXCEPT
                 !.tls = "none", !.asks = {},
                 !.io  = [k \in Handles |-> CASE k = s.socket /\ k = h -> "none"
                                              [] k = s.socket /\ k # h -> "freed"
                                              [] k # s.socket /\ k = h -> "leaked"
                                              [] OTHER                 -> @[k]]])

(* connect() and resolve(): a new helper for the proxy or for TLS.         *)
Connect(s) ==
    [SetState(s, "lookup") EXCEPT
        !.socks5   = IF Proxy THEN "idle" ELSE @,
        !.tls      = IF TLS /\ ~Proxy THEN "new" ELSE @,
        !.failures = IF @ = -1 THEN 0 ELSE @,
        !.dns      = TRUE]

(* connect(addr), called with the records of the host: a new socket, in    *)
(* the place of the one there may be.                                      *)
Dial(s, h) == [SetState(s, "connecting") EXCEPT !.socket = h, !.asks = {},
                                                !.io = [@ EXCEPT ![h] = "connecting"]]

(* onResolved(): without an address the attempt has failed, and a client   *)
(* that was deleted meanwhile goes.                                        *)
Resolved(s) ==
    {Reconnect([s EXCEPT !.dns = FALSE])} \union
    {Dial([s EXCEPT !.dns = FALSE], h) : h \in {k \in Handles : s.listener /\ s.io[k] = "none"}}

---------------------------------------------------------------------------
(* Writing.  A failed or short write closes the client, and so does a      *)
(* message longer than kMaxSendBufferSize.                                 *)
IsTLS(s) == s.tls # "none"

Secure(s) == IsTLS(s) => s.tls = "ready"

Writable(s) == s.state = "connected" /\ s.socket # 0 /\ s.io[s.socket] \in {"open", "mute"}

Sent(s, id, kind) ==
    [s EXCEPT !.expire   = TRUE,
              !.asks     = IF Secure(s) THEN @ \union {[id |-> id, kind |-> kind]} ELSE @,
              !.sequence = @ + 1]

Send(s, id, kind) ==
    IF ~Writable(s) THEN {s} ELSE {Sent(s, id, kind), Close(s)}

Written(s) == {s, Close(s)}

\* send(BIO): what Socks5 and Tls write
Write(s) == IF ~Writable(s) THEN {s} ELSE Written(s)

Login(s) == Send([s EXCEPT !.results = {}, !.sequence = 1, !.answered = {}], 1, "login")

(* submit(): the result is filed under the number the message is to get,   *)
(* before it is sent and whether or not it is.  A job without difficulty   *)
(* closes the client.                                                      *)

Submit(s) == Send([s EXCEPT !.results = @ \union {s.sequence}], s.sequence, "share")

Ping(s) == {[t EXCEPT !.keepAlive = FALSE] : t \in Send(s, s.sequence, "ping")}

(* handshake(), Socks5::handshake(), Tls::handshake().                     *)
Handshake(s) ==
    IF s.socks5 # "none" THEN Write([s EXCEPT !.socks5 = "sent1"])
    ELSE IF IsTLS(s) THEN Write([s EXCEPT !.expire = TRUE, !.tls = "shaking"])
    ELSE Login(s)

(* uv_read_start(m_socket) when h has been connected, which need not be    *)
(* m_socket: what is connected and not read is "mute".                     *)
ReadStart(s, h) ==
    [s EXCEPT !.io = [k \in Handles |-> CASE k = s.socket /\ (k = h \/ @[k] = "mute") -> "open"
                                           [] k = h /\ k # s.socket                  -> "mute"
                                           [] OTHER                                  -> @[k]]]

(* onConnect(): only a client that still waits for it takes the result.    *)
(* Without m_socket there is nothing to read from: the process ends.       *)
OnConnect(s, h, ok) ==
    LET t == [s EXCEPT !.io = [@ EXCEPT ![h] = IF ok THEN "mute" ELSE "failed"]] IN
    IF ~s.alive \/ (ok /\ s.state = "connected") THEN {t}
    ELSE IF ~ok THEN {IF s.state = "connecting" THEN Close(t) ELSE t}
    ELSE IF s.socket = 0 THEN {}
    ELSE Handshake(SetState(ReadStart(s, h), "connected"))

---------------------------------------------------------------------------
(* Reading.                                                                *)

(* Socks5::read(): a short reply is dropped, a refusal closes; the second  *)
(* good reply ends the proxy's part and the handshake starts again.        *)
SocksRead(s, reply) ==
    CASE reply = "short" -> {s}
      [] reply = "bad"   -> {Close(s)}
      [] reply = "good" /\ s.socks5 = "sent1" -> Write([s EXCEPT !.socks5 = "sent2"])
      [] OTHER -> Handshake([s EXCEPT !.socks5 = "none",
                                      !.tls = IF TLS /\ @ = "none" THEN "new" ELSE @])

(* Tls::read() while the handshake runs.                                   *)
TlsRead(s, reply) ==
    CASE reply = "short" -> Write(s)
      [] reply = "bad"   -> {s, Close(s)}     \* a protocol error / a wrong certificate
      [] OTHER           -> Login([s EXCEPT !.tls = "ready"])

(* startTimeout(), at every line.                                          *)
StartTimeout(s) == [s EXCEPT !.expire = FALSE, !.keepAlive = IF s.ext THEN TRUE ELSE @]

(* parseJob() and the caller that closes when it fails: a job that cannot  *)
(* be read or whose algorithm is unknown or not taken by the strategy (0), *)
(* or the current job again.                                               *)
VerifyAlgorithm(j) == j # 0

JobTaken(s, j) == VerifyAlgorithm(j) /\ j # s.job
OnJob(s, j)    == IF JobTaken(s, j) THEN [s EXCEPT !.job = j] ELSE Close(s)

(* parseExtensions(): of those the pool announces, keepalive is one a      *)
(* deadline depends on.                                                    *)
ParseExtensions(s) ==
    IF KeepAlive THEN StartTimeout([s EXCEPT !.ext = TRUE]) ELSE [s EXCEPT !.ext = FALSE]

(* parseLogin() of an answer with an id and job j.                         *)
OnLogin(s, j) ==
    LET t == ParseExtensions(s) IN
    IF JobTaken(t, j)
    THEN [t EXCEPT !.job = j, !.failures = 0, !.loggedIn = (s.state = "connected")]
    ELSE Close(t)

(* handleSubmitResponse().                                                 *)
HandleSubmitResponse(s, a) ==
    IF a.id \in s.results
    THEN [s EXCEPT !.results = @ \ {a.id}, !.answered = @ \union {a}] ELSE s

IsCriticalError(message) == message = "critical"

(* parseResponse() of an answer to a: an error, by its message critical or *)
(* not; a result that is no object; or a result.                           *)
ParseResponse(s, a, how, j) ==
    CASE how \in {"critical", "mild"} ->
             IF Index = 1 \/ IsCriticalError(how) THEN Close(HandleSubmitResponse(s, a))
             ELSE HandleSubmitResponse(s, a)
      [] how = "empty" -> s
      [] OTHER -> IF a.id = 1 THEN OnLogin(s, j) ELSE HandleSubmitResponse(s, a)

Owed(s) == IF strayed THEN Asks ELSE s.asks

Answered(s, a) == [s EXCEPT !.asks = @ \ {a}]

(* The lines a pool may send, read by parse(): noise, a job, or an answer  *)
(* to what it was asked; for client.reconnect see Redirected.              *)
Lines(s) ==
    LET t == [StartTimeout(s) EXCEPT !.inRead = TRUE] IN
    {t} \union {OnJob(t, j) : j \in JobIds \union {0}}
        \union {ParseResponse(Answered(t, a), a, how, j) :
                   a \in Owed(s), how \in {"critical", "mild", "empty", "result"},
                   j \in JobIds \union {0}}

(* read() of data on handle h, by what is in front of the line reader.     *)
Data(s) ==
    IF ~s.listener THEN {Reconnect(s)}
    ELSE IF s.socks5 # "none" THEN UNION {SocksRead(s, r) : r \in {"short", "bad", "good"}}
    ELSE IF s.tls = "shaking" THEN UNION {TlsRead(s, r) : r \in {"short", "bad", "good"}}
    ELSE Lines(s)

(* tick(): what a passed deadline does in each state.                      *)
Ticked(s) ==
    CASE s.state \in {"connected", "connecting"} /\ s.expire    -> {Close(s)}
      [] s.state = "connected" /\ s.keepAlive /\ ~s.expire      -> Ping(s)
      [] s.state = "reconnecting" /\ s.expire                   -> {Connect(s)}
      [] OTHER                                                  -> {s}

(* disconnect() and deleteLater().                                         *)
Disconnected(s) == Close([s EXCEPT !.keepAlive = FALSE, !.expire = FALSE, !.failures = -1])

Deleted(s) ==
    LET t == Disconnected([s EXCEPT !.listener = FALSE])
    IN  IF t.state = "closing" /\ t.socket # 0 THEN t ELSE Removed(t)

---------------------------------------------------------------------------
(* The owner of the client: a strategy, which submits between              *)
(* onLoginSuccess and onClose, and connects when it likes (PoolStrategy    *)
(* says when it does so beside a socket).                                  *)
Becomes(t) == c' = IF strayed' THEN [t EXCEPT !.asks = {}, !.answered = {}] ELSE t

Do(t) == Becomes([t EXCEPT !.inRead = FALSE])

OwnerConnects    == c.listener /\ strayed' = (strayed \/ c.socket # 0) /\ Do(Connect(c))
OwnerDisconnects == c.listener /\ UNCHANGED strayed /\ Do(Disconnected(c))
OwnerDeletes     == c.listener /\ UNCHANGED strayed /\ Do(Deleted(c))
OwnerSubmits     == /\ c.listener /\ (c.loggedIn \/ c.state = "closing") /\ c.sequence \in 2 .. MaxSeq
                    /\ UNCHANGED strayed
                    /\ \/ \E t \in Submit(c) : Do(t)
                       \/ Do(Close(c))
Tick             == /\ c.listener /\ (c.expire \/ (c.keepAlive /\ c.sequence <= MaxSeq))
                    /\ UNCHANGED strayed
                    /\ \E t \in Ticked(c) : Do(t)

(* The loop.                                                               *)
Reads(h)         == c.alive /\ (c.io[h] = "open" \/ (c.inRead /\ h = c.socket))

DnsAnswers       == c.dns /\ UNCHANGED strayed /\ \E t \in Resolved(c) : Do(t)
Connected(h)     == /\ c.io[h] = "connecting" /\ UNCHANGED strayed
                    /\ \E ok \in BOOLEAN : \E t \in OnConnect(c, h, ok) : Do(t)
CloseDone(h)     == c.io[h] = "closing" /\ UNCHANGED strayed /\ Do(OnClose(c, h))
ReadEnds(h)      == c.io[h] = "open" /\ UNCHANGED strayed /\ Do(Close(c))
ReadData(h)      == Reads(h) /\ UNCHANGED strayed /\ \E t \in Data(c) : Becomes(t)

(* The line client.reconnect: the owner is told of a failure, the socket   *)
(* stays as it is, and reading goes on.                                    *)
Redirected(h)    == /\ PoolReconnects /\ Reads(h) /\ c.listener
                    /\ c.socks5 = "none" /\ c.tls # "shaking"
                    /\ strayed' = TRUE
                    /\ Becomes(Reconnect([StartTimeout(c) EXCEPT !.inRead = TRUE]))

Init == c = NewClient /\ strayed = FALSE
Next == \/ OwnerConnects \/ OwnerDisconnects \/ OwnerDeletes \/ OwnerSubmits \/ Tick
        \/ DnsAnswers
        \/ \E h \in Handles : Connected(h) \/ CloseDone(h) \/ ReadEnds(h) \/ ReadData(h) \/ Redirected(h)

Spec == Init /\ [][Next]_vars

(* The strategy ticks its clients every second, a DNS request is answered, *)
(* and the loop runs the close callbacks.                                  *)
FairSpec == /\ Spec /\ WF_vars(Tick) /\ WF_vars(DnsAnswers)
            /\ \A h \in Handles : WF_vars(CloseDone(h))

---------------------------------------------------------------------------
TypeOK ==
    /\ strayed \in BOOLEAN
    /\ c.state \in SocketStates /\ c.socket \in Handles \union {0}
    /\ c.io \in [Handles -> {"none", "connecting", "open", "mute", "closing", "failed", "freed", "leaked"}]
    /\ {c.dns, c.expire, c.keepAlive, c.listener, c.alive, c.ext, c.loggedIn, c.inRead} \subseteq BOOLEAN
    /\ c.failures \in -1 .. MaxFails
    /\ c.socks5 \in {"none", "idle", "sent1", "sent2"}
    /\ c.tls \in {"none", "new", "shaking", "ready"}
    /\ c.job \in JobIds \union {0}
    /\ c.sequence \in 1 .. MaxSeq + 1 /\ c.results \subseteq 2 .. MaxSeq
    /\ c.asks \subseteq Asks /\ c.answered \subseteq Asks

(* Of a client that was never made to begin beside a socket: every handle  *)
(* the loop holds is its present socket, and the present socket is held by *)
(* the loop.  None is leaked, none is freed while libuv still uses it,     *)
(* whatever order closing, deleting, DNS answers and deadlines come in.    *)
SocketOwned ==
    ~strayed => /\ \A h \in Handles : c.io[h] # "none" => c.socket = h
                /\ c.socket # 0 => c.io[c.socket] \in {"connecting", "open", "closing"}

(* onResolved() and read() assert that there is still a listener           *)
(* (Client.cpp, assert(m_listener != nullptr)): after deleteLater neither  *)
(* the DNS request nor an open socket calls back, unless the client was    *)
(* made to begin beside a socket.  Then they do: see ListenerThere.        *)
AssertionsHold ==
    ~strayed => (c.dns \/ (\E h \in Handles : c.io[h] = "open" /\ c.alive) => c.listener)

(* Both assertions as the code states them, of every behaviour: who is     *)
(* called with an address or with data has a listener.                     *)
ListenerThere == [][DnsAnswers \/ (\E h \in Handles : ReadData(h)) => c.listener]_vars

(* What the strategy gets as the result of a share is the pool's answer to *)
(* a share of this connection, not to a login or a ping that happens to    *)
(* have the number, and each share is answered at most once.               *)
AnswersMatch ==
    ~strayed => /\ \A a \in c.answered : a.kind = "share"
                /\ \A a \in c.answered, b \in c.answered \union c.asks : a.id = b.id => a = b

(* The answer of every share the pool has been sent and still owes finds   *)
(* its entry: no accepted share is lost on the way back.                   *)
SharesFiled == ~strayed => \A a \in c.asks : a.kind = "share" => a.id \in c.results

(* The client as its owner sees it: of one that began beside a socket      *)
(* anything may be heard.                                                  *)
Link ==
    IF strayed THEN [phase |-> "astray", fails |-> 0] ELSE
    [phase |-> IF ~c.alive THEN "off" ELSE
               CASE c.state = "lookup" /\ c.dns           -> "lookup"
                 [] c.state = "connected" /\ c.loggedIn   -> "up"
                 [] c.state = "connecting"                -> "trying"
                 [] c.state = "connected" /\ ~c.loggedIn  -> "trying"
                 [] c.state = "closing"                   -> "closing"
                 [] c.state = "reconnecting" /\ c.expire  -> "waiting"
                 [] OTHER                                 -> "off",
     fails |-> c.failures]

(* What IClient promises of it.                                            *)
AsLink == INSTANCE PoolLink WITH link <- Link

(* Connected, told to stop, or at the beginning of another attempt: a      *)
(* client that was told to connect gets there again and again, and is      *)
(* never stuck connecting, closing or waiting, unless it was made to begin *)
(* beside a socket.                                                        *)
NotStuck == \/ c.failures = -1 \/ ~c.listener \/ c.state \in {"unconnected", "connected", "lookup"}
            \/ strayed
=============================================================================
