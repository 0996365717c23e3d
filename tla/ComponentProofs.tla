--------------------------- MODULE ComponentProofs ---------------------------
(***************************************************************************)
(* Proofs about components for every value of their constants: the nonce   *)
(* table of an upstream (NonceStorageSpec), and then, each as an instance  *)
(* with variables of its own, the client of a pool, the strategy that      *)
(* holds such clients, the simple splitter and the donations, the clients  *)
(* of daemons, and the transport: requests, lookups and lines.             *)
(***************************************************************************)
EXTENDS NonceStorageSpec, Sequences, FiniteSetTheorems, WellFoundedInduction, TLAPS

CONSTANTS Handles, JobIds, MaxSeq, MaxFails, Index, Proxy, TLS, KeepAlive, PoolReconnects
VARIABLES c, strayed
Dial == INSTANCE StratumClient

---------------------------------------------------------------------------
(* The client of a pool (StratumClient).  What the runs check is not       *)
(* inductive: it needs which socket belongs to which state, that nothing   *)
(* is asked before the handshakes are over, and that the number of the     *)
(* next message is not that of a filed share.                              *)
DialAllowed == Dial!HandlesAssumption /\ Dial!SwitchAssumption /\ Dial!BoundsAssumption

HandleNos     == Handles \union {0}
HandleStates  == [Handles -> {"none", "connecting", "open", "mute", "closing", "failed", "freed", "leaked"}]
FailureCounts == -1 .. MaxFails
RequestNos    == 2 .. MaxSeq
NextNos       == 1 .. MaxSeq + 1

Clients ==
    [state : Dial!SocketStates, socket : HandleNos, io : HandleStates,
     dns : BOOLEAN, expire : BOOLEAN, keepAlive : BOOLEAN, failures : FailureCounts,
     listener : BOOLEAN, alive : BOOLEAN, socks5 : {"none", "idle", "sent1", "sent2"},
     tls : {"none", "new", "shaking", "ready"}, ext : BOOLEAN, loggedIn : BOOLEAN,
     job : JobIds \union {0}, results : SUBSET RequestNos, sequence : NextNos,
     asks : SUBSET Dial!Asks, answered : SUBSET Dial!Asks, inRead : BOOLEAN]

Through(s) == s.socks5 = "none" /\ s.tls \in {"none", "ready"}

Sockets(s) ==
    /\ \A h \in Handles : s.io[h] # "none" => s.socket = h
    /\ s.socket = 0 <=> s.state \in {"unconnected", "lookup", "reconnecting"}
    /\ s.state = "connecting" => s.io[s.socket] = "connecting"
    /\ s.state = "connected"  => s.io[s.socket] = "open"
    /\ s.state = "closing"    => s.io[s.socket] = "closing"

Owned(s) ==
    /\ s.dns => s.state = "lookup" /\ s.listener
    /\ s.listener => s.alive
    /\ ~s.listener => s.failures = -1 /\ ~s.inRead /\ (s.alive => s.state = "closing")
    /\ ~s.alive => s.socket = 0

(* Between the handshakes and the end of the socket.                       *)
Reading(s) == s.state \in {"connected", "closing"} /\ Through(s)

Bare(s) ==
    /\ s.socket = 0 \/ s.state = "connecting" \/ ~Through(s) => s.asks = {}
    /\ s.keepAlive /\ s.alive => Reading(s)
    /\ s.inRead => s.socket = 0 \/ Reading(s)

Filed(s) ==
    /\ \A a \in s.asks \union s.answered : a.id < s.sequence
    /\ \A a \in s.asks : a.kind = "share" <=> a.id \in s.results
    /\ \A a \in s.answered : a.kind = "share"
    /\ \A a, b \in s.asks \union s.answered : a.id = b.id => a = b
    /\ \A a \in s.asks, b \in s.answered : a.id # b.id

InOrder(s) ==
    /\ s.loggedIn => s.state = "connected" /\ Through(s) /\ \A a \in s.asks : a.id # 1
    /\ s.state = "connected" /\ s.socks5 = "none" => s.tls # "new"
    /\ s.state = "connected" /\ Through(s) => s.sequence >= 2 /\ \A r \in s.results : r < s.sequence

Whole(s) == s \in Clients /\ Sockets(s) /\ Owned(s) /\ Bare(s) /\ Filed(s)
DialGood(s) == Whole(s) /\ InOrder(s)
DialInv == /\ c \in Clients /\ strayed \in BOOLEAN
           /\ ~strayed => DialGood(c) /\ (c.socket = 0 => ~c.inRead)

(* The client as its owner sees it, and the steps of a method that only    *)
(* goes on or closes.                                                      *)
LinkOf(s) ==
    [phase |-> IF ~s.alive THEN "off" ELSE
               CASE s.state = "lookup" /\ s.dns           -> "lookup"
                 [] s.state = "connected" /\ s.loggedIn   -> "up"
                 [] s.state = "connecting"                -> "trying"
                 [] s.state = "connected" /\ ~s.loggedIn  -> "trying"
                 [] s.state = "closing"                   -> "closing"
                 [] s.state = "reconnecting" /\ s.expire  -> "waiting"
                 [] OTHER                                 -> "off",
     fails |-> s.failures]

Kept(s, t) == \/ LinkOf(t) = LinkOf(s)
              \/ LinkOf(s).phase \in {"trying", "up"} /\ LinkOf(t) = [LinkOf(s) EXCEPT !.phase = "closing"]

Same(s, t) == /\ t.socket = s.socket /\ t.alive = s.alive /\ t.listener = s.listener
              /\ t.failures = s.failures /\ t.job = s.job /\ t.dns = s.dns /\ t.ext = s.ext
              /\ t.socks5 = s.socks5 /\ t.tls = s.tls /\ t.inRead = s.inRead

Books(s, t) == /\ t.asks = s.asks /\ t.answered = s.answered /\ t.results = s.results
               /\ t.sequence = s.sequence

LEMMA DialState ==
    ASSUME NEW s \in Clients, NEW st \in Dial!SocketStates
    PROVE  LET t == Dial!SetState(s, st) IN
           /\ t \in Clients /\ t.state = st /\ Same(s, t) /\ Books(s, t) /\ t.io = s.io
           /\ t.loggedIn = s.loggedIn /\ t.keepAlive = s.keepAlive
           /\ st = "reconnecting" /\ s.state # st => t.expire
<1>1. CASE s.state = st
  BY <1>1 DEF Dial!SetState, Same, Books
<1>2. CASE s.state # st
  <2> DEFINE e == CASE st = "lookup"                        -> FALSE
                    [] st \in {"connecting", "reconnecting"} -> TRUE
                    [] OTHER                                -> s.expire
             t == [s EXCEPT !.state = st, !.expire = e]
  <2>1. e \in BOOLEAN /\ (st = "reconnecting" => e)
    BY DEF Clients
  <2>2. Dial!SetState(s, st) = t
    BY <1>2 DEF Dial!SetState
  <2> HIDE DEF e
  <2>3. /\ t \in Clients /\ t.state = st /\ Same(s, t) /\ Books(s, t) /\ t.io = s.io
        /\ t.loggedIn = s.loggedIn /\ t.keepAlive = s.keepAlive /\ t.expire = e
    BY <2>1 DEF Clients, Same, Books
  <2> QED
    BY <2>1, <2>2, <2>3
<1> QED
  BY <1>1, <1>2

LEMMA DialCloseFields ==
    ASSUME NEW s \in Clients, s.state \in {"connecting", "connected"}, s.socket \in Handles, s.socket # 0
    PROVE  LET t == Dial!Close(s) IN
           /\ t \in Clients /\ Same(s, t) /\ Books(s, t) /\ t.state = "closing"
           /\ t.io = [s.io EXCEPT ![s.socket] = "closing"] /\ ~t.loggedIn /\ t.keepAlive = s.keepAlive
<1> DEFINE o == [s.io EXCEPT ![s.socket] = "closing"]
           u == Dial!SetState(s, "closing")
           t == Dial!Close(s)
<1>1. /\ u \in Clients /\ u.state = "closing" /\ Same(s, u) /\ Books(s, u) /\ u.io = s.io
      /\ u.keepAlive = s.keepAlive
  BY DialState DEF Dial!SocketStates
<1>2. /\ o \in HandleStates
      /\ t = [u EXCEPT !.io = o, !.loggedIn = FALSE]
  BY <1>1 DEF Clients, HandleStates, Dial!Close, Same
<1> HIDE DEF o, u, t
<1>3. u \in Clients
  BY <1>1
<1>4. t \in Clients /\ Same(u, t) /\ Books(u, t) /\ t.state = u.state /\ t.io = o /\ ~t.loggedIn
      /\ t.keepAlive = u.keepAlive
  BY <1>2, <1>3, ZenonT(60) DEF Clients, FailureCounts, Same, Books
<1> QED
  BY <1>1, <1>4 DEF Same, Books, t, o

LEMMA DialClose ==
    ASSUME DialAllowed, NEW s, Whole(s), s.state # "connected" => ~s.loggedIn
    PROVE  LET t == Dial!Close(s) IN
           /\ DialGood(t) /\ Kept(s, t) /\ Same(s, t)
           /\ t.state = (IF s.socket = 0 THEN s.state ELSE "closing")
           /\ Books(s, t) /\ t.keepAlive = s.keepAlive
<1> DEFINE t == Dial!Close(s)
<1>1. CASE s.state = "closing" \/ s.socket = 0
  <2>1. t = s
    BY <1>1 DEF Dial!Close
  <2>2. s.state # "connected"
    BY <1>1 DEF Whole, Sockets
  <2> QED
    BY <1>1, <2>1, <2>2 DEF DialGood, InOrder, Kept, Same, Books, Whole, Sockets
<1>2. CASE s.state # "closing" /\ s.socket # 0
  <2>1. s \in Clients /\ s.state \in {"connecting", "connected"} /\ s.socket \in Handles
        /\ s.alive /\ s.listener
    BY <1>2 DEF Whole, Sockets, Owned, Clients, HandleNos, Dial!SocketStates
  <2> DEFINE o == [s.io EXCEPT ![s.socket] = "closing"]
  <2>4. o[s.socket] = "closing" /\ \A h \in Handles : o[h] # "none" => s.socket = h
    BY <2>1 DEF Whole, Sockets, Clients, HandleStates
  <2>5. /\ t \in Clients /\ Same(s, t) /\ Books(s, t) /\ t.state = "closing" /\ t.io = o
        /\ ~t.loggedIn /\ t.keepAlive = s.keepAlive
    BY <1>2, <2>1, DialCloseFields
  <2> HIDE DEF t, o
  <2>6. Sockets(t) /\ Owned(t)
    BY <2>1, <2>4, <2>5, <1>2 DEF Whole, Owned, Same, Sockets
  <2>7. Bare(t) /\ Filed(t) /\ InOrder(t)
    BY <2>1, <2>5, <1>2 DEF Whole, Bare, Filed, InOrder, Same, Books, Reading, Through
  <2>8. Kept(s, t)
    BY <2>1, <2>5 DEF Kept, LinkOf, Same
  <2> QED
    BY <1>2, <2>5, <2>6, <2>7, <2>8 DEF DialGood, Whole, t
<1> QED
  BY <1>1, <1>2

(* Writing.                                                                *)
LEMMA DialWrite ==
    ASSUME DialAllowed, NEW s, DialGood(s)
    PROVE  \A t \in Dial!Write(s) : DialGood(t) /\ Kept(s, t)
<1>1. s.state # "connected" => ~s.loggedIn
  BY DEF DialGood, InOrder
<1>2. DialGood(Dial!Close(s)) /\ Kept(s, Dial!Close(s))
  BY <1>1, DialClose DEF DialGood
<1> QED
  BY <1>2 DEF Dial!Write, Dial!Written, Kept

(* A message has a number of its own.                                      *)
LEMMA DialSent ==
    ASSUME DialAllowed, NEW s, Whole(s), s.state = "connected", Through(s),
           s.sequence <= MaxSeq, NEW kind \in Dial!Kinds,
           s.loggedIn => \A a \in s.asks : a.id # 1,
           s.loggedIn => s.sequence # 1,
           \A r \in s.results : r <= s.sequence,
           kind = "share" <=> s.sequence \in s.results,
           NEW t, t = Dial!Sent(s, s.sequence, kind)
    PROVE  /\ DialGood(t) /\ LinkOf(t) = LinkOf(s) /\ Same(s, t) /\ t.state = s.state
           /\ t.keepAlive = s.keepAlive
<1> DEFINE a == [id |-> s.sequence, kind |-> kind]
           k == s.asks \union {a}
           n == s.sequence + 1
<1>1. s \in Clients /\ s.sequence \in 1 .. MaxSeq /\ MaxSeq \in Nat /\ n \in NextNos /\ n >= 2
      /\ s.alive
  BY DEF Whole, Clients, NextNos, DialAllowed, Dial!BoundsAssumption, Owned, Sockets
<1>2. a \in Dial!Asks /\ k \in SUBSET Dial!Asks
  BY <1>1 DEF Dial!Asks, Clients
<1>3. t = [s EXCEPT !.expire = TRUE, !.asks = k, !.sequence = n]
  BY DEF Dial!Sent, Dial!Secure, Dial!IsTLS, Through
<1>4. /\ \A b \in s.asks \union s.answered : b.id < s.sequence /\ b.id \in Int
      /\ a.id = s.sequence /\ a.kind = kind
      /\ \A b \in k : b \in s.asks \/ b = a
  BY <1>1 DEF Whole, Filed, Clients, Dial!Asks
<1> HIDE DEF n, k, a
<1>5. /\ t \in Clients /\ Same(s, t) /\ t.state = s.state /\ t.io = s.io /\ t.keepAlive = s.keepAlive
      /\ t.loggedIn = s.loggedIn /\ t.asks = k /\ t.sequence = n /\ t.answered = s.answered
      /\ t.results = s.results
  <2>0. s \in Clients /\ n \in NextNos /\ k \in SUBSET Dial!Asks
    BY <1>1, <1>2 DEF NextNos
  <2>1. t \in Clients
    BY ONLY <2>0, <1>3 DEF Clients
  <2>2. Same(s, t)
    BY ONLY <2>0, <1>3 DEF Clients, Same
  <2>3. /\ t.state = s.state /\ t.io = s.io /\ t.keepAlive = s.keepAlive /\ t.loggedIn = s.loggedIn
        /\ t.answered = s.answered /\ t.results = s.results
    BY <1>1, <1>3 DEF Clients
  <2>4. t.asks = k /\ t.sequence = n
    BY <1>1, <1>3 DEF Clients
  <2> QED
    BY <2>1, <2>2, <2>3, <2>4
<1>6. Sockets(t) /\ Owned(t) /\ Bare(t)
  BY <1>5 DEF Whole, Sockets, Owned, Bare, Reading, Through, Same
<1>7. Filed(t)
  <2>1. \A b \in t.asks \union t.answered : b.id < t.sequence
    BY <1>1, <1>4, <1>5 DEF n
  <2>2. \A b \in t.asks : b.kind = "share" <=> b.id \in t.results
    BY <1>4, <1>5 DEF Whole, Filed
  <2>3. \A b, d \in t.asks \union t.answered : b.id = d.id => b = d
    BY <1>1, <1>4, <1>5 DEF Whole, Filed
  <2>4. \A b \in t.asks, d \in t.answered : b.id # d.id
    BY <1>1, <1>4, <1>5 DEF Whole, Filed
  <2> QED
    BY <2>1, <2>2, <2>3, <2>4, <1>5 DEF Filed, Whole
<1>8. InOrder(t)
  BY <1>1, <1>4, <1>5 DEF InOrder, Through, Same, n, Clients, RequestNos
<1>9. LinkOf(t) = LinkOf(s)
  BY <1>1, <1>5 DEF LinkOf, Same
<1> QED
  BY <1>5, <1>6, <1>7, <1>8, <1>9 DEF DialGood, Whole

(* The login starts the numbers anew.                                      *)
LEMMA DialLogin ==
    ASSUME DialAllowed, NEW s, Whole(s), s.state = "connected", ~s.loggedIn, Through(s), s.asks = {}
    PROVE  \A t \in Dial!Login(s) : DialGood(t) /\ Kept(s, t)
<1> DEFINE m == [s EXCEPT !.results = {}, !.sequence = 1, !.answered = {}]
<1>1. s \in Clients /\ 1 \in NextNos /\ 1 <= MaxSeq
  BY DEF Whole, DialAllowed, Dial!BoundsAssumption, NextNos
<1>2. /\ m \in Clients /\ Same(s, m) /\ m.state = s.state /\ m.io = s.io /\ m.keepAlive = s.keepAlive
      /\ ~m.loggedIn /\ m.asks = {} /\ m.answered = {} /\ m.results = {} /\ m.sequence = 1
  BY <1>1 DEF Clients, Same
<1> HIDE DEF m
<1>3. Whole(m) /\ Through(m)
  BY <1>2 DEF Whole, Sockets, Owned, Bare, Filed, Reading, Through, Same
<1>4. LinkOf(m) = LinkOf(s)
  BY <1>2 DEF LinkOf, Same
<1>5. DialGood(Dial!Sent(m, 1, "login")) /\ LinkOf(Dial!Sent(m, 1, "login")) = LinkOf(s)
  BY <1>1, <1>2, <1>3, <1>4, DialSent DEF Dial!Kinds
<1>6. DialGood(Dial!Close(m)) /\ Kept(s, Dial!Close(m))
  BY <1>2, <1>3, <1>4, DialClose DEF Kept
<1>7. Dial!Login(s) = {Dial!Sent(m, 1, "login"), Dial!Close(m)}
  BY <1>2, <1>3 DEF Dial!Login, Dial!Send, Dial!Writable, Whole, Sockets, m
<1> QED
  BY <1>5, <1>6, <1>7 DEF Kept

LEMMA DialSubmit ==
    ASSUME DialAllowed, NEW s, DialGood(s), s.loggedIn \/ s.state = "closing", s.sequence \in RequestNos
    PROVE  \A t \in Dial!Submit(s) : DialGood(t) /\ Kept(s, t)
<1> DEFINE r == s.results \union {s.sequence}
           m == [s EXCEPT !.results = r]
<1>1. s \in Clients /\ r \in SUBSET (RequestNos) /\ MaxSeq \in Nat
  BY DEF DialGood, Whole, Clients, DialAllowed, Dial!BoundsAssumption
<1> HIDE DEF r
<1>2. /\ m \in Clients /\ Same(s, m) /\ m.state = s.state /\ m.io = s.io /\ m.keepAlive = s.keepAlive
      /\ m.loggedIn = s.loggedIn /\ m.asks = s.asks /\ m.answered = s.answered /\ m.results = r
      /\ m.sequence = s.sequence
  BY <1>1 DEF Clients, Same
<1>3. \A a \in s.asks : a.id # s.sequence
  BY <1>1 DEF DialGood, Whole, Filed, Clients, Dial!Asks
<1> HIDE DEF m
<1>4. Sockets(m) /\ Owned(m) /\ Bare(m) /\ LinkOf(m) = LinkOf(s)
  BY <1>2 DEF DialGood, Whole, Sockets, Owned, Bare, Reading, Through, Same, LinkOf
<1>5. Filed(m)
  BY <1>2, <1>3 DEF DialGood, Whole, Filed, r
<1>6. s.state # "connected" => ~m.loggedIn
  BY <1>2 DEF DialGood, InOrder
<1>7. DialGood(Dial!Close(m)) /\ Kept(s, Dial!Close(m))
  BY <1>2, <1>4, <1>5, <1>6, DialClose DEF Whole, Kept
<1>8. CASE s.state = "closing"
  <2>1. DialGood(m)
    BY <1>2, <1>4, <1>5, <1>6, <1>8 DEF DialGood, Whole, InOrder
  <2> QED
    BY <1>2, <1>4, <1>8, <2>1 DEF Dial!Submit, Dial!Send, Dial!Writable, Kept, m, r
<1>9. CASE s.loggedIn
  <2>1. /\ s.state = "connected" /\ Through(m) /\ (\A a \in m.asks : a.id # 1)
        /\ \A k \in s.results : k < s.sequence
    BY <1>2, <1>9 DEF DialGood, InOrder, Through, Same
  <2>2. \A k \in m.results : k <= m.sequence
    BY <1>1, <1>2, <2>1 DEF r, Clients, RequestNos, NextNos
  <2>3. m.sequence \in m.results /\ m.sequence <= MaxSeq /\ m.sequence # 1
    BY <1>1, <1>2 DEF r, RequestNos, NextNos
  <2> DEFINE t == Dial!Sent(m, m.sequence, "share")
  <2>4. DialGood(t) /\ LinkOf(t) = LinkOf(m)
    BY <1>2, <1>4, <1>5, <2>1, <2>2, <2>3, DialSent DEF Whole, Dial!Kinds
  <2>5. Dial!Submit(s) = {t, Dial!Close(m)}
    BY <1>2, <1>4, <2>1 DEF Dial!Submit, Dial!Send, Dial!Writable, Sockets, m, r
  <2> QED
    BY <1>4, <1>7, <2>4, <2>5 DEF Kept
<1> QED
  BY <1>8, <1>9

LEMMA DialPing ==
    ASSUME DialAllowed, NEW s, DialGood(s), s.state = "connected", s.keepAlive, s.sequence <= MaxSeq
    PROVE  \A t \in Dial!Ping(s) : DialGood(t) /\ Kept(s, t)
<1>1. s \in Clients /\ s.alive /\ Through(s) /\ s.sequence >= 2 /\ \A r \in s.results : r < s.sequence
  BY DEF DialGood, Whole, Sockets, Owned, Clients, Bare, InOrder, Reading
<1>2. MaxSeq \in Nat /\ s.sequence \in Int /\ \A r \in s.results : r \in Int
  BY <1>1 DEF Clients, RequestNos, NextNos, DialAllowed, Dial!BoundsAssumption
<1> DEFINE t == Dial!Sent(s, s.sequence, "ping")
<1>3. DialGood(t) /\ LinkOf(t) = LinkOf(s)
  <2>1. /\ s.sequence \notin s.results /\ s.sequence # 1 /\ \A r \in s.results : r <= s.sequence
    BY <1>1, <1>2
  <2> QED
    BY <1>1, <2>1, DialSent DEF DialGood, InOrder, Dial!Kinds
<1>4. DialGood(Dial!Close(s)) /\ Kept(s, Dial!Close(s))
  BY DialClose DEF DialGood
<1>5. \A u : DialGood(u) => DialGood([u EXCEPT !.keepAlive = FALSE])
                            /\ LinkOf([u EXCEPT !.keepAlive = FALSE]) = LinkOf(u)
  <2> SUFFICES ASSUME NEW u, DialGood(u), NEW w, w = [u EXCEPT !.keepAlive = FALSE]
               PROVE  DialGood(w) /\ LinkOf(w) = LinkOf(u)
    OBVIOUS
  <2>1. /\ u \in Clients /\ w \in Clients /\ Same(u, w) /\ Books(u, w) /\ w.state = u.state /\ w.io = u.io
        /\ w.loggedIn = u.loggedIn /\ w.expire = u.expire /\ ~w.keepAlive
    <3>1. u \in Clients
      BY DEF DialGood, Whole
    <3>2. w \in Clients
      BY ONLY <3>1, w = [u EXCEPT !.keepAlive = FALSE] DEF Clients
    <3> QED
      BY ONLY <3>1, <3>2, w = [u EXCEPT !.keepAlive = FALSE] DEF Clients, Same, Books
  <2>2. LinkOf(w) = LinkOf(u)
    BY <2>1 DEF LinkOf, Same
  <2> QED
    BY <2>1, <2>2 DEF DialGood, Whole, Sockets, Owned, Bare, Filed, InOrder, Reading, Through, Same, Books
<1>6. Dial!Ping(s) = {[u EXCEPT !.keepAlive = FALSE] : u \in {t, Dial!Close(s)}}
  BY DEF Dial!Ping, Dial!Send, Dial!Writable, DialGood, Whole, Sockets
<1> HIDE DEF t
<1> QED
  BY <1>3, <1>4, <1>5, <1>6 DEF Kept

(* While the proxy or TLS is in front nothing has been asked.              *)
Fresh(s) == Whole(s) /\ s.state = "connected" /\ ~s.loggedIn /\ s.asks = {}

LEMMA DialHandshake ==
    ASSUME DialAllowed, NEW s, Fresh(s), ~s.keepAlive, ~s.inRead
    PROVE  \A t \in Dial!Handshake(s) : DialGood(t) /\ Kept(s, t)
<1>1. s \in Clients /\ s.alive /\ s.socket # 0
  BY DEF Fresh, Whole, Sockets, Owned
<1>2. CASE s.socks5 # "none"
  <2> DEFINE m == [s EXCEPT !.socks5 = "sent1"]
  <2>1. /\ m \in Clients /\ m.socket = s.socket /\ m.state = "connected" /\ m.io = s.io /\ ~m.keepAlive
        /\ ~m.inRead /\ ~m.loggedIn /\ Books(s, m) /\ m.dns = s.dns /\ m.listener = s.listener
        /\ m.alive = s.alive /\ m.failures = s.failures /\ m.socks5 = "sent1"
    BY <1>1 DEF Clients, Books, Fresh
  <2> HIDE DEF m
  <2>2. DialGood(m) /\ LinkOf(m) = LinkOf(s)
    BY <2>1 DEF DialGood, Fresh, Whole, Sockets, Owned, Bare, Filed, InOrder, Reading, Through, Books, LinkOf
  <2>3. Dial!Handshake(s) = Dial!Write(m)
    BY <1>2 DEF Dial!Handshake, m
  <2> QED
    BY <2>2, <2>3, DialWrite DEF Kept
<1>3. CASE s.socks5 = "none" /\ s.tls # "none"
  <2> DEFINE m == [s EXCEPT !.expire = TRUE, !.tls = "shaking"]
  <2>1. /\ m \in Clients /\ m.socket = s.socket /\ m.state = "connected" /\ m.io = s.io /\ ~m.keepAlive
        /\ ~m.inRead /\ ~m.loggedIn /\ Books(s, m) /\ m.dns = s.dns /\ m.listener = s.listener
        /\ m.alive = s.alive /\ m.failures = s.failures /\ m.tls = "shaking"
    BY <1>1 DEF Clients, Books, Fresh
  <2> HIDE DEF m
  <2>2. DialGood(m) /\ LinkOf(m) = LinkOf(s)
    BY <2>1 DEF DialGood, Fresh, Whole, Sockets, Owned, Bare, Filed, InOrder, Reading, Through, Books, LinkOf
  <2>3. Dial!Handshake(s) = Dial!Write(m)
    BY <1>3 DEF Dial!Handshake, Dial!IsTLS, m
  <2> QED
    BY <2>2, <2>3, DialWrite DEF Kept
<1>4. CASE s.socks5 = "none" /\ s.tls = "none"
  <2>1. Dial!Handshake(s) = Dial!Login(s)
    BY <1>4 DEF Dial!Handshake, Dial!IsTLS
  <2> QED
    BY <1>4, <2>1, DialLogin DEF Fresh, Through
<1> QED
  BY <1>2, <1>3, <1>4

LEMMA DialConnected ==
    ASSUME DialAllowed, NEW s, DialGood(s), NEW h \in Handles, s.io[h] = "connecting", NEW ok \in BOOLEAN
    PROVE  \A t \in Dial!OnConnect(s, h, ok) : DialGood(t) /\ Kept(s, t)
<1>1. /\ s \in Clients /\ s.socket = h /\ h # 0 /\ s.state = "connecting" /\ s.alive /\ ~s.loggedIn /\ s.asks = {}
      /\ ~s.keepAlive /\ ~s.inRead /\ s.listener
  BY DEF DialGood, Whole, Sockets, Owned, Bare, InOrder, Reading, DialAllowed, Dial!HandlesAssumption, Clients,
     Dial!SocketStates
<1> DEFINE a == [s.io EXCEPT ![h] = IF ok THEN "mute" ELSE "failed"]
           b == [k \in Handles |-> CASE k = s.socket /\ (k = h \/ s.io[k] = "mute") -> "open"
                                     [] k = h /\ k # s.socket                      -> "mute"
                                     [] OTHER                                      -> s.io[k]]
           o == IF ok THEN b ELSE a
           t == [s EXCEPT !.io = o]
<1>2. o \in HandleStates
  BY <1>1 DEF Clients, HandleStates
<1>3. \A k \in Handles : k # h => o[k] = "none"
  BY <1>1 DEF Clients, DialGood, Whole, Sockets, HandleStates
<1>4. o[h] = IF ok THEN "open" ELSE "failed"
  BY <1>1 DEF Clients, HandleStates
<1> HIDE DEF o
<1>5. /\ t \in Clients /\ Same(s, t) /\ Books(s, t) /\ t.state = s.state /\ t.io = o
      /\ t.loggedIn = s.loggedIn /\ t.keepAlive = s.keepAlive
  BY <1>1, <1>2 DEF Clients, Same, Books
<1>6. Dial!OnConnect(s, h, ok) = IF ok THEN Dial!Handshake(Dial!SetState(t, "connected")) ELSE {Dial!Close(t)}
  BY <1>1 DEF Dial!OnConnect, Dial!ReadStart, a, b, o
<1> HIDE DEF t
<1>7. CASE ok
  <2> DEFINE m == Dial!SetState(t, "connected")
  <2>1. /\ m \in Clients /\ m.state = "connected" /\ Same(t, m) /\ Books(t, m) /\ m.io = o
        /\ m.loggedIn = s.loggedIn /\ m.keepAlive = s.keepAlive
    BY <1>5, DialState DEF Dial!SocketStates
  <2> HIDE DEF m
  <2>2. Fresh(m) /\ ~m.keepAlive /\ ~m.inRead
    <3>1. Sockets(m)
      BY <1>1, <1>3, <1>4, <1>5, <1>7, <2>1 DEF Sockets, Same
    <3> QED
      BY <1>1, <1>5, <2>1, <3>1 DEF Fresh, DialGood, Whole, Owned, Bare, Filed, Same, Books
  <2>3. LinkOf(m) = LinkOf(s)
    BY <1>1, <1>5, <2>1 DEF LinkOf, Same
  <2> QED
    BY <1>6, <1>7, <2>2, <2>3, DialHandshake DEF Kept, m
<1>8. CASE ~ok
  <2> DEFINE u == Dial!SetState(t, "closing")
             v == Dial!Close(t)
             w == [o EXCEPT ![h] = "closing"]
  <2>1. /\ u \in Clients /\ u.state = "closing" /\ Same(t, u) /\ Books(t, u) /\ u.io = o
        /\ u.keepAlive = s.keepAlive
    BY <1>5, DialState DEF Dial!SocketStates
  <2>2. w \in HandleStates
        /\ w[h] = "closing" /\ \A k \in Handles : k # h => w[k] = "none"
    BY <1>2, <1>3 DEF HandleStates
  <2>3. v = [u EXCEPT !.io = w, !.loggedIn = FALSE]
    <3>1. t.state # "closing" /\ t.socket = h /\ h # 0
      BY <1>1, <1>5 DEF Same
    <3>2. u.io = o /\ u.socket = h
      BY <2>1, <3>1 DEF Same
    <3>3. t.state # "unconnected"
      BY <1>1, <1>5
    <3> QED
      BY <3>1, <3>2, <3>3 DEF Dial!Close
  <2> HIDE DEF u, v, w
  <2>4. /\ v \in Clients /\ v.state = "closing" /\ Same(s, v) /\ Books(s, v) /\ v.io = w /\ ~v.loggedIn
        /\ ~v.keepAlive
    <3>1. /\ v \in Clients /\ v.state = "closing" /\ Same(u, v) /\ Books(u, v) /\ v.io = w /\ ~v.loggedIn
          /\ v.keepAlive = u.keepAlive
      BY <2>1, <2>2, <2>3, ZenonT(60) DEF Clients, FailureCounts, Same, Books
    <3> QED
      BY <1>1, <1>5, <2>1, <3>1 DEF Same, Books
  <2>5. DialGood(v)
    <3>1. Sockets(v) /\ Owned(v)
      BY <1>1, <2>2, <2>4 DEF Sockets, Same, DialGood, Whole, Owned
    <3> QED
      BY <1>1, <2>4, <3>1 DEF DialGood, Whole, Bare, Filed, InOrder, Same, Books
  <2>6. Kept(s, v)
    BY <1>1, <2>4 DEF Kept, LinkOf, Same
  <2> QED
    BY <1>6, <1>8, <2>5, <2>6 DEF v
<1> QED
  BY <1>7, <1>8

---------------------------------------------------------------------------
(* Reading, in front of the line reader.                                   *)
LEMMA DialSocks ==
    ASSUME DialAllowed, NEW s, DialGood(s), s.state = "connected", s.socks5 # "none",
           NEW r \in {"short", "bad", "good"}
    PROVE  \A t \in Dial!SocksRead(s, r) : DialGood(t) /\ Kept(s, t)
<1>1. /\ s \in Clients /\ ~Through(s) /\ s.asks = {} /\ ~s.loggedIn /\ ~s.keepAlive /\ ~s.inRead
      /\ s.alive /\ s.socket # 0
  BY DEF DialGood, Whole, Bare, InOrder, Through, Reading, Clients, Owned, Sockets
<1>2. CASE r = "short"
  BY <1>2 DEF Dial!SocksRead, Kept
<1>3. CASE r = "bad"
  BY <1>1, <1>3, DialClose DEF Dial!SocksRead, DialGood
<1>4. CASE r = "good" /\ s.socks5 = "sent1"
  <2> DEFINE m == [s EXCEPT !.socks5 = "sent2"]
  <2>1. /\ m \in Clients /\ m.socket = s.socket /\ m.state = "connected" /\ m.io = s.io /\ ~m.keepAlive
        /\ ~m.inRead /\ ~m.loggedIn /\ Books(s, m) /\ m.dns = s.dns /\ m.listener = s.listener
        /\ m.alive = s.alive /\ m.failures = s.failures /\ m.socks5 = "sent2"
    BY <1>1 DEF Clients, Books
  <2> HIDE DEF m
  <2>2. DialGood(m) /\ LinkOf(m) = LinkOf(s)
    BY <1>1, <2>1 DEF DialGood, Whole, Sockets, Owned, Bare, Filed, InOrder, Through, Books, LinkOf
  <2>3. Dial!SocksRead(s, r) = Dial!Write(m)
    BY <1>4 DEF Dial!SocksRead, m
  <2> QED
    BY <2>2, <2>3, DialWrite DEF Kept
<1>5. CASE r = "good" /\ s.socks5 # "sent1"
  <2> DEFINE x == IF TLS /\ s.tls = "none" THEN "new" ELSE s.tls
             m == [s EXCEPT !.socks5 = "none", !.tls = x]
  <2>1. x \in {"none", "new", "shaking", "ready"}
    BY <1>1 DEF Clients
  <2> HIDE DEF x
  <2>2. /\ m \in Clients /\ m.socket = s.socket /\ m.state = "connected" /\ m.io = s.io /\ ~m.keepAlive
        /\ ~m.inRead /\ ~m.loggedIn /\ Books(s, m) /\ m.dns = s.dns /\ m.listener = s.listener
        /\ m.alive = s.alive /\ m.failures = s.failures
    BY <1>1, <2>1 DEF Clients, Books
  <2> HIDE DEF m
  <2>3. Fresh(m) /\ LinkOf(m) = LinkOf(s)
    BY <1>1, <2>2 DEF DialGood, Fresh, Whole, Sockets, Owned, Bare, Filed, Books, LinkOf
  <2>4. Dial!SocksRead(s, r) = Dial!Handshake(m)
    BY <1>5 DEF Dial!SocksRead, m, x
  <2> QED
    BY <2>2, <2>3, <2>4, DialHandshake DEF Kept
<1> QED
  BY <1>2, <1>3, <1>4, <1>5

LEMMA DialTls ==
    ASSUME DialAllowed, NEW s, DialGood(s), s.state = "connected", s.socks5 = "none", s.tls = "shaking",
           NEW r \in {"short", "bad", "good"}
    PROVE  \A t \in Dial!TlsRead(s, r) : DialGood(t) /\ Kept(s, t)
<1>1. /\ s \in Clients /\ ~Through(s) /\ s.asks = {} /\ ~s.loggedIn /\ ~s.keepAlive /\ ~s.inRead
      /\ s.alive /\ s.socket # 0
  BY DEF DialGood, Whole, Bare, InOrder, Through, Reading, Clients, Owned, Sockets
<1>2. CASE r = "short"
  BY <1>2, DialWrite DEF Dial!TlsRead
<1>3. CASE r = "bad"
  BY <1>1, <1>3, DialClose DEF Dial!TlsRead, DialGood, Kept
<1>4. CASE r = "good"
  <2> DEFINE m == [s EXCEPT !.tls = "ready"]
  <2>1. /\ m \in Clients /\ m.socket = s.socket /\ m.state = "connected" /\ m.io = s.io /\ ~m.keepAlive
        /\ ~m.inRead /\ ~m.loggedIn /\ Books(s, m) /\ m.dns = s.dns /\ m.listener = s.listener
        /\ m.alive = s.alive /\ m.failures = s.failures /\ m.socks5 = "none" /\ m.tls = "ready"
    BY <1>1 DEF Clients, Books
  <2> HIDE DEF m
  <2>2. Whole(m) /\ Through(m) /\ m.asks = {} /\ LinkOf(m) = LinkOf(s)
    BY <1>1, <2>1 DEF DialGood, Whole, Sockets, Owned, Bare, Filed, Through, Books, LinkOf
  <2>3. Dial!TlsRead(s, r) = Dial!Login(m)
    BY <1>4 DEF Dial!TlsRead, m
  <2> QED
    BY <2>1, <2>2, <2>3, DialLogin DEF Kept
<1> QED
  BY <1>2, <1>3, <1>4

---------------------------------------------------------------------------
(* The line reader: a client that reads a line, and what the line may be.  *)
Reads(s) == DialGood(s) /\ Reading(s) /\ s.alive /\ s.listener

LEMMA DialClosed ==
    ASSUME DialAllowed, NEW s, DialGood(s)
    PROVE  DialGood(Dial!Close(s)) /\ Kept(s, Dial!Close(s))
BY DialClose DEF DialGood, InOrder

LEMMA DialTimeout ==
    ASSUME NEW s, Reads(s)
    PROVE  LET t == Dial!StartTimeout(s) IN
           /\ Reads(t) /\ LinkOf(t) = LinkOf(s) /\ Books(s, t) /\ t.loggedIn = s.loggedIn
           /\ t.state = s.state /\ Same(s, t)
<1> DEFINE k == IF s.ext THEN TRUE ELSE s.keepAlive
           t == [s EXCEPT !.expire = FALSE, !.keepAlive = k]
<1>1. s \in Clients /\ k \in BOOLEAN /\ s.state \in {"connected", "closing"} /\ s.alive
  BY DEF Reads, DialGood, Whole, Clients, Reading
<1>2. Dial!StartTimeout(s) = t
  BY DEF Dial!StartTimeout
<1> HIDE DEF k
<1>3. /\ t \in Clients /\ Same(s, t) /\ Books(s, t) /\ t.state = s.state /\ t.io = s.io
      /\ t.loggedIn = s.loggedIn
  <2>1. t \in Clients
    BY ONLY <1>1 DEF Clients
  <2> QED
    BY ONLY <1>1, <2>1 DEF Clients, Same, Books
<1> HIDE DEF t
<1>4. DialGood(t) /\ Reading(t)
  BY <1>1, <1>3 DEF Reads, DialGood, Whole, Sockets, Owned, Bare, Filed, InOrder, Reading, Through, Same, Books
<1>5. LinkOf(t) = LinkOf(s)
  BY <1>1, <1>3 DEF LinkOf, Same
<1> QED
  BY <1>2, <1>3, <1>4, <1>5 DEF Reads, Same

(* What is read between the lines of one call of read().                   *)
LEMMA DialReading ==
    ASSUME NEW s, Reads(s), NEW t, t = [Dial!StartTimeout(s) EXCEPT !.inRead = TRUE]
    PROVE  Reads(t) /\ LinkOf(t) = LinkOf(s) /\ t.asks = s.asks
<1> DEFINE m == Dial!StartTimeout(s)
<1>1. /\ Reads(m) /\ LinkOf(m) = LinkOf(s) /\ m.asks = s.asks
  BY DialTimeout DEF Books
<1> HIDE DEF m
<1>2. t = [m EXCEPT !.inRead = TRUE]
  BY DEF m
<1>3. m \in Clients
  BY <1>1 DEF Reads, DialGood, Whole
<1>4. /\ t \in Clients /\ t.socket = m.socket /\ t.alive = m.alive /\ t.listener = m.listener
      /\ t.failures = m.failures /\ t.dns = m.dns /\ t.socks5 = m.socks5 /\ t.tls = m.tls
      /\ t.state = m.state /\ t.io = m.io /\ t.loggedIn = m.loggedIn /\ t.keepAlive = m.keepAlive
      /\ t.expire = m.expire /\ Books(m, t)
  <2>1. t \in Clients
    BY ONLY <1>2, <1>3 DEF Clients
  <2> QED
    BY ONLY <1>2, <1>3, <2>1 DEF Clients, Books
<1>5. DialGood(t) /\ Reading(t)
  <2>0. Sockets(m) /\ Owned(m) /\ Bare(m) /\ Reading(m) /\ m.listener
    BY <1>1 DEF Reads, DialGood, Whole
  <2>1. Sockets(t) /\ Owned(t)
    BY ONLY <1>4, <2>0 DEF Sockets, Owned
  <2>3. Bare(t) /\ Reading(t)
    BY ONLY <1>4, <2>0 DEF Bare, Reading, Through, Books
  <2>2. Filed(t) /\ InOrder(t)
    BY <1>1, <1>4 DEF Reads, DialGood, Whole, Filed, InOrder, Through, Books
  <2> QED
    BY <1>4, <2>1, <2>2, <2>3 DEF DialGood, Whole
<1>6. LinkOf(t) = LinkOf(m)
  BY <1>1, <1>4 DEF LinkOf
<1> QED
  BY <1>1, <1>4, <1>5, <1>6 DEF Reads, Books

LEMMA DialJob ==
    ASSUME DialAllowed, NEW s, DialGood(s), NEW j \in JobIds \union {0}
    PROVE  DialGood(Dial!OnJob(s, j)) /\ Kept(s, Dial!OnJob(s, j))
<1>1. CASE Dial!JobTaken(s, j)
  <2> DEFINE t == [s EXCEPT !.job = j]
  <2>1. s \in Clients
    BY DEF DialGood, Whole
  <2>2. /\ t \in Clients /\ t.socket = s.socket /\ t.alive = s.alive /\ t.listener = s.listener
        /\ t.failures = s.failures /\ t.dns = s.dns /\ t.socks5 = s.socks5 /\ t.tls = s.tls
        /\ t.state = s.state /\ t.io = s.io /\ t.loggedIn = s.loggedIn /\ t.keepAlive = s.keepAlive
        /\ t.expire = s.expire /\ t.inRead = s.inRead /\ Books(s, t)
    BY <2>1 DEF Clients, Books
  <2> HIDE DEF t
  <2>3. DialGood(t) /\ LinkOf(t) = LinkOf(s)
    BY <2>2 DEF DialGood, Whole, Sockets, Owned, Bare, Filed, InOrder, Reading, Through, Books, LinkOf
  <2> QED
    BY <1>1, <2>3 DEF Dial!OnJob, Kept, t
<1>2. CASE ~Dial!JobTaken(s, j)
  BY <1>2, DialClosed DEF Dial!OnJob
<1> QED
  BY <1>1, <1>2
(* An answer takes its message out of those that are owed.                 *)
Settles(s, a) == /\ a \in Dial!Asks /\ a.id < s.sequence /\ (a.kind = "share" <=> a.id \in s.results)
                 /\ \A b \in s.asks \union s.answered : b.id # a.id

LEMMA DialAnswered ==
    ASSUME NEW s, Reads(s), NEW a \in s.asks, NEW t, t = Dial!Answered(s, a)
    PROVE  Reads(t) /\ LinkOf(t) = LinkOf(s) /\ Settles(t, a) /\ (a.id = 1 => ~t.loggedIn)
<1> DEFINE k == s.asks \ {a}
<1>1. s \in Clients /\ k \in SUBSET Dial!Asks /\ a \in Dial!Asks
  BY DEF Reads, DialGood, Whole, Clients
<1>2. /\ \A b \in k \union s.answered : b.id # a.id
      /\ a.id < s.sequence /\ (a.kind = "share" <=> a.id \in s.results)
  <2>1. \A b \in k : b.id # a.id
    BY DEF Reads, DialGood, Whole, Filed
  <2>2. \A b \in s.answered : b.id # a.id
    BY DEF Reads, DialGood, Whole, Filed
  <2> QED
    BY <2>1, <2>2 DEF Reads, DialGood, Whole, Filed
<1>3. t = [s EXCEPT !.asks = k]
  BY DEF Dial!Answered
<1> HIDE DEF k
<1>4. s.asks # {}
  OBVIOUS
<1> HIDE DEF k
<1>5. /\ t \in Clients /\ Same(s, t) /\ t.state = s.state /\ t.io = s.io /\ t.loggedIn = s.loggedIn
      /\ t.keepAlive = s.keepAlive /\ t.expire = s.expire /\ t.asks = k /\ t.answered = s.answered
      /\ t.results = s.results /\ t.sequence = s.sequence
  BY <1>1, <1>3 DEF Clients, Same
<1>6. \A b \in k : b \in s.asks
  BY DEF k
<1>7. Sockets(t) /\ Owned(t) /\ Bare(t) /\ Reading(t)
  BY <1>4, <1>5 DEF Reads, DialGood, Whole, Sockets, Owned, Bare, Reading, Through, Same
<1>8. Filed(t) /\ InOrder(t)
  BY <1>5, <1>6 DEF Reads, DialGood, Whole, Filed, InOrder, Through, Same
<1>9. LinkOf(t) = LinkOf(s)
  BY <1>5 DEF LinkOf, Same
<1>10. a.id = 1 => ~t.loggedIn
  BY <1>5 DEF Reads, DialGood, InOrder
<1>11. Settles(t, a)
  BY <1>1, <1>2, <1>5 DEF Settles
<1> QED
  BY <1>5, <1>7, <1>8, <1>9, <1>10, <1>11 DEF Reads, DialGood, Whole, Same

LEMMA DialResult ==
    ASSUME NEW s, Reads(s), NEW a, Settles(s, a), NEW t, t = Dial!HandleSubmitResponse(s, a)
    PROVE  DialGood(t) /\ LinkOf(t) = LinkOf(s)
<1>1. CASE a.id \notin s.results
  BY <1>1 DEF Dial!HandleSubmitResponse, Reads
<1>2. CASE a.id \in s.results
  <2> DEFINE r == s.results \ {a.id}
             k == s.answered \union {a}
  <2>1. s \in Clients /\ r \in SUBSET (RequestNos) /\ k \in SUBSET Dial!Asks /\ a.kind = "share"
    BY <1>2 DEF Reads, DialGood, Whole, Clients, Settles
  <2>2. t = [s EXCEPT !.results = r, !.answered = k]
    BY <1>2 DEF Dial!HandleSubmitResponse
  <2>3. /\ \A n : n \in r <=> n \in s.results /\ n # a.id
        /\ \A b : b \in k <=> b \in s.answered \/ b = a
    OBVIOUS
  <2> HIDE DEF r, k
  <2>4. /\ t \in Clients /\ Same(s, t) /\ t.state = s.state /\ t.io = s.io /\ t.loggedIn = s.loggedIn
        /\ t.keepAlive = s.keepAlive /\ t.expire = s.expire /\ t.asks = s.asks /\ t.answered = k
        /\ t.results = r /\ t.sequence = s.sequence
    <3>1. t \in Clients
      BY ONLY <2>1, <2>2 DEF Clients
    <3> QED
      BY <2>1, <2>2, <3>1 DEF Clients, Same
  <2>5. Sockets(t) /\ Owned(t) /\ Bare(t) /\ InOrder(t)
    BY <2>3, <2>4 DEF Reads, DialGood, Whole, Sockets, Owned, Bare, InOrder, Reading, Through, Same
  <2>6. Filed(t)
    <3>1. \A b \in t.asks : b.kind = "share" <=> b.id \in t.results
      BY <2>3, <2>4 DEF Reads, DialGood, Whole, Filed, Settles
    <3>2. \A b, d \in t.asks \union t.answered : b.id = d.id => b = d
      BY <2>3, <2>4 DEF Reads, DialGood, Whole, Filed, Settles
    <3>3. \A b \in t.asks, d \in t.answered : b.id # d.id
      BY <2>3, <2>4 DEF Reads, DialGood, Whole, Filed, Settles
    <3>4. \A b \in t.asks \union t.answered : b.id < t.sequence
      BY <2>3, <2>4 DEF Reads, DialGood, Whole, Filed, Settles
    <3>5. \A b \in t.answered : b.kind = "share"
      BY <2>1, <2>3, <2>4 DEF Reads, DialGood, Whole, Filed
    <3> QED
      BY <3>1, <3>2, <3>3, <3>4, <3>5 DEF Filed
  <2>7. LinkOf(t) = LinkOf(s)
    BY <2>4 DEF LinkOf, Same
  <2> QED
    BY <2>4, <2>5, <2>6, <2>7 DEF DialGood, Whole
<1> QED
  BY <1>1, <1>2

(* The answer to a login.                                                  *)
LoggedIn(s, t) == /\ LinkOf(s).phase \in {"trying", "closing"}
                  /\ LinkOf(t) = Dial!AsLink!LoggedIn(LinkOf(s))

LEMMA DialLoggedIn ==
    ASSUME DialAllowed, NEW s, Reads(s), ~s.loggedIn, \A a \in s.asks : a.id # 1,
           s.sequence >= 2, NEW j \in JobIds \union {0}, NEW t, t = Dial!OnLogin(s, j)
    PROVE  DialGood(t) /\ (Kept(s, t) \/ LoggedIn(s, t))
<1> DEFINE e == [s EXCEPT !.ext = TRUE]
           f == [s EXCEPT !.ext = FALSE]
           m == Dial!ParseExtensions(s)
<1>1. s \in Clients
  BY DEF Reads, DialGood, Whole
<1>2. ASSUME NEW u \in {e, f}
      PROVE  Reads(u) /\ LinkOf(u) = LinkOf(s) /\ Books(s, u) /\ u.loggedIn = s.loggedIn /\ u.state = s.state
  <2>1. /\ u \in Clients /\ u.socket = s.socket /\ u.alive = s.alive /\ u.listener = s.listener
        /\ u.failures = s.failures /\ u.dns = s.dns /\ u.socks5 = s.socks5 /\ u.tls = s.tls
        /\ u.state = s.state /\ u.io = s.io /\ u.loggedIn = s.loggedIn /\ u.keepAlive = s.keepAlive
        /\ u.expire = s.expire /\ u.inRead = s.inRead /\ Books(s, u)
    <3>1. \E x \in BOOLEAN : u = [s EXCEPT !.ext = x]
      OBVIOUS
    <3>2. u \in Clients
      BY ONLY <1>1, <3>1 DEF Clients
    <3> QED
      BY ONLY <1>1, <3>1, <3>2 DEF Clients, Books
  <2>2. DialGood(u) /\ Reading(u)
    <3>1. Sockets(s) /\ Owned(s) /\ Bare(s) /\ Filed(s) /\ InOrder(s) /\ Reading(s)
      BY DEF Reads, DialGood, Whole
    <3>2. Sockets(u) /\ Owned(u)
      BY ONLY <2>1, <3>1 DEF Sockets, Owned
    <3>3. Bare(u) /\ Reading(u)
      BY ONLY <2>1, <3>1 DEF Bare, Reading, Through, Books
    <3>4. Filed(u) /\ InOrder(u)
      BY ONLY <2>1, <3>1 DEF Filed, InOrder, Through, Books
    <3> QED
      BY <2>1, <3>2, <3>3, <3>4 DEF DialGood, Whole
  <2>3. LinkOf(u) = LinkOf(s)
    BY <2>1 DEF LinkOf
  <2> QED
    BY <2>1, <2>2, <2>3 DEF Reads
<1>3. m = IF KeepAlive THEN Dial!StartTimeout(e) ELSE f
  BY DEF Dial!ParseExtensions
<1> HIDE DEF e, f, m
<1>4. Reads(m) /\ LinkOf(m) = LinkOf(s) /\ Books(s, m) /\ m.loggedIn = s.loggedIn /\ m.state = s.state
  BY <1>2, <1>3, DialTimeout DEF Books
<1>5. CASE Dial!JobTaken(m, j)
  <2> DEFINE u == [m EXCEPT !.job = j, !.failures = 0, !.loggedIn = (s.state = "connected")]
  <2>1. m \in Clients /\ 0 \in FailureCounts /\ m.alive /\ m.listener
    BY <1>4 DEF Reads, DialGood, Whole, DialAllowed, Dial!BoundsAssumption, FailureCounts
  <2>2. t = u
    BY <1>5 DEF Dial!OnLogin, m
  <2>3. /\ u \in Clients /\ u.socket = m.socket /\ u.alive = m.alive /\ u.listener = m.listener
        /\ u.failures = 0 /\ u.dns = m.dns /\ u.socks5 = m.socks5 /\ u.tls = m.tls
        /\ u.state = m.state /\ u.io = m.io /\ u.loggedIn = (s.state = "connected")
        /\ u.keepAlive = m.keepAlive /\ u.expire = m.expire /\ u.inRead = m.inRead /\ Books(m, u)
    <3> DEFINE y == s.state = "connected"
    <3>1. y \in BOOLEAN /\ u = [m EXCEPT !.job = j, !.failures = 0, !.loggedIn = y]
      OBVIOUS
    <3> HIDE DEF u, y
    <3>2. u \in Clients
      BY ONLY <2>1, <3>1, j \in JobIds \union {0} DEF Clients
    <3>3. u.loggedIn = (s.state = "connected")
      BY ONLY <2>1, <3>1 DEF Clients, y
    <3>4. /\ u.socket = m.socket /\ u.alive = m.alive /\ u.listener = m.listener
          /\ u.failures = 0 /\ u.dns = m.dns /\ u.socks5 = m.socks5 /\ u.tls = m.tls
          /\ u.state = m.state /\ u.io = m.io /\ u.keepAlive = m.keepAlive /\ u.expire = m.expire
          /\ u.inRead = m.inRead /\ Books(m, u)
      BY ONLY <2>1, <3>1 DEF Clients, Books
    <3> QED
      BY ONLY <3>2, <3>3, <3>4
  <2> HIDE DEF u
  <2>4. DialGood(u)
    <3>1. Sockets(u) /\ Owned(u) /\ Bare(u)
      BY <1>4, <2>1, <2>3 DEF Reads, DialGood, Whole, Sockets, Owned, Bare, Reading, Through, Books
    <3>2. Filed(u)
      BY <1>4, <2>3 DEF Reads, DialGood, Whole, Filed, Books
    <3>3. InOrder(m) /\ Through(m) /\ (\A a \in m.asks : a.id # 1)
      BY <1>4 DEF Reads, DialGood, Reading, Books
    <3>4. InOrder(u)
      BY <1>4, <2>3, <3>3 DEF InOrder, Through, Books
    <3> QED
      BY <2>3, <3>1, <3>2, <3>4 DEF DialGood, Whole
  <2>5. LinkOf(s).phase \in {"trying", "closing"}
    BY DEF LinkOf, Reads, Reading
  <2>6. LinkOf(u) = [phase |-> IF s.state = "closing" THEN "closing" ELSE "up", fails |-> 0]
    BY <1>4, <2>1, <2>3 DEF LinkOf, Reads, Reading
  <2>7. LinkOf(s).phase = IF s.state = "closing" THEN "closing" ELSE "trying"
    BY DEF LinkOf, Reads, Reading
  <2>8. Dial!AsLink!LoggedIn(LinkOf(s)) = [phase |-> IF LinkOf(s).phase = "closing" THEN "closing" ELSE "up",
                                           fails |-> 0]
    BY DEF Dial!AsLink!LoggedIn
  <2> QED
    BY <2>2, <2>4, <2>5, <2>6, <2>7, <2>8 DEF LoggedIn
<1>6. CASE ~Dial!JobTaken(m, j)
  <2>1. t = Dial!Close(m)
    BY <1>6 DEF Dial!OnLogin, m
  <2> QED
    BY <1>4, <2>1, DialClosed DEF Reads, Kept
<1> QED
  BY <1>5, <1>6

(* A line may be noise, a job, or an answer.                               *)
LEMMA DialLines ==
    ASSUME DialAllowed, ~strayed, NEW s, Reads(s)
    PROVE  \A t \in Dial!Lines(s) : DialGood(t) /\ (Kept(s, t) \/ LoggedIn(s, t))
<1> DEFINE m == [Dial!StartTimeout(s) EXCEPT !.inRead = TRUE]
           How == {"critical", "mild", "empty", "result"}
<1>1. Reads(m) /\ LinkOf(m) = LinkOf(s) /\ m.asks = s.asks
  BY DialReading
<1>2. Dial!Lines(s) = {m} \union {Dial!OnJob(m, j) : j \in JobIds \union {0}} \union
          {Dial!ParseResponse(Dial!Answered(m, a), a, how, j) : a \in s.asks, how \in How, j \in JobIds \union {0}}
  BY <1>1 DEF Dial!Lines, Dial!Owed
<1> HIDE DEF m
<1>3. DialGood(m) /\ Kept(s, m)
  BY <1>1 DEF Reads, Kept
<1>4. \A j \in JobIds \union {0} : DialGood(Dial!OnJob(m, j)) /\ Kept(s, Dial!OnJob(m, j))
  BY <1>1, DialJob DEF Reads, Kept
<1>5. ASSUME NEW a \in s.asks, NEW how \in How, NEW j \in JobIds \union {0}
      PROVE  LET t == Dial!ParseResponse(Dial!Answered(m, a), a, how, j) IN
             DialGood(t) /\ (Kept(s, t) \/ LoggedIn(s, t))
  <2> DEFINE u == Dial!Answered(m, a)
             v == Dial!HandleSubmitResponse(u, a)
             t == Dial!ParseResponse(u, a, how, j)
  <2> SUFFICES DialGood(t) /\ (Kept(s, t) \/ LoggedIn(s, t))
    OBVIOUS
  <2>1. Reads(u) /\ LinkOf(u) = LinkOf(s) /\ Settles(u, a) /\ (a.id = 1 => ~u.loggedIn)
    BY <1>1, DialAnswered
  <2> HIDE DEF u
  <2>2. DialGood(v) /\ LinkOf(v) = LinkOf(s)
    BY <2>1, DialResult
  <2> HIDE DEF v
  <2>3. DialGood(Dial!Close(v)) /\ Kept(s, Dial!Close(v))
    BY <2>2, DialClosed DEF Kept
  <2>4. CASE how \in {"critical", "mild"}
    BY <2>2, <2>3, <2>4 DEF Dial!ParseResponse, Kept, v
  <2>5. CASE how = "empty"
    BY <2>1, <2>5 DEF Dial!ParseResponse, Kept, Reads
  <2>6. CASE how = "result" /\ a.id # 1
    BY <2>2, <2>6 DEF Dial!ParseResponse, Kept, v
  <2>7. CASE how = "result" /\ a.id = 1
    <3>1. t = Dial!OnLogin(u, j)
      BY <2>7 DEF Dial!ParseResponse
    <3>2. /\ ~u.loggedIn /\ \A b \in u.asks : b.id # 1
      BY <2>1, <2>7 DEF Settles
    <3>3. u.sequence >= 2
      <4>1. u.sequence \in Int /\ 1 < u.sequence
        BY <2>1, <2>7 DEF Settles, Reads, DialGood, Whole, Clients, NextNos
      <4> QED
        BY <4>1
    <3> QED
      BY <2>1, <3>1, <3>2, <3>3, DialLoggedIn DEF Kept, LoggedIn
  <2> QED
    BY <2>4, <2>5, <2>6, <2>7
<1> QED
  BY <1>2, <1>3, <1>4, <1>5

LEMMA DialData ==
    ASSUME DialAllowed, ~strayed, NEW s, DialGood(s), s.alive, s.listener, NEW h \in Handles,
           s.io[h] = "open" \/ (s.inRead /\ h = s.socket)
    PROVE  \A t \in Dial!Data(s) : DialGood(t) /\ (Kept(s, t) \/ LoggedIn(s, t))
<1>1. s.state = "connected" \/ Reading(s)
  BY DEF DialGood, Whole, Clients, Dial!SocketStates, Sockets, Bare, DialAllowed, Dial!HandlesAssumption
<1>2. CASE s.socks5 # "none"
  <2>1. s.state = "connected"
    BY <1>1, <1>2 DEF Reading, Through
  <2>2. Dial!Data(s) = UNION {Dial!SocksRead(s, r) : r \in {"short", "bad", "good"}}
    BY <1>2 DEF Dial!Data
  <2> QED
    BY <1>2, <2>1, <2>2, DialSocks
<1>3. CASE s.socks5 = "none" /\ s.tls = "shaking"
  <2>1. s.state = "connected"
    BY <1>1, <1>3 DEF Reading, Through
  <2>2. Dial!Data(s) = UNION {Dial!TlsRead(s, r) : r \in {"short", "bad", "good"}}
    BY <1>3 DEF Dial!Data
  <2> QED
    BY <1>3, <2>1, <2>2, DialTls
<1>4. CASE s.socks5 = "none" /\ s.tls # "shaking"
  <2>1. Reading(s)
    BY <1>1, <1>4 DEF Reading, Through, DialGood, Whole, InOrder, Clients
  <2>2. Dial!Data(s) = Dial!Lines(s)
    BY <1>4 DEF Dial!Data
  <2> QED
    BY <2>1, <2>2, DialLines DEF Reads
<1> QED
  BY <1>2, <1>3, <1>4

---------------------------------------------------------------------------
(* The end of an attempt, and the next one.                                *)
LostOf(s, t) == LinkOf(t) = Dial!AsLink!Lost(LinkOf(s))

Resting(s) == s \in Clients /\ s.socket = 0 /\ (\A h \in Handles : s.io[h] = "none") /\ s.asks = {} /\ Filed(s)

(* Reconnecting or gone, when the socket has closed or the host is not     *)
(* found.                                                                  *)
Parked(s, n) == [s EXCEPT !.keepAlive = FALSE, !.loggedIn = FALSE, !.failures = n]

LEMMA DialWaiting ==
    ASSUME NEW s \in Clients, NEW n \in FailureCounts, NEW t, t = Parked(s, n)
    PROVE  /\ t \in Clients /\ t.state = s.state /\ Books(s, t) /\ t.io = s.io /\ ~t.loggedIn
           /\ ~t.keepAlive /\ t.expire = s.expire /\ t.failures = n /\ t.socket = s.socket /\ t.dns = s.dns
           /\ t.alive = s.alive /\ t.listener = s.listener /\ t.inRead = s.inRead
BY ZenonT(60) DEF Clients, Books, Parked

LEMMA DialFreed ==
    ASSUME NEW s \in Clients,
           NEW o \in HandleStates,
           NEW t, t = [s EXCEPT !.alive = FALSE, !.dns = FALSE, !.socket = 0, !.io = o]
    PROVE  t \in Clients
BY ZenonT(60) DEF Clients, HandleNos

LEMMA DialRemoved ==
    ASSUME DialAllowed, NEW s \in Clients, s.socket = 0, \A h \in Handles : s.io[h] = "none",
           NEW t, t = Dial!Removed(s)
    PROVE  /\ t \in Clients /\ ~t.alive /\ ~t.dns /\ t.socket = 0 /\ (\A h \in Handles : t.io[h] = "none")
           /\ t.listener = s.listener /\ t.failures = s.failures /\ Books(s, t) /\ t.state = s.state
           /\ t.loggedIn = s.loggedIn /\ t.inRead = s.inRead
<1> DEFINE o == [h \in Handles |-> IF h = s.socket THEN "freed" ELSE s.io[h]]
<1>1. o \in HandleStates
      /\ \A h \in Handles : o[h] = "none"
  BY DEF DialAllowed, Dial!HandlesAssumption, HandleStates
<1>2. t = [s EXCEPT !.alive = FALSE, !.dns = FALSE, !.socket = 0, !.io = o]
  BY DEF Dial!Removed
<1> HIDE DEF o
<1>3. t \in Clients
  BY <1>1, <1>2, DialFreed
<1> QED
  BY <1>1, <1>2, <1>3 DEF Clients, Books

LEMMA DialReconnect ==
    ASSUME DialAllowed, NEW s, Resting(s), s.state \in {"unconnected", "lookup"}, ~s.dns, ~s.loggedIn,
           s.alive, ~s.listener => s.failures = -1 /\ ~s.inRead, NEW t, t = Dial!Reconnect(s)
    PROVE  DialGood(t) /\ LinkOf(t) = (IF s.failures = -1 THEN Dial!AsLink!Idle
                                       ELSE [phase |-> "waiting", fails |-> Dial!AsLink!Bump(s.failures)])
<1>1. s \in Clients /\ s.failures \in FailureCounts
  BY DEF Resting, Clients
<1>2. CASE ~s.listener
  <2>3. /\ t \in Clients /\ ~t.alive /\ ~t.dns /\ t.socket = 0 /\ (\A h \in Handles : t.io[h] = "none")
        /\ ~t.listener /\ t.failures = -1 /\ Books(s, t) /\ t.state = s.state /\ ~t.loggedIn /\ ~t.inRead
    BY <1>1, <1>2, DialRemoved DEF Resting, Dial!Reconnect
  <2>4. DialGood(t)
    BY <1>1, <2>3 DEF DialGood, Whole, Sockets, Owned, Bare, Filed, InOrder, Books, Resting
  <2>5. LinkOf(t) = Dial!AsLink!Idle
    BY <2>3 DEF LinkOf, Dial!AsLink!Idle
  <2> QED
    BY <1>2, <2>4, <2>5
<1>3. CASE s.listener /\ s.failures = -1
  <2>1. t = [s EXCEPT !.keepAlive = FALSE, !.loggedIn = FALSE]
    BY <1>3 DEF Dial!Reconnect
  <2>2. /\ t \in Clients /\ Same(s, t) /\ Books(s, t) /\ t.state = s.state /\ ~t.loggedIn /\ ~t.keepAlive
        /\ t.io = s.io
    BY ONLY <1>1, <2>1 DEF Clients, Same, Books
  <2>3. DialGood(t)
    <3>1. Sockets(t) /\ Owned(t)
      BY <1>1, <1>3, <2>2 DEF Sockets, Owned, Same, Resting
    <3>2. Bare(t) /\ Filed(t) /\ InOrder(t)
      BY <1>1, <1>3, <2>2 DEF Bare, Filed, InOrder, Same, Books, Resting
    <3> QED
      BY <2>2, <3>1, <3>2 DEF DialGood, Whole
  <2>4. LinkOf(t) = Dial!AsLink!Idle
    BY <1>3, <2>2 DEF LinkOf, Dial!AsLink!Idle, Same
  <2> QED
    BY <1>3, <2>3, <2>4
<1>4. CASE s.listener /\ s.failures # -1
  <2> DEFINE u == Dial!SetState(s, "reconnecting")
             n == Dial!Bump(s.failures)
  <2>1. /\ u \in Clients /\ u.state = "reconnecting" /\ Same(s, u) /\ Books(s, u) /\ u.io = s.io
        /\ u.loggedIn = s.loggedIn /\ u.expire
    BY <1>1, DialState DEF Dial!SocketStates
  <2>2. n \in 0 .. MaxFails /\ n = Dial!AsLink!Bump(s.failures)
    BY <1>1, <1>4 DEF Dial!Bump, Dial!AsLink!Bump, DialAllowed, Dial!BoundsAssumption, FailureCounts
  <2>3. t = Parked(u, n)
    BY <1>4, <2>1 DEF Dial!Reconnect, Same, Parked
  <2> HIDE DEF u, n
  <2>4. /\ t \in Clients /\ t.state = "reconnecting" /\ Books(s, t) /\ t.io = s.io /\ ~t.loggedIn /\ ~t.keepAlive
        /\ t.expire /\ t.failures = n /\ t.socket = 0 /\ ~t.dns /\ t.alive /\ t.listener
    <3>1. n \in FailureCounts
      BY <2>2 DEF DialAllowed, Dial!BoundsAssumption, FailureCounts
    <3>2. /\ t \in Clients /\ t.state = u.state /\ Books(u, t) /\ t.io = u.io /\ ~t.loggedIn
          /\ ~t.keepAlive /\ t.expire = u.expire /\ t.failures = n /\ t.socket = u.socket /\ t.dns = u.dns
          /\ t.alive = u.alive /\ t.listener = u.listener /\ t.inRead = u.inRead
      <4>1. u \in Clients
        BY <2>1
      <4> QED
        BY <2>3, <3>1, <4>1, DialWaiting
    <3> QED
      BY <1>4, <2>1, <3>2 DEF Same, Books, Resting
  <2>5. DialGood(t)
    BY <1>1, <2>4 DEF DialGood, Whole, Sockets, Owned, Bare, Filed, InOrder, Books, Resting
  <2>6. LinkOf(t) = [phase |-> "waiting", fails |-> n]
    BY <2>4 DEF LinkOf
  <2> QED
    BY <1>4, <2>2, <2>5, <2>6
<1> QED
  BY <1>2, <1>3, <1>4

LEMMA DialCloses ==
    ASSUME DialAllowed, NEW s, DialGood(s), NEW h \in Handles, s.io[h] = "closing", NEW t, t = Dial!OnClose(s, h)
    PROVE  DialGood(t) /\ LinkOf(s).phase = "closing" /\ LostOf(s, t)
<1> DEFINE m == [s EXCEPT !.socket = 0]
           u == Dial!SetState(m, "unconnected")
           o == [k \in Handles |-> CASE k = s.socket /\ k = h -> "none"
                                     [] k = s.socket /\ k # h -> "freed"
                                     [] k # s.socket /\ k = h -> "leaked"
                                     [] OTHER                 -> u.io[k]]
           w == [u EXCEPT !.tls = "none", !.asks = {}, !.io = o]
<1>1. /\ s \in Clients /\ s.socket = h /\ h # 0 /\ s.state = "closing" /\ s.alive /\ ~s.loggedIn /\ ~s.dns
  BY DEF DialGood, Whole, Sockets, Owned, InOrder, DialAllowed, Dial!HandlesAssumption, Clients, Dial!SocketStates
<1>2. \A k \in Handles : k # s.socket => s.io[k] = "none"
  BY DEF DialGood, Whole, Sockets
<1>3. m \in Clients /\ m.socket = 0
  BY <1>1 DEF Clients, HandleNos
<1>4. /\ Books(s, m) /\ m.failures = s.failures /\ m.listener = s.listener /\ m.io = s.io
      /\ m.alive = s.alive /\ m.loggedIn = s.loggedIn /\ m.dns = s.dns /\ m.inRead = s.inRead
  BY <1>1 DEF Clients, Books
<1> HIDE DEF m
<1>5. u \in Clients /\ u.state = "unconnected" /\ Same(m, u) /\ Books(m, u) /\ u.loggedIn = m.loggedIn
      /\ u.io = m.io
  BY <1>3, DialState DEF Dial!SocketStates
<1>14. t = Dial!Reconnect(w)
  BY DEF Dial!OnClose, m
<1> HIDE DEF u
<1>8. /\ o \in HandleStates
      /\ \A k \in Handles : o[k] = "none"
  <2>1. \A k \in Handles : o[k] = "none"
    BY <1>1, <1>2, <1>4, <1>5
  <2>2. o = [k \in Handles |-> o[k]]
    OBVIOUS
  <2> HIDE DEF o
  <2> QED
    BY <2>1, <2>2 DEF HandleStates
<1> HIDE DEF o
<1>6. w \in Clients
  BY <1>5, <1>8 DEF Clients
<1>7. /\ w.state = u.state /\ w.socket = u.socket /\ w.failures = u.failures /\ w.listener = u.listener
      /\ w.alive = u.alive /\ w.loggedIn = u.loggedIn /\ w.dns = u.dns /\ w.inRead = u.inRead /\ w.io = o /\ w.asks = {}
      /\ w.answered = u.answered /\ w.results = u.results /\ w.sequence = u.sequence
  <2>1. u \in Clients
    BY <1>5
  <2> QED
    BY <1>8, <2>1 DEF Clients
<1>9. Resting(w)
  <2>1. \A a \in w.answered : a.id < w.sequence /\ a.kind = "share"
    BY <1>4, <1>5, <1>7 DEF DialGood, Whole, Filed, Books
  <2>2. \A a, b \in w.answered : a.id = b.id => a = b
    BY <1>4, <1>5, <1>7 DEF DialGood, Whole, Filed, Books
  <2>3. Filed(w)
    BY <1>7, <2>1, <2>2 DEF Filed
  <2> QED
    BY <1>3, <1>5, <1>6, <1>7, <1>8, <2>3 DEF Resting, Same
<1>10. /\ w.state = "unconnected" /\ ~w.dns /\ ~w.loggedIn /\ w.alive /\ w.failures = s.failures
       /\ w.listener = s.listener /\ w.inRead = s.inRead
  BY <1>1, <1>4, <1>5, <1>7, ZenonT(60) DEF Same
<1>11. ~w.listener => w.failures = -1 /\ ~w.inRead
  BY <1>10 DEF DialGood, Whole, Owned
<1> HIDE DEF w
<1>12. DialGood(t) /\ LinkOf(t) = (IF w.failures = -1 THEN Dial!AsLink!Idle
                                    ELSE [phase |-> "waiting", fails |-> Dial!AsLink!Bump(w.failures)])
  BY <1>9, <1>10, <1>11, <1>14, DialReconnect
<1>13. LinkOf(s) = [phase |-> "closing", fails |-> s.failures]
  BY <1>1 DEF LinkOf
<1> QED
  BY <1>10, <1>12, <1>13 DEF LostOf, Dial!AsLink!Lost

(* connect(), and what becomes of the lookup.                              *)
LEMMA DialLooksUp ==
    ASSUME NEW s \in Clients, NEW x \in {"none", "idle", "sent1", "sent2"},
           NEW y \in {"none", "new", "shaking", "ready"}, NEW n \in FailureCounts,
           NEW t, t = [s EXCEPT !.socks5 = x, !.tls = y, !.failures = n, !.dns = TRUE]
    PROVE  t \in Clients
BY ZenonT(60) DEF Clients

LEMMA DialConnects ==
    ASSUME DialAllowed, NEW s, DialGood(s), s.socket = 0, ~s.inRead, s.listener, NEW t, t = Dial!Connect(s)
    PROVE  /\ DialGood(t) /\ LinkOf(s).phase \in {"off", "lookup", "waiting"}
           /\ LinkOf(t) = Dial!AsLink!Started(LinkOf(s))
<1> DEFINE u == Dial!SetState(s, "lookup")
           x == IF Proxy THEN "idle" ELSE u.socks5
           y == IF TLS /\ ~Proxy THEN "new" ELSE u.tls
           n == IF u.failures = -1 THEN 0 ELSE u.failures
<1>1. /\ s \in Clients /\ s.alive /\ ~s.loggedIn /\ s.state \in {"unconnected", "lookup", "reconnecting"}
      /\ s.asks = {} /\ ~s.keepAlive
  BY DEF DialGood, Whole, Owned, Sockets, InOrder, Bare, Reading
<1>5. u \in Clients
  BY <1>1, DialState DEF Dial!SocketStates
<1>2. u.state = "lookup" /\ Same(s, u) /\ Books(s, u) /\ u.io = s.io /\ u.loggedIn = s.loggedIn
      /\ u.keepAlive = s.keepAlive
  BY <1>1, DialState DEF Dial!SocketStates
<1> HIDE DEF u
<1>3. /\ x \in {"none", "idle", "sent1", "sent2"} /\ y \in {"none", "new", "shaking", "ready"}
      /\ n \in FailureCounts
  BY ONLY <1>5, DialAllowed DEF Clients, FailureCounts, DialAllowed, Dial!BoundsAssumption
<1>4. t = [u EXCEPT !.socks5 = x, !.tls = y, !.failures = n, !.dns = TRUE]
  BY ONLY t = Dial!Connect(s), ZenonT(60) DEF Dial!Connect, u
<1> HIDE DEF x, y, n
<1>6. t \in Clients
  BY ONLY <1>3, <1>4, <1>5, DialLooksUp, ZenonT(60)
<1>7. /\ t.state = u.state /\ t.socket = u.socket /\ t.failures = n /\ t.listener = u.listener
      /\ t.alive = u.alive /\ t.loggedIn = u.loggedIn /\ t.dns /\ t.inRead = u.inRead /\ t.io = u.io
      /\ t.keepAlive = u.keepAlive /\ Books(u, t)
  BY ONLY <1>4, <1>5 DEF Clients, Books
<1>8. DialGood(t)
  <2>1. Sockets(t) /\ Owned(t)
    BY <1>1, <1>2, <1>7 DEF DialGood, Whole, Sockets, Owned, Same
  <2>2. Bare(t) /\ Filed(t) /\ InOrder(t)
    BY <1>1, <1>2, <1>7 DEF DialGood, Whole, Bare, Filed, InOrder, Same, Books
  <2> QED
    BY <1>6, <2>1, <2>2 DEF DialGood, Whole
<1>9. LinkOf(s).phase \in {"off", "lookup", "waiting"}
  BY <1>1 DEF LinkOf
<1>10. LinkOf(t) = [phase |-> "lookup", fails |-> n]
  BY <1>1, <1>2, <1>7 DEF LinkOf, Same
<1>11. n = IF s.failures = -1 THEN 0 ELSE s.failures
  BY <1>2 DEF Same, n
<1> QED
  BY <1>8, <1>9, <1>10, <1>11 DEF Dial!AsLink!Started, Dial!AsLink!HasSocket, Dial!AsLink!Astray, LinkOf

LEMMA DialResolved ==
    ASSUME DialAllowed, NEW s, DialGood(s), s.dns, ~s.inRead
    PROVE  /\ LinkOf(s).phase = "lookup"
           /\ \A t \in Dial!Resolved(s) :
                 DialGood(t) /\ (LostOf(s, t) \/ LinkOf(t) = [LinkOf(s) EXCEPT !.phase = "trying"])
<1> DEFINE m == [s EXCEPT !.dns = FALSE]
<1>1. /\ s \in Clients /\ s.alive /\ s.listener /\ ~s.loggedIn /\ s.state = "lookup" /\ s.socket = 0
      /\ s.asks = {} /\ ~s.keepAlive
  BY DEF DialGood, Whole, Owned, Sockets, InOrder, Bare, Reading
<1>2. LinkOf(s) = [phase |-> "lookup", fails |-> s.failures]
  BY <1>1 DEF LinkOf
<1>3. m \in Clients
  BY ONLY <1>1 DEF Clients
<1>4. /\ m.state = s.state /\ m.socket = s.socket /\ m.failures = s.failures /\ m.listener = s.listener
      /\ m.alive = s.alive /\ m.loggedIn = s.loggedIn /\ ~m.dns /\ m.inRead = s.inRead /\ m.io = s.io
      /\ m.keepAlive = s.keepAlive /\ Books(s, m)
  BY <1>1 DEF Clients, Books
<1> HIDE DEF m
<1>5. Resting(m)
  <2>1. Filed(m)
    BY <1>4 DEF DialGood, Whole, Filed, Books
  <2>2. \A h \in Handles : m.io[h] = "none"
    BY <1>1, <1>4 DEF DialGood, Whole, Sockets, DialAllowed, Dial!HandlesAssumption
  <2> QED
    BY <1>1, <1>3, <1>4, <2>1, <2>2 DEF Resting, Books
<1>6. DialGood(Dial!Reconnect(m)) /\ LostOf(s, Dial!Reconnect(m))
  <2>1. m.state \in {"unconnected", "lookup"} /\ ~m.dns /\ ~m.loggedIn /\ m.alive /\ m.listener
    BY <1>1, <1>4
  <2>2. DialGood(Dial!Reconnect(m)) /\ LinkOf(Dial!Reconnect(m)) =
            (IF m.failures = -1 THEN Dial!AsLink!Idle
             ELSE [phase |-> "waiting", fails |-> Dial!AsLink!Bump(m.failures)])
    BY <1>5, <2>1, DialReconnect
  <2> QED
    BY <1>2, <1>4, <2>2 DEF LostOf, Dial!AsLink!Lost
<1>7. ASSUME NEW h \in Handles, NEW t, t = Dial!Dial(m, h)
      PROVE  DialGood(t) /\ LinkOf(t) = [phase |-> "trying", fails |-> s.failures]
  <2> DEFINE u == Dial!SetState(m, "connecting")
             o == [u.io EXCEPT ![h] = "connecting"]
  <2>1. u \in Clients /\ u.state = "connecting" /\ Same(m, u) /\ Books(m, u) /\ u.io = m.io
        /\ u.loggedIn = m.loggedIn /\ u.keepAlive = m.keepAlive
    BY <1>3, DialState DEF Dial!SocketStates
  <2> HIDE DEF u
  <2>2. /\ o \in HandleStates
        /\ o[h] = "connecting" /\ \A k \in Handles : k # h => o[k] = "none"
    BY <1>5, <2>1 DEF Clients, HandleStates, Resting
  <2>3. t = [u EXCEPT !.socket = h, !.asks = {}, !.io = o]
    BY <1>7 DEF Dial!Dial, u
  <2> HIDE DEF o
  <2>4. u \in Clients
    BY <2>1
  <2>5. t \in Clients
    BY <2>2, <2>3, <2>4 DEF Clients, HandleNos
  <2>6. /\ t.state = u.state /\ t.socket = h /\ t.failures = u.failures /\ t.listener = u.listener
        /\ t.alive = u.alive /\ t.loggedIn = u.loggedIn /\ t.dns = u.dns /\ t.inRead = u.inRead /\ t.io = o
        /\ t.keepAlive = u.keepAlive /\ t.asks = {} /\ t.answered = u.answered /\ t.sequence = u.sequence
    BY <2>3, <2>4 DEF Clients
  <2>7. Sockets(t) /\ Owned(t)
    BY <1>1, <1>4, <2>1, <2>2, <2>6 DEF Sockets, Owned, Same, DialAllowed, Dial!HandlesAssumption
  <2>8. Bare(t) /\ InOrder(t)
    BY <1>1, <1>4, <2>1, <2>6 DEF Bare, InOrder, Same
  <2>9. Filed(t)
    BY <1>5, <2>1, <2>6 DEF Resting, Filed, Books
  <2>10. LinkOf(t) = [phase |-> "trying", fails |-> s.failures]
    BY <1>1, <1>4, <2>1, <2>6 DEF LinkOf, Same
  <2> QED
    BY <2>5, <2>7, <2>8, <2>9, <2>10 DEF DialGood, Whole
<1>8. [LinkOf(s) EXCEPT !.phase = "trying"] = [phase |-> "trying", fails |-> s.failures]
  BY <1>2
<1>9. \A h \in Handles : DialGood(Dial!Dial(m, h)) /\ LinkOf(Dial!Dial(m, h)) = [LinkOf(s) EXCEPT !.phase = "trying"]
  BY <1>7, <1>8
<1>10. Dial!Resolved(s) = {Dial!Reconnect(m)} \union {Dial!Dial(m, h) : h \in {k \in Handles : m.io[k] = "none"}}
  BY <1>1, <1>4 DEF Dial!Resolved, m
<1> QED
  BY <1>2, <1>6, <1>9, <1>10

---------------------------------------------------------------------------
(* What the owner does.                                                    *)
LEMMA DialQuiet ==
    ASSUME NEW s, s \in Clients, MaxFails \in Nat,
           NEW t, t = [s EXCEPT !.keepAlive = FALSE, !.expire = FALSE, !.failures = -1]
    PROVE  /\ t \in Clients /\ t.state = s.state /\ Books(s, t) /\ t.io = s.io /\ t.loggedIn = s.loggedIn
           /\ ~t.keepAlive /\ ~t.expire /\ t.failures = -1 /\ t.socket = s.socket /\ t.dns = s.dns
           /\ t.alive = s.alive /\ t.listener = s.listener /\ t.inRead = s.inRead /\ t.socks5 = s.socks5
           /\ t.tls = s.tls
<1>1. -1 \in FailureCounts
  BY DEF FailureCounts
<1> QED
  BY <1>1, ZenonT(60) DEF Clients, Books

LEMMA DialDisconnects ==
    ASSUME DialAllowed, NEW s, DialGood(s), NEW t, t = Dial!Disconnected(s)
    PROVE  DialGood(t) /\ LinkOf(t) = Dial!AsLink!Disconnected(LinkOf(s))
<1> DEFINE m == [s EXCEPT !.keepAlive = FALSE, !.expire = FALSE, !.failures = -1]
<1>1. s \in Clients /\ MaxFails \in Nat /\ (~s.alive => s.socket = 0)
  BY DEF DialGood, Whole, Owned, DialAllowed, Dial!BoundsAssumption
<1>2. /\ m \in Clients /\ m.state = s.state /\ Books(s, m) /\ m.io = s.io /\ m.loggedIn = s.loggedIn
      /\ ~m.keepAlive /\ ~m.expire /\ m.failures = -1 /\ m.socket = s.socket /\ m.dns = s.dns
      /\ m.alive = s.alive /\ m.listener = s.listener /\ m.inRead = s.inRead /\ m.socks5 = s.socks5
      /\ m.tls = s.tls
  BY <1>1, DialQuiet
<1>3. t = Dial!Close(m)
  BY DEF Dial!Disconnected
<1> HIDE DEF m
<1>4. Whole(m) /\ (m.state # "connected" => ~m.loggedIn)
  <2>1. Sockets(m) /\ Owned(m)
    BY <1>2 DEF DialGood, Whole, Sockets, Owned
  <2>2. Bare(m) /\ Filed(m) /\ (m.state # "connected" => ~m.loggedIn)
    BY <1>2 DEF DialGood, Whole, Bare, Filed, InOrder, Reading, Through, Books
  <2> QED
    BY <1>2, <2>1, <2>2 DEF Whole
<1>5. /\ DialGood(t) /\ Same(m, t) /\ t.state = (IF m.socket = 0 THEN m.state ELSE "closing")
  BY <1>3, <1>4, DialClose
<1>6. /\ t.failures = -1 /\ t.alive = s.alive /\ t.dns = s.dns
      /\ t.state = (IF s.socket = 0 THEN s.state ELSE "closing")
  BY <1>2, <1>5 DEF Same
<1>7. s.socket = 0 => t.expire = FALSE
  <2>1. s.socket = 0 => t = m
    BY <1>2, <1>3 DEF Dial!Close
  <2> QED
    BY <1>2, <2>1 DEF Clients
<1>8. CASE s.socket # 0
  <2>1. s.alive /\ s.state \in {"connecting", "connected", "closing"}
    BY <1>1, <1>8 DEF DialGood, Whole, Sockets, Clients, Dial!SocketStates
  <2>2. LinkOf(t) = [phase |-> "closing", fails |-> -1]
    BY <1>6, <1>8, <2>1 DEF LinkOf
  <2>3. LinkOf(s).phase \in {"trying", "up", "closing"}
    BY <2>1 DEF LinkOf
  <2> QED
    BY <1>5, <2>2, <2>3 DEF Dial!AsLink!Disconnected, Dial!AsLink!HasSocket, Dial!AsLink!Astray
<1>9. CASE s.socket = 0
  <2>1. s.state \in {"unconnected", "lookup", "reconnecting"}
    BY <1>9 DEF DialGood, Whole, Sockets
  <2>2. LinkOf(t) = [phase |-> IF s.alive /\ s.state = "lookup" /\ s.dns THEN "lookup" ELSE "off", fails |-> -1]
    BY <1>6, <1>7, <1>9, <2>1 DEF LinkOf
  <2>3. /\ LinkOf(s).phase \in {"off", "lookup", "waiting"}
        /\ LinkOf(s).phase = "lookup" <=> (s.alive /\ s.state = "lookup" /\ s.dns)
    BY <2>1 DEF LinkOf
  <2> QED
    BY <1>5, <2>2, <2>3 DEF Dial!AsLink!Disconnected, Dial!AsLink!HasSocket, Dial!AsLink!Astray
<1> QED
  BY <1>8, <1>9

LEMMA DialDeletes ==
    ASSUME DialAllowed, NEW s, DialGood(s), s.listener, s.socket = 0 => ~s.inRead,
           NEW t, t = [Dial!Deleted(s) EXCEPT !.inRead = FALSE]
    PROVE  /\ DialGood(t)
           /\ LinkOf(t) = (IF Dial!AsLink!HasSocket(LinkOf(s)) THEN Dial!AsLink!Disconnected(LinkOf(s))
                           ELSE Dial!AsLink!Idle)
<1> DEFINE l == [s EXCEPT !.listener = FALSE]
           m == [l EXCEPT !.keepAlive = FALSE, !.expire = FALSE, !.failures = -1]
           u == Dial!Close(m)
           d == Dial!Deleted(s)
<1>1. s \in Clients /\ MaxFails \in Nat /\ s.alive
  BY DEF DialGood, Whole, Owned, DialAllowed, Dial!BoundsAssumption
<1>2. /\ l \in Clients /\ l.state = s.state /\ Books(s, l) /\ l.io = s.io /\ l.loggedIn = s.loggedIn
      /\ l.socket = s.socket /\ l.dns = s.dns /\ l.alive = s.alive /\ ~l.listener /\ l.inRead = s.inRead
      /\ l.socks5 = s.socks5 /\ l.tls = s.tls
  BY <1>1, ZenonT(60) DEF Clients, Books
<1> HIDE DEF l
<1>3. /\ m \in Clients /\ m.state = l.state /\ Books(l, m) /\ m.io = l.io /\ m.loggedIn = l.loggedIn
      /\ ~m.keepAlive /\ ~m.expire /\ m.failures = -1 /\ m.socket = l.socket /\ m.dns = l.dns
      /\ m.alive = l.alive /\ m.listener = l.listener /\ m.inRead = l.inRead /\ m.socks5 = l.socks5
      /\ m.tls = l.tls
  BY <1>1, <1>2, DialQuiet
<1>4. d = IF u.state = "closing" /\ u.socket # 0 THEN u ELSE Dial!Removed(u)
  BY DEF Dial!Deleted, Dial!Disconnected, l
<1> HIDE DEF m
<1>5. CASE s.socket = 0
  <2>1. u = m /\ m.state # "closing" /\ m.socket = 0 /\ \A h \in Handles : m.io[h] = "none"
    BY <1>2, <1>3, <1>5 DEF Dial!Close, DialGood, Whole, Sockets, DialAllowed, Dial!HandlesAssumption
  <2> DEFINE r == Dial!Removed(m)
  <2>2. t = [r EXCEPT !.inRead = FALSE]
    BY <1>4, <2>1
  <2>3. m \in Clients
    BY <1>3
  <2>9. /\ r \in Clients /\ ~r.alive /\ ~r.dns /\ r.socket = 0 /\ (\A h \in Handles : r.io[h] = "none")
        /\ r.listener = m.listener /\ r.failures = m.failures /\ Books(m, r) /\ r.state = m.state
        /\ r.loggedIn = m.loggedIn
    BY <2>1, <2>3, DialRemoved
  <2> HIDE DEF r
  <2>4. /\ t \in Clients /\ ~t.alive /\ ~t.dns /\ t.socket = 0 /\ (\A h \in Handles : t.io[h] = "none")
        /\ t.listener = m.listener /\ t.failures = m.failures /\ Books(m, t) /\ t.state = m.state
        /\ t.loggedIn = m.loggedIn /\ ~t.inRead
    <3>1. r \in Clients
      BY <2>9
    <3>2. /\ t \in Clients /\ t.alive = r.alive /\ t.dns = r.dns /\ t.socket = r.socket /\ t.io = r.io
          /\ t.listener = r.listener /\ t.failures = r.failures /\ Books(r, t) /\ t.state = r.state
          /\ t.loggedIn = r.loggedIn /\ ~t.inRead
      BY ONLY <2>2, <3>1 DEF Clients, Books
    <3> QED
      BY <2>9, <3>2 DEF Books
  <2>5. Sockets(t) /\ Owned(t)
    BY <1>2, <1>3, <1>5, <2>4 DEF DialGood, Whole, Sockets, Owned
  <2>6. Bare(t) /\ Filed(t) /\ InOrder(t)
    BY <1>2, <1>3, <1>5, <2>4 DEF DialGood, Whole, Sockets, Bare, Filed, InOrder, Books
  <2>7. LinkOf(t) = Dial!AsLink!Idle
    BY <1>2, <1>3, <2>4 DEF LinkOf, Dial!AsLink!Idle
  <2>8. LinkOf(s).phase \in {"off", "lookup", "waiting"}
    BY <1>5 DEF LinkOf, DialGood, Whole, Sockets
  <2> QED
    BY <2>4, <2>5, <2>6, <2>7, <2>8 DEF DialGood, Whole, Dial!AsLink!HasSocket
<1>6. CASE s.socket # 0
  <2>1. s.state \in {"connecting", "connected", "closing"} /\ s.socket \in Handles /\ ~s.dns
    BY <1>1, <1>6 DEF DialGood, Whole, Sockets, Owned, Clients, HandleNos, Dial!SocketStates
  <2>2. /\ u \in Clients /\ Same(m, u) /\ Books(m, u) /\ u.state = "closing" /\ ~u.keepAlive /\ ~u.loggedIn
        /\ \A h \in Handles : u.io[h] # "none" => u.socket = h
        /\ u.io[u.socket] = "closing"
    <3>1. CASE s.state = "closing"
      <4>1. u = m
        BY <1>2, <1>3, <3>1 DEF Dial!Close
      <4> QED
        BY <1>2, <1>3, <3>1, <4>1 DEF DialGood, Whole, Sockets, InOrder, Same, Books
    <3>2. CASE s.state # "closing"
      <4> DEFINE o == [m.io EXCEPT ![m.socket] = "closing"]
      <4>1. /\ u \in Clients /\ Same(m, u) /\ Books(m, u) /\ u.state = "closing" /\ u.io = o
            /\ ~u.loggedIn /\ u.keepAlive = m.keepAlive
        <5>1. m \in Clients /\ m.state \in {"connecting", "connected"} /\ m.socket \in Handles /\ m.socket # 0
          BY <1>2, <1>3, <1>6, <2>1, <3>2
        <5> QED
          BY <5>1, DialCloseFields
      <4>2. o[m.socket] = "closing" /\ \A h \in Handles : o[h] # "none" => m.socket = h
        BY <1>2, <1>3, <2>1 DEF DialGood, Whole, Sockets, Clients, HandleStates
      <4> QED
        BY <1>3, <4>1, <4>2 DEF Same
    <3> QED
      BY <3>1, <3>2
  <2>3. /\ u.socket = s.socket /\ u.alive /\ ~u.listener /\ u.failures = -1 /\ ~u.dns /\ u.inRead = s.inRead
        /\ u.socks5 = s.socks5 /\ u.tls = s.tls /\ Books(s, u)
    BY <1>1, <1>2, <1>3, <2>1, <2>2 DEF Same, Books
  <2>9. t = [u EXCEPT !.inRead = FALSE]
    BY <1>4, <1>6, <2>2, <2>3
  <2> HIDE DEF u
  <2>4. /\ t \in Clients /\ t.state = u.state /\ t.io = u.io /\ t.keepAlive = u.keepAlive
        /\ t.loggedIn = u.loggedIn /\ t.socket = u.socket /\ t.alive = u.alive /\ t.listener = u.listener
        /\ t.failures = u.failures /\ t.dns = u.dns /\ ~t.inRead /\ t.socks5 = u.socks5 /\ t.tls = u.tls
        /\ Books(u, t)
    BY <2>2, <2>9 DEF Clients, Books
  <2>5. Sockets(t) /\ Owned(t)
    BY <1>6, <2>2, <2>3, <2>4 DEF Sockets, Owned
  <2>6. Bare(t) /\ Filed(t) /\ InOrder(t)
    BY <1>6, <2>1, <2>2, <2>3, <2>4 DEF DialGood, Whole, Bare, Filed, InOrder, Reading, Through, Books
  <2>7. LinkOf(t) = [phase |-> "closing", fails |-> -1]
    BY <2>2, <2>3, <2>4 DEF LinkOf
  <2>8. LinkOf(s).phase \in {"trying", "up", "closing"}
    BY <1>1, <2>1 DEF LinkOf
  <2> QED
    BY <2>2, <2>4, <2>5, <2>6, <2>7, <2>8 DEF DialGood, Whole, Dial!AsLink!HasSocket, Dial!AsLink!Disconnected, Dial!AsLink!Astray
<1> QED
  BY <1>5, <1>6

(* The call is over.                                                       *)
LEMMA DialDone ==
    ASSUME NEW s, DialGood(s), NEW t, t = [s EXCEPT !.inRead = FALSE]
    PROVE  DialGood(t) /\ ~t.inRead /\ LinkOf(t) = LinkOf(s)
<1>1. s \in Clients
  BY DEF DialGood, Whole
<1>2. /\ t \in Clients /\ t.socket = s.socket /\ t.alive = s.alive /\ t.listener = s.listener
      /\ t.failures = s.failures /\ t.dns = s.dns /\ t.socks5 = s.socks5 /\ t.tls = s.tls
      /\ t.state = s.state /\ t.io = s.io /\ t.loggedIn = s.loggedIn /\ t.keepAlive = s.keepAlive
      /\ t.expire = s.expire /\ ~t.inRead /\ Books(s, t)
  BY <1>1 DEF Clients, Books
<1>3. Sockets(t) /\ Owned(t) /\ Bare(t)
  BY <1>2 DEF DialGood, Whole, Sockets, Owned, Bare, Reading, Through, Books
<1>4. Filed(t) /\ InOrder(t)
  BY <1>2 DEF DialGood, Whole, Filed, InOrder, Through, Books
<1>5. LinkOf(t) = LinkOf(s)
  BY <1>2 DEF LinkOf
<1> QED
  BY <1>2, <1>3, <1>4, <1>5 DEF DialGood, Whole

LEMMA DialTicks ==
    ASSUME DialAllowed, DialInv, ~strayed, Dial!Tick
    PROVE  \A t \in Dial!Ticked(c) : /\ DialGood(t)
                                     /\ \/ Kept(c, t)
                                        \/ /\ LinkOf(c).phase \in {"off", "lookup", "waiting"}
                                           /\ LinkOf(t) = Dial!AsLink!Started(LinkOf(c))
<1>1. DialGood(c) /\ c \in Clients /\ c.listener /\ (c.expire \/ (c.keepAlive /\ c.sequence <= MaxSeq))
      /\ (c.socket = 0 => ~c.inRead)
  BY DEF DialInv, DialGood, Whole, Dial!Tick
<1>2. CASE c.state \in {"connected", "connecting"} /\ c.expire
  BY <1>1, <1>2, DialClosed DEF Dial!Ticked
<1>3. CASE c.state = "connected" /\ c.keepAlive /\ ~c.expire
  BY <1>1, <1>3, DialPing DEF Dial!Ticked
<1>4. CASE c.state = "reconnecting" /\ c.expire
  <2>1. c.socket = 0
    BY <1>1, <1>4 DEF DialGood, Whole, Sockets
  <2> QED
    BY <1>1, <1>4, <2>1, DialConnects DEF Dial!Ticked
<1>5. CASE ~(c.state \in {"connected", "connecting"} /\ c.expire) /\ ~(c.state = "connected" /\ c.keepAlive /\ ~c.expire)
           /\ ~(c.state = "reconnecting" /\ c.expire)
  BY <1>1, <1>5 DEF Dial!Ticked, Kept
<1> QED
  BY <1>2, <1>3, <1>4, <1>5

---------------------------------------------------------------------------
(* Whatever is done to a client, beside a socket or not, leaves a client.  *)
Typed(S) == S \subseteq Clients

LEMMA TypedClose ==
    ASSUME NEW s \in Clients
    PROVE  Dial!Close(s) \in Clients
<1> DEFINE u == Dial!SetState(s, "closing")
           o == [u.io EXCEPT ![s.socket] = "closing"]
<1>1. u \in Clients
  BY DialState DEF Dial!SocketStates
<1>2. Dial!Close(s) = s \/ Dial!Close(s) = [u EXCEPT !.io = o, !.loggedIn = FALSE]
  BY DEF Dial!Close
<1> HIDE DEF u
<1>3. o \in HandleStates
  BY <1>1 DEF Clients, HandleStates
<1> HIDE DEF o
<1>4. [u EXCEPT !.io = o, !.loggedIn = FALSE] \in Clients
  BY ONLY <1>1, <1>3 DEF Clients
<1> QED
  BY <1>2, <1>4

LEMMA TypedRemoved ==
    ASSUME NEW s \in Clients
    PROVE  Dial!Removed(s) \in Clients
<1> DEFINE o == [h \in Handles |-> IF h = s.socket THEN "freed" ELSE s.io[h]]
<1>1. o \in HandleStates
  BY DEF Clients, HandleStates
<1>2. Dial!Removed(s) = [s EXCEPT !.alive = FALSE, !.dns = FALSE, !.socket = 0, !.io = o]
  BY DEF Dial!Removed
<1> HIDE DEF o
<1> QED
  BY <1>1, <1>2, DialFreed

LEMMA TypedReconnect ==
    ASSUME DialAllowed, NEW s \in Clients
    PROVE  Dial!Reconnect(s) \in Clients
<1>1. CASE ~s.listener
  BY <1>1, TypedRemoved DEF Dial!Reconnect
<1>2. CASE s.listener /\ s.failures = -1
  <2>1. [s EXCEPT !.keepAlive = FALSE, !.loggedIn = FALSE] \in Clients
    BY ONLY s \in Clients DEF Clients
  <2> QED
    BY <1>2, <2>1 DEF Dial!Reconnect
<1>3. CASE s.listener /\ s.failures # -1
  <2> DEFINE u == Dial!SetState(s, "reconnecting")
             n == Dial!Bump(u.failures)
  <2>1. u \in Clients
    BY DialState DEF Dial!SocketStates
  <2> HIDE DEF u
  <2>2. n \in FailureCounts
    BY <2>1 DEF Clients, Dial!Bump, DialAllowed, Dial!BoundsAssumption, FailureCounts
  <2>3. Dial!Reconnect(s) = Parked(u, n)
    BY <1>3 DEF Dial!Reconnect, Parked, u
  <2> QED
    BY <2>1, <2>2, <2>3, DialWaiting
<1> QED
  BY <1>1, <1>2, <1>3

LEMMA TypedOnClose ==
    ASSUME DialAllowed, NEW s \in Clients, NEW h \in Handles
    PROVE  Dial!OnClose(s, h) \in Clients
<1> DEFINE m == [s EXCEPT !.socket = 0]
           u == Dial!SetState(m, "unconnected")
           o == [k \in Handles |-> CASE k = s.socket /\ k = h -> "none"
                                     [] k = s.socket /\ k # h -> "freed"
                                     [] k # s.socket /\ k = h -> "leaked"
                                     [] OTHER                 -> u.io[k]]
           w == [u EXCEPT !.tls = "none", !.asks = {}, !.io = o]
<1>1. m \in Clients
  BY DEF Clients, HandleNos
<1>2. u \in Clients
  BY <1>1, DialState DEF Dial!SocketStates
<1>3. Dial!OnClose(s, h) = Dial!Reconnect(w)
  BY DEF Dial!OnClose
<1> HIDE DEF u
<1>4. o \in HandleStates
  BY <1>2 DEF Clients, HandleStates
<1> HIDE DEF o
<1>5. w \in Clients
  BY ONLY <1>2, <1>4 DEF Clients
<1> QED
  BY <1>3, <1>5, TypedReconnect

LEMMA TypedConnect ==
    ASSUME DialAllowed, NEW s \in Clients
    PROVE  Dial!Connect(s) \in Clients
<1> DEFINE u == Dial!SetState(s, "lookup")
           x == IF Proxy THEN "idle" ELSE u.socks5
           y == IF TLS /\ ~Proxy THEN "new" ELSE u.tls
           n == IF u.failures = -1 THEN 0 ELSE u.failures
<1>1. u \in Clients
  BY DialState DEF Dial!SocketStates
<1>2. Dial!Connect(s) = [u EXCEPT !.socks5 = x, !.tls = y, !.failures = n, !.dns = TRUE]
  BY ZenonT(60) DEF Dial!Connect
<1> HIDE DEF u
<1>3. /\ x \in {"none", "idle", "sent1", "sent2"} /\ y \in {"none", "new", "shaking", "ready"}
      /\ n \in FailureCounts
  BY ONLY <1>1, DialAllowed DEF Clients, FailureCounts, DialAllowed, Dial!BoundsAssumption
<1> HIDE DEF x, y, n
<1> QED
  BY ONLY <1>1, <1>2, <1>3, DialLooksUp, ZenonT(60)

LEMMA TypedResolved ==
    ASSUME DialAllowed, NEW s \in Clients
    PROVE  Typed(Dial!Resolved(s))
<1> DEFINE m == [s EXCEPT !.dns = FALSE]
<1>1. m \in Clients
  BY ONLY s \in Clients DEF Clients
<1>2. Dial!Resolved(s) = {Dial!Reconnect(m)} \union
          {Dial!Dial(m, h) : h \in {k \in Handles : s.listener /\ s.io[k] = "none"}}
  BY DEF Dial!Resolved
<1> HIDE DEF m
<1>3. ASSUME NEW h \in Handles PROVE Dial!Dial(m, h) \in Clients
  <2> DEFINE u == Dial!SetState(m, "connecting")
             o == [u.io EXCEPT ![h] = "connecting"]
  <2>1. u \in Clients
    BY <1>1, DialState DEF Dial!SocketStates
  <2>2. Dial!Dial(m, h) = [u EXCEPT !.socket = h, !.asks = {}, !.io = o]
    BY DEF Dial!Dial
  <2> HIDE DEF u
  <2>3. o \in HandleStates /\ h \in HandleNos
    BY <2>1 DEF Clients, HandleStates, HandleNos
  <2> HIDE DEF o
  <2> QED
    BY <2>1, <2>2, <2>3 DEF Clients
<1> QED
  BY <1>1, <1>2, <1>3, TypedReconnect DEF Typed

(* Writing.                                                                *)
LEMMA TypedWrite ==
    ASSUME NEW s \in Clients
    PROVE  Typed(Dial!Write(s))
BY TypedClose DEF Dial!Write, Dial!Written, Typed

LEMMA TypedSend ==
    ASSUME DialAllowed, NEW s \in Clients, s.sequence <= MaxSeq, NEW kind \in Dial!Kinds
    PROVE  Typed(Dial!Send(s, s.sequence, kind))
<1> DEFINE k == IF Dial!Secure(s) THEN s.asks \union {[id |-> s.sequence, kind |-> kind]} ELSE s.asks
           n == s.sequence + 1
<1>1. s.sequence \in 1 .. MaxSeq /\ n \in NextNos
  BY DEF Clients, NextNos, DialAllowed, Dial!BoundsAssumption
<1>2. k \in SUBSET Dial!Asks
  BY <1>1 DEF Clients, Dial!Asks
<1>3. Dial!Sent(s, s.sequence, kind) = [s EXCEPT !.expire = TRUE, !.asks = k, !.sequence = n]
  BY DEF Dial!Sent
<1> HIDE DEF k, n
<1>4. Dial!Sent(s, s.sequence, kind) \in Clients
  BY ONLY s \in Clients, <1>1, <1>2, <1>3 DEF Clients
<1> QED
  BY <1>4, TypedClose DEF Dial!Send, Typed

LEMMA TypedLogin ==
    ASSUME DialAllowed, NEW s \in Clients
    PROVE  Typed(Dial!Login(s))
<1> DEFINE m == [s EXCEPT !.results = {}, !.sequence = 1, !.answered = {}]
<1>1. 1 \in NextNos /\ 1 <= MaxSeq
  BY DEF DialAllowed, Dial!BoundsAssumption, NextNos
<1>2. m \in Clients /\ m.sequence = 1
  BY <1>1 DEF Clients
<1>3. Dial!Login(s) = Dial!Send(m, 1, "login")
  BY DEF Dial!Login
<1> HIDE DEF m
<1> QED
  BY <1>1, <1>2, <1>3, TypedSend DEF Dial!Kinds

LEMMA TypedSubmit ==
    ASSUME DialAllowed, NEW s \in Clients, s.sequence \in RequestNos
    PROVE  Typed(Dial!Submit(s))
<1> DEFINE r == s.results \union {s.sequence}
           m == [s EXCEPT !.results = r]
<1>1. r \in SUBSET RequestNos
  BY DEF Clients
<1> HIDE DEF r
<1>2. m \in Clients /\ m.sequence = s.sequence
  BY ONLY s \in Clients, <1>1 DEF Clients
<1>3. Dial!Submit(s) = Dial!Send(m, m.sequence, "share")
  BY <1>2 DEF Dial!Submit, r
<1>4. m.sequence <= MaxSeq
  BY <1>2 DEF RequestNos, DialAllowed, Dial!BoundsAssumption
<1> HIDE DEF m
<1> QED
  BY <1>2, <1>3, <1>4, TypedSend DEF Dial!Kinds

LEMMA TypedPing ==
    ASSUME DialAllowed, NEW s \in Clients, s.sequence <= MaxSeq
    PROVE  Typed(Dial!Ping(s))
<1>1. Typed(Dial!Send(s, s.sequence, "ping"))
  BY TypedSend DEF Dial!Kinds
<1>2. \A t \in Clients : [t EXCEPT !.keepAlive = FALSE] \in Clients
  BY DEF Clients
<1> QED
  BY <1>1, <1>2 DEF Dial!Ping, Typed

LEMMA TypedHandshake ==
    ASSUME DialAllowed, NEW s \in Clients
    PROVE  Typed(Dial!Handshake(s))
<1>1. [s EXCEPT !.socks5 = "sent1"] \in Clients /\ [s EXCEPT !.expire = TRUE, !.tls = "shaking"] \in Clients
  BY ONLY s \in Clients DEF Clients
<1> QED
  BY <1>1, TypedWrite, TypedLogin DEF Dial!Handshake

LEMMA TypedConnected ==
    ASSUME DialAllowed, NEW s \in Clients, NEW h \in Handles, NEW ok \in BOOLEAN
    PROVE  Typed(Dial!OnConnect(s, h, ok))
<1> DEFINE o == [s.io EXCEPT ![h] = IF ok THEN "mute" ELSE "failed"]
           r == [k \in Handles |-> CASE k = s.socket /\ (k = h \/ s.io[k] = "mute") -> "open"
                                     [] k = h /\ k # s.socket                      -> "mute"
                                     [] OTHER                                      -> s.io[k]]
           t == [s EXCEPT !.io = o]
           m == [s EXCEPT !.io = r]
<1>1. o \in HandleStates /\ r \in HandleStates
  BY DEF Clients, HandleStates
<1>2. Dial!ReadStart(s, h) = m
  BY DEF Dial!ReadStart
<1>3. \A x \in Dial!OnConnect(s, h, ok) : \/ x = t \/ x = Dial!Close(t)
                                          \/ x \in Dial!Handshake(Dial!SetState(m, "connected"))
  BY <1>2 DEF Dial!OnConnect
<1> HIDE DEF o, r
<1>4. t \in Clients /\ m \in Clients
  BY ONLY s \in Clients, <1>1 DEF Clients
<1> HIDE DEF t, m
<1>5. Dial!SetState(m, "connected") \in Clients
  BY <1>4, DialState DEF Dial!SocketStates
<1> QED
  BY <1>3, <1>4, <1>5, TypedClose, TypedHandshake DEF Typed

(* Reading.                                                                *)
LEMMA TypedSocks ==
    ASSUME DialAllowed, NEW s \in Clients, NEW r \in {"short", "bad", "good"}
    PROVE  Typed(Dial!SocksRead(s, r))
<1> DEFINE x == IF TLS /\ s.tls = "none" THEN "new" ELSE s.tls
           a == [s EXCEPT !.socks5 = "sent2"]
           b == [s EXCEPT !.socks5 = "none", !.tls = x]
<1>1. x \in {"none", "new", "shaking", "ready"}
  BY DEF Clients
<1>2. Dial!SocksRead(s, r) \in {{s}, {Dial!Close(s)}, Dial!Write(a), Dial!Handshake(b)}
  BY DEF Dial!SocksRead
<1> HIDE DEF x
<1>3. a \in Clients /\ b \in Clients
  BY ONLY s \in Clients, <1>1 DEF Clients
<1> HIDE DEF a, b
<1> QED
  BY <1>2, <1>3, TypedClose, TypedWrite, TypedHandshake DEF Typed

LEMMA TypedTls ==
    ASSUME DialAllowed, NEW s \in Clients, NEW r \in {"short", "bad", "good"}
    PROVE  Typed(Dial!TlsRead(s, r))
<1>1. [s EXCEPT !.tls = "ready"] \in Clients
  BY ONLY s \in Clients DEF Clients
<1> QED
  BY <1>1, TypedClose, TypedWrite, TypedLogin DEF Dial!TlsRead, Typed

LEMMA TypedTimeout ==
    ASSUME NEW s \in Clients
    PROVE  Dial!StartTimeout(s) \in Clients
<1> DEFINE k == IF s.ext THEN TRUE ELSE s.keepAlive
<1>1. k \in BOOLEAN /\ Dial!StartTimeout(s) = [s EXCEPT !.expire = FALSE, !.keepAlive = k]
  BY DEF Clients, Dial!StartTimeout
<1> HIDE DEF k
<1> QED
  BY <1>1 DEF Clients

LEMMA TypedJob ==
    ASSUME NEW s \in Clients, NEW j \in JobIds \union {0}
    PROVE  Dial!OnJob(s, j) \in Clients
<1>1. [s EXCEPT !.job = j] \in Clients
  BY DEF Clients
<1> QED
  BY <1>1, TypedClose DEF Dial!OnJob

LEMMA TypedOnLogin ==
    ASSUME DialAllowed, NEW s \in Clients, NEW j \in JobIds \union {0}
    PROVE  Dial!OnLogin(s, j) \in Clients
<1> DEFINE m == Dial!ParseExtensions(s)
           y == s.state = "connected"
           u == [m EXCEPT !.job = j, !.failures = 0, !.loggedIn = y]
<1>1. [s EXCEPT !.ext = TRUE] \in Clients /\ [s EXCEPT !.ext = FALSE] \in Clients
  BY DEF Clients
<1>2. m \in Clients
  BY <1>1, TypedTimeout DEF Dial!ParseExtensions
<1>3. Dial!OnLogin(s, j) \in {u, Dial!Close(m)}
  BY DEF Dial!OnLogin
<1>4. y \in BOOLEAN /\ 0 \in FailureCounts
  BY DEF DialAllowed, Dial!BoundsAssumption, FailureCounts
<1> HIDE DEF m, y
<1>5. u \in Clients
  BY <1>2, <1>4 DEF Clients
<1> QED
  BY <1>2, <1>3, <1>5, TypedClose

LEMMA TypedResult ==
    ASSUME NEW s \in Clients, NEW a \in Dial!Asks
    PROVE  Dial!HandleSubmitResponse(s, a) \in Clients
<1> DEFINE r == s.results \ {a.id}
           k == s.answered \union {a}
<1>1. r \in SUBSET RequestNos /\ k \in SUBSET Dial!Asks
  BY DEF Clients
<1>2. Dial!HandleSubmitResponse(s, a) \in {s, [s EXCEPT !.results = r, !.answered = k]}
  BY DEF Dial!HandleSubmitResponse
<1> HIDE DEF r, k
<1>3. [s EXCEPT !.results = r, !.answered = k] \in Clients
  BY <1>1 DEF Clients
<1> QED
  BY <1>2, <1>3

LEMMA TypedLines ==
    ASSUME DialAllowed, NEW s \in Clients
    PROVE  Typed(Dial!Lines(s))
<1> DEFINE m == [Dial!StartTimeout(s) EXCEPT !.inRead = TRUE]
           How == {"critical", "mild", "empty", "result"}
<1>1. m \in Clients
  <2>1. Dial!StartTimeout(s) \in Clients
    BY TypedTimeout
  <2> QED
    BY <2>1 DEF Clients
<1>2. Dial!Lines(s) = {m} \union {Dial!OnJob(m, j) : j \in JobIds \union {0}} \union
          {Dial!ParseResponse(Dial!Answered(m, a), a, how, j) : a \in Dial!Owed(s), how \in How, j \in JobIds \union {0}}
  BY DEF Dial!Lines
<1>3. Dial!Owed(s) \subseteq Dial!Asks
  BY DEF Dial!Owed, Clients
<1> HIDE DEF m
<1>4. ASSUME NEW a \in Dial!Asks, NEW how \in How, NEW j \in JobIds \union {0}
      PROVE  Dial!ParseResponse(Dial!Answered(m, a), a, how, j) \in Clients
  <2> DEFINE k == m.asks \ {a}
             u == Dial!Answered(m, a)
  <2>1. k \in SUBSET Dial!Asks /\ u = [m EXCEPT !.asks = k]
    BY <1>1 DEF Clients, Dial!Answered
  <2> HIDE DEF k, u
  <2>2. u \in Clients
    BY <1>1, <2>1 DEF Clients
  <2>3. Dial!HandleSubmitResponse(u, a) \in Clients
    BY <2>2, TypedResult
  <2>4. /\ Dial!Close(Dial!HandleSubmitResponse(u, a)) \in Clients
        /\ Dial!OnLogin(u, j) \in Clients
    BY <2>2, <2>3, TypedClose, TypedOnLogin
  <2>5. Dial!ParseResponse(u, a, how, j) \in Clients
    BY <2>2, <2>3, <2>4 DEF Dial!ParseResponse
  <2> QED
    BY <2>5 DEF u
<1>5. \A j \in JobIds \union {0} : Dial!OnJob(m, j) \in Clients
  BY <1>1, TypedJob
<1> QED
  BY <1>1, <1>2, <1>3, <1>4, <1>5 DEF Typed

LEMMA TypedData ==
    ASSUME DialAllowed, NEW s \in Clients
    PROVE  Typed(Dial!Data(s))
<1>1. Typed({Dial!Reconnect(s)})
  BY TypedReconnect DEF Typed
<1>2. Typed(UNION {Dial!SocksRead(s, r) : r \in {"short", "bad", "good"}})
  BY TypedSocks DEF Typed
<1>3. Typed(UNION {Dial!TlsRead(s, r) : r \in {"short", "bad", "good"}})
  BY TypedTls DEF Typed
<1> QED
  BY <1>1, <1>2, <1>3, TypedLines DEF Dial!Data

LEMMA TypedDisconnected ==
    ASSUME DialAllowed, NEW s \in Clients
    PROVE  Dial!Disconnected(s) \in Clients
<1> DEFINE m == [s EXCEPT !.keepAlive = FALSE, !.expire = FALSE, !.failures = -1]
<1>1. m \in Clients
  BY DialQuiet DEF DialAllowed, Dial!BoundsAssumption
<1> QED
  BY <1>1, TypedClose DEF Dial!Disconnected

LEMMA TypedDeleted ==
    ASSUME DialAllowed, NEW s \in Clients
    PROVE  Dial!Deleted(s) \in Clients
<1>1. [s EXCEPT !.listener = FALSE] \in Clients
  BY DEF Clients
<1> QED
  BY <1>1, TypedDisconnected, TypedRemoved DEF Dial!Deleted

LEMMA TypedBecomes ==
    ASSUME NEW t \in Clients
    PROVE  /\ Dial!Becomes(t) => c' \in Clients
           /\ Dial!Do(t) => c' \in Clients
<1>1. \A u \in Clients : [u EXCEPT !.asks = {}, !.answered = {}] \in Clients
  BY DEF Clients
<1>2. [t EXCEPT !.inRead = FALSE] \in Clients
  BY DEF Clients
<1> QED
  BY <1>1, <1>2 DEF Dial!Becomes, Dial!Do

LEMMA DialTyped ==
    ASSUME DialAllowed, DialInv, Dial!Next
    PROVE  c' \in Clients /\ strayed' \in BOOLEAN /\ (strayed => strayed')
<1>1. c \in Clients /\ strayed \in BOOLEAN
  BY DEF DialInv
<1>2. CASE Dial!OwnerConnects
  BY <1>1, <1>2, TypedConnect, TypedBecomes DEF Dial!OwnerConnects, Clients
<1>3. CASE Dial!OwnerDisconnects
  BY <1>1, <1>3, TypedDisconnected, TypedBecomes DEF Dial!OwnerDisconnects
<1>4. CASE Dial!OwnerDeletes
  BY <1>1, <1>4, TypedDeleted, TypedBecomes DEF Dial!OwnerDeletes
<1>5. CASE Dial!OwnerSubmits
  BY <1>1, <1>5, TypedSubmit, TypedClose, TypedBecomes DEF Dial!OwnerSubmits, Typed, RequestNos
<1>6. CASE Dial!Tick
  <2>1. PICK t \in Dial!Ticked(c) : Dial!Do(t)
    BY <1>6 DEF Dial!Tick
  <2>2. c.expire \/ c.sequence <= MaxSeq
    BY <1>6 DEF Dial!Tick
  <2>3. t \in Clients
    BY <1>1, <2>1, <2>2, TypedClose, TypedPing, TypedConnect DEF Dial!Ticked, Typed
  <2> QED
    BY <1>1, <1>6, <2>1, <2>3, TypedBecomes DEF Dial!Tick
<1>7. CASE Dial!DnsAnswers
  BY <1>1, <1>7, TypedResolved, TypedBecomes DEF Dial!DnsAnswers, Typed
<1>8. ASSUME NEW h \in Handles, Dial!Connected(h) PROVE c' \in Clients /\ UNCHANGED strayed
  BY <1>1, <1>8, TypedConnected, TypedBecomes DEF Dial!Connected, Typed
<1>9. ASSUME NEW h \in Handles, Dial!CloseDone(h) PROVE c' \in Clients /\ UNCHANGED strayed
  BY <1>1, <1>9, TypedOnClose, TypedBecomes DEF Dial!CloseDone
<1>10. ASSUME NEW h \in Handles, Dial!ReadEnds(h) PROVE c' \in Clients /\ UNCHANGED strayed
  BY <1>1, <1>10, TypedClose, TypedBecomes DEF Dial!ReadEnds
<1>11. ASSUME NEW h \in Handles, Dial!ReadData(h) PROVE c' \in Clients /\ UNCHANGED strayed
  BY <1>1, <1>11, TypedData, TypedBecomes DEF Dial!ReadData, Typed
<1>12. ASSUME NEW h \in Handles, Dial!Redirected(h) PROVE c' \in Clients /\ strayed'
  <2>1. Dial!StartTimeout(c) \in Clients
    BY <1>1, TypedTimeout
  <2>2. [Dial!StartTimeout(c) EXCEPT !.inRead = TRUE] \in Clients
    BY <2>1 DEF Clients
  <2> QED
    BY <1>12, <2>2, TypedReconnect, TypedBecomes DEF Dial!Redirected
<1> QED
  BY <1>1, <1>2, <1>3, <1>4, <1>5, <1>6, <1>7, <1>8, <1>9, <1>10, <1>11, <1>12 DEF Dial!Next,
     Dial!OwnerDisconnects, Dial!OwnerDeletes, Dial!OwnerSubmits, Dial!Tick, Dial!DnsAnswers

---------------------------------------------------------------------------
(* A step of the client is one its owner knows of, or none.                *)
LinkMoves(s, t) ==
    LET l == LinkOf(s)
        k == LinkOf(t)
    IN  \/ Kept(s, t) \/ LoggedIn(s, t)
        \/ l.phase \in {"off", "lookup", "waiting"} /\ k = Dial!AsLink!Started(l)
        \/ l.phase = "lookup" /\ k = [l EXCEPT !.phase = "trying"]
        \/ l.phase \in {"lookup", "closing"} /\ LostOf(s, t)
        \/ k = Dial!AsLink!Disconnected(l)
        \/ k = (IF Dial!AsLink!HasSocket(l) THEN Dial!AsLink!Disconnected(l) ELSE Dial!AsLink!Idle)

LEMMA DialMoves ==
    ASSUME LinkMoves(c, c'), ~strayed, ~strayed'
    PROVE  Dial!AsLink!Next \/ UNCHANGED Dial!Link
<1>1. Dial!Link = LinkOf(c) /\ Dial!Link' = LinkOf(c') /\ LinkOf(c) # Dial!AsLink!Astray
  BY DEF Dial!Link, LinkOf, Dial!AsLink!Astray
<1> QED
  BY <1>1 DEF LinkMoves, Kept, LoggedIn, LostOf, Dial!AsLink!Next, Dial!AsLink!Start, Dial!AsLink!Found,
     Dial!AsLink!NotFound, Dial!AsLink!Login, Dial!AsLink!Shut, Dial!AsLink!Closed, Dial!AsLink!Disconnect,
     Dial!AsLink!Drop

DialOn == DialGood(c) /\ (c.socket = 0 => ~c.inRead)

LEMMA DialDid ==
    ASSUME NEW t, DialGood(t), LinkMoves(c, t), Dial!Do(t), ~strayed'
    PROVE  DialOn' /\ LinkMoves(c, c')
<1>1. c' = [t EXCEPT !.inRead = FALSE]
  BY DEF Dial!Do, Dial!Becomes
<1>2. DialGood(c') /\ ~c'.inRead /\ LinkOf(c') = LinkOf(t)
  BY <1>1, DialDone
<1> QED
  BY <1>2 DEF DialOn, LinkMoves, Kept, LoggedIn, LostOf

LEMMA DialNext ==
    ASSUME DialAllowed, DialInv, Dial!Next, ~strayed, ~strayed'
    PROVE  DialOn' /\ LinkMoves(c, c')
<1>1. DialGood(c) /\ (c.socket = 0 => ~c.inRead) /\ (c.listener => c.alive)
  BY DEF DialInv, DialGood, Whole, Owned
<1>2. CASE Dial!OwnerConnects
  <2>1. c.socket = 0 /\ c.listener /\ Dial!Do(Dial!Connect(c))
    BY <1>2 DEF Dial!OwnerConnects
  <2> QED
    BY <1>1, <2>1, DialConnects, DialDid DEF LinkMoves
<1>3. CASE Dial!OwnerDisconnects
  BY <1>1, <1>3, DialDisconnects, DialDid DEF Dial!OwnerDisconnects, LinkMoves
<1>4. CASE Dial!OwnerDeletes
  <2>1. c' = [Dial!Deleted(c) EXCEPT !.inRead = FALSE] /\ c.listener
    BY <1>4 DEF Dial!OwnerDeletes, Dial!Do, Dial!Becomes
  <2>2. Dial!Deleted(c) \in Clients
    BY <1>1, TypedDeleted DEF DialGood, Whole
  <2>3. ~c'.inRead
    BY <2>1, <2>2 DEF Clients
  <2> QED
    BY <1>1, <2>1, <2>3, DialDeletes DEF LinkMoves, DialOn
<1>5. CASE Dial!OwnerSubmits
  <2>1. CASE \E t \in Dial!Submit(c) : Dial!Do(t)
    BY <1>1, <1>5, <2>1, DialSubmit, DialDid DEF Dial!OwnerSubmits, LinkMoves, RequestNos
  <2>2. CASE Dial!Do(Dial!Close(c))
    BY <1>1, <2>2, DialClosed, DialDid DEF LinkMoves
  <2> QED
    BY <1>5, <2>1, <2>2 DEF Dial!OwnerSubmits
<1>6. CASE Dial!Tick
  <2>1. PICK t \in Dial!Ticked(c) : Dial!Do(t)
    BY <1>6 DEF Dial!Tick
  <2>2. DialGood(t) /\ LinkMoves(c, t)
    BY <1>6, <2>1, DialTicks DEF LinkMoves
  <2> QED
    BY <2>1, <2>2, DialDid
<1>7. CASE Dial!DnsAnswers
  <2>1. PICK t \in Dial!Resolved(c) : Dial!Do(t)
    BY <1>7 DEF Dial!DnsAnswers
  <2>2. c.dns /\ c.socket = 0
    BY <1>1, <1>7 DEF Dial!DnsAnswers, DialGood, Whole, Owned, Sockets
  <2>3. DialGood(t) /\ LinkMoves(c, t)
    BY <1>1, <2>1, <2>2, DialResolved DEF LinkMoves
  <2> QED
    BY <2>1, <2>3, DialDid
<1>8. ASSUME NEW h \in Handles, Dial!Connected(h) PROVE DialOn' /\ LinkMoves(c, c')
  <2>1. PICK ok \in BOOLEAN : \E t \in Dial!OnConnect(c, h, ok) : Dial!Do(t)
    BY <1>8 DEF Dial!Connected
  <2>2. PICK t \in Dial!OnConnect(c, h, ok) : Dial!Do(t)
    BY <2>1
  <2>3. DialGood(t) /\ LinkMoves(c, t)
    BY <1>1, <1>8, <2>2, DialConnected DEF LinkMoves, Dial!Connected
  <2> QED
    BY <2>2, <2>3, DialDid
<1>9. ASSUME NEW h \in Handles, Dial!CloseDone(h) PROVE DialOn' /\ LinkMoves(c, c')
  BY <1>1, <1>9, DialCloses, DialDid DEF Dial!CloseDone, LinkMoves
<1>10. ASSUME NEW h \in Handles, Dial!ReadEnds(h) PROVE DialOn' /\ LinkMoves(c, c')
  BY <1>1, <1>10, DialClosed, DialDid DEF Dial!ReadEnds, LinkMoves
<1>11. ASSUME NEW h \in Handles, Dial!ReadData(h) PROVE DialOn' /\ LinkMoves(c, c')
  <2>0. c.listener
    BY <1>1, <1>11 DEF Dial!ReadData, Dial!Reads, DialGood, Whole, Owned, Sockets, Bare, Reading
  <2>1. DialGood(c') /\ (Kept(c, c') \/ LoggedIn(c, c'))
    BY <1>1, <1>11, <2>0, DialData DEF Dial!ReadData, Dial!Reads, Dial!Becomes
  <2>2. c.alive /\ c.state \in {"connected", "closing"}
    BY <1>1, <1>11 DEF Dial!ReadData, Dial!Reads, DialGood, Whole, Clients, Dial!SocketStates, Sockets, Bare, Reading,
       DialAllowed, Dial!HandlesAssumption
  <2>3. LinkOf(c).phase \in {"trying", "up", "closing"}
    BY <2>2 DEF LinkOf
  <2>4. LinkOf(c').phase \in {"trying", "up", "closing"}
    <3>1. [LinkOf(c) EXCEPT !.phase = "closing"].phase = "closing"
      BY DEF LinkOf
    <3>2. Dial!AsLink!LoggedIn(LinkOf(c)).phase \in {"up", "closing"}
      BY DEF Dial!AsLink!LoggedIn
    <3> QED
      BY <2>1, <2>3, <3>1, <3>2 DEF Kept, LoggedIn
  <2>5. c'.socket # 0
    BY <2>1, <2>4 DEF LinkOf, DialGood, Whole, Sockets
  <2> QED
    BY <2>1, <2>5 DEF DialOn, LinkMoves
<1>12. ASSUME NEW h \in Handles, Dial!Redirected(h) PROVE DialOn' /\ LinkMoves(c, c')
  BY <1>12 DEF Dial!Redirected
<1> QED
  BY <1>2, <1>3, <1>4, <1>5, <1>6, <1>7, <1>8, <1>9, <1>10, <1>11, <1>12 DEF Dial!Next

LEMMA DialPreserved ==
    ASSUME DialAllowed, DialInv, Dial!Next
    PROVE  DialInv'
BY DialTyped, DialNext DEF DialInv, DialOn

LEMMA DialInit ==
    ASSUME DialAllowed, Dial!Init
    PROVE  DialInv
<1>1. c \in Clients
  BY DEF Dial!Init, Dial!NewClient, Clients, HandleNos, HandleStates, FailureCounts, RequestNos, NextNos, Dial!SocketStates, DialAllowed, Dial!BoundsAssumption
<1> QED
  BY <1>1 DEF Dial!Init, Dial!NewClient, DialInv, DialGood, Whole, Sockets, Owned, Bare, Filed, InOrder

LEMMA DialSafe ==
    ASSUME DialAllowed, DialInv
    PROVE  /\ Dial!TypeOK /\ Dial!SocketOwned /\ Dial!AssertionsHold /\ Dial!AnswersMatch /\ Dial!SharesFiled
<1>1. Dial!TypeOK
  BY DEF DialInv, Clients, HandleNos, HandleStates, FailureCounts, RequestNos, NextNos, Dial!TypeOK
<1>2. Dial!SocketOwned
  BY DEF DialInv, DialGood, Whole, Sockets, Dial!SocketOwned, Clients, Dial!SocketStates
<1>3. Dial!AssertionsHold
  BY DEF DialInv, DialGood, Whole, Sockets, Owned, Dial!AssertionsHold, DialAllowed, Dial!HandlesAssumption
<1>4. Dial!AnswersMatch
  BY DEF DialInv, DialGood, Whole, Filed, Dial!AnswersMatch
<1>5. Dial!SharesFiled
  BY DEF DialInv, DialGood, Whole, Filed, Dial!SharesFiled
<1> QED
  BY <1>1, <1>2, <1>3, <1>4, <1>5

(* Until an attempt is begun beside a socket, by the owner or by the       *)
(* pool's client.reconnect, a client of a pool holds one socket and leaks  *)
(* none, hears of nothing after it was deleted, and tells of each share    *)
(* the pool's answer to it, whatever its handles and bounds, over a proxy, *)
(* TLS, both or neither, of any pool.                                      *)
THEOREM DialInvariant ==
    ASSUME DialAllowed
    PROVE  Dial!Spec => [](Dial!TypeOK /\ Dial!SocketOwned /\ Dial!AssertionsHold /\ Dial!AnswersMatch
                           /\ Dial!SharesFiled)
<1>1. Dial!Init => DialInv
  BY DialInit
<1>2. DialInv /\ [Dial!Next]_(Dial!vars) => DialInv'
  BY DialPreserved DEF DialInv, Dial!vars
<1>3. DialInv => Dial!TypeOK /\ Dial!SocketOwned /\ Dial!AssertionsHold /\ Dial!AnswersMatch /\ Dial!SharesFiled
  BY DialSafe
<1> QED
  BY <1>1, <1>2, <1>3, PTL DEF Dial!Spec

LEMMA DialLinkInit == Dial!Init => Dial!AsLink!Init
BY DEF Dial!Init, Dial!NewClient, Dial!AsLink!Init, Dial!AsLink!NewLink, Dial!Link

(* Of a client that begins beside its socket the owner hears anything.     *)
LEMMA DialStrays ==
    ASSUME DialAllowed, DialInv, Dial!Next, ~strayed, strayed'
    PROVE  Dial!AsLink!Next
<1>1. DialGood(c) /\ c \in Clients
  BY DEF DialInv
<1>2. Dial!Link' = Dial!AsLink!Astray /\ Dial!Link = LinkOf(c)
  BY DEF Dial!Link, Dial!AsLink!Astray, LinkOf
<1>3. ASSUME c.alive, c.socket # 0 PROVE Dial!AsLink!HasSocket(LinkOf(c))
  <2>1. c.state \in {"connecting", "connected", "closing"}
    BY <1>1, <1>3 DEF DialGood, Whole, Sockets, Clients, Dial!SocketStates
  <2> QED
    BY <1>3, <2>1 DEF LinkOf, Dial!AsLink!HasSocket
<1>4. \/ Dial!OwnerConnects /\ c.socket # 0
      \/ \E h \in Handles : Dial!Redirected(h)
  BY DEF Dial!Next, Dial!OwnerConnects, Dial!OwnerDisconnects, Dial!OwnerDeletes, Dial!OwnerSubmits, Dial!Tick,
     Dial!DnsAnswers, Dial!Connected, Dial!CloseDone, Dial!ReadEnds, Dial!ReadData
<1>5. CASE Dial!OwnerConnects /\ c.socket # 0
  <2>1. c.alive
    BY <1>1, <1>5 DEF Dial!OwnerConnects, DialGood, Whole, Owned
  <2> QED
    BY <1>2, <1>3, <1>5, <2>1 DEF Dial!AsLink!Next, Dial!AsLink!Start, Dial!AsLink!Started
<1>6. CASE \E h \in Handles : Dial!Redirected(h)
  <2>1. c.alive /\ c.socket # 0
    BY <1>1, <1>6 DEF Dial!Redirected, Dial!Reads, DialGood, Whole, Sockets, DialAllowed, Dial!HandlesAssumption
  <2> QED
    BY <1>2, <1>3, <2>1 DEF Dial!AsLink!Next, Dial!AsLink!Redirect
<1> QED
  BY <1>4, <1>5, <1>6

LEMMA DialSteps ==
    ASSUME DialAllowed, DialInv, [Dial!Next]_(Dial!vars)
    PROVE  DialInv' /\ [Dial!AsLink!Next]_(Dial!Link)
<1>1. CASE Dial!Next
  <2>1. DialInv' /\ (strayed => strayed') /\ strayed \in BOOLEAN
    BY <1>1, DialPreserved, DialTyped DEF DialInv
  <2>2. CASE strayed
    BY <2>1, <2>2 DEF Dial!Link
  <2>3. CASE ~strayed /\ strayed'
    BY <1>1, <2>1, <2>3, DialStrays
  <2>4. CASE ~strayed /\ ~strayed'
    BY <1>1, <2>1, <2>4, DialNext, DialMoves
  <2> QED
    BY <2>1, <2>2, <2>3, <2>4
<1>2. CASE UNCHANGED Dial!vars
  BY <1>2 DEF DialInv, Dial!Link, Dial!vars
<1> QED
  BY <1>1, <1>2

(* A client of a pool implements what IClient promises its owner           *)
(* (PoolLink): nothing, from a connect() or client.reconnect beside a      *)
(* socket on.                                                              *)
THEOREM DialIsLink ==
    ASSUME DialAllowed
    PROVE  Dial!Spec => Dial!AsLink!Spec
<1>1. Dial!Init => DialInv /\ Dial!AsLink!Init
  BY DialInit, DialLinkInit
<1>2. DialInv /\ [Dial!Next]_(Dial!vars) => DialInv' /\ [Dial!AsLink!Next]_(Dial!Link)
  BY DialSteps
<1> QED
  BY <1>1, <1>2, PTL DEF Dial!Spec, Dial!AsLink!Spec

CONSTANTS NumPools, Retries, Steady, MayStop, LateLogins
VARIABLES links, index, active, told, wanted, twice, calm
Strategy == INSTANCE PoolStrategy

---------------------------------------------------------------------------
(* The strategy that holds the clients (PoolStrategy).  What is active is  *)
(* connected only as nobody disconnects it while it is active, and the     *)
(* chain of backups is alive as it grows from the active pool alone.       *)
StrategyAllowed == Strategy!NumPoolsAssumption /\ Strategy!RetriesAssumption /\ Strategy!P!MaxFailsAssumption

Fit == {l \in Strategy!P!Links : l.phase = "astray" => l = Strategy!P!Astray}

ActiveWanted ==
    ~Strategy!Single /\ active # Strategy!NoPool => links[active].fails # -1 /\ index = active

FirstWanted ==
    ~MayStop => /\ links[0].fails # -1
                /\ active = Strategy!NoPool => links[index].fails # -1

Ready == wanted \/ MayStop
Untouched == ~Ready => \A i \in Strategy!Pools : links[i].phase = "off"

StrategyInv ==
    /\ Strategy!TypeOK /\ links \in [Strategy!Pools -> Fit]
    /\ Strategy!OneUp /\ Strategy!ActiveConnected /\ ActiveWanted /\ FirstWanted /\ Untouched
    /\ Strategy!UpLeftAlone

(* What each step of a client does to its phase and its count.             *)
LEMMA LinkTypes ==
    ASSUME StrategyAllowed, NEW l \in Fit
    PROVE  /\ Strategy!P!Started(l) \in Fit /\ Strategy!P!Started(l).phase \in {"lookup", "astray"}
           /\ Strategy!P!Started(l).fails # -1
           /\ l.phase \in {"up", "closing", "astray"} => Strategy!P!Started(l).phase = "astray"
           /\ Strategy!P!Disconnected(l) \in Fit
           /\ Strategy!P!Disconnected(l).phase \in {"off", "lookup", "closing", "astray"}
           /\ l.phase \in {"up", "closing"} => Strategy!P!Disconnected(l).phase = "closing"
           /\ l.phase = "astray" => Strategy!P!Disconnected(l).phase = "astray"
           /\ Strategy!P!LoggedIn(l) \in Fit /\ Strategy!P!LoggedIn(l).fails = 0
           /\ Strategy!P!LoggedIn(l).phase \in {"up", "closing"}
           /\ Strategy!P!Lost(l) \in Fit /\ Strategy!P!Lost(l).phase \in {"off", "waiting"}
           /\ Strategy!P!Lost(l).fails = -1 <=> l.fails = -1
           /\ l.phase \in Strategy!P!Phases /\ l.fails \in -1 .. MaxFails
           /\ Strategy!P!Astray \in Fit /\ Strategy!P!Astray.phase = "astray" /\ Strategy!P!Astray.fails = 0
<1>1. MaxFails \in Nat /\ MaxFails # 0 /\ l.phase \in Strategy!P!Phases /\ l.fails \in -1 .. MaxFails
      /\ (l.phase = "astray" => l = Strategy!P!Astray)
  BY DEF StrategyAllowed, Strategy!P!MaxFailsAssumption, Strategy!P!Links, Fit
<1>2. \A q \in Strategy!P!Phases \ {"astray"}, n \in -1 .. MaxFails : [phase |-> q, fails |-> n] \in Fit
  BY DEF Strategy!P!Links, Fit
<1>7. Strategy!P!Astray \in Fit /\ Strategy!P!Astray.phase = "astray" /\ Strategy!P!Astray.fails = 0
  BY <1>1 DEF Strategy!P!Astray, Fit, Strategy!P!Links, Strategy!P!Phases
<1>3. /\ Strategy!P!Started(l) \in Fit /\ Strategy!P!Started(l).phase \in {"lookup", "astray"}
      /\ Strategy!P!Started(l).fails # -1
      /\ l.phase \in {"up", "closing", "astray"} => Strategy!P!Started(l).phase = "astray"
  <2>1. CASE Strategy!P!HasSocket(l) \/ l = Strategy!P!Astray
    BY <1>7, <2>1 DEF Strategy!P!Started
  <2>2. CASE ~(Strategy!P!HasSocket(l) \/ l = Strategy!P!Astray)
    BY <1>1, <1>2, <2>2 DEF Strategy!P!Started, Strategy!P!HasSocket, Strategy!P!Phases
  <2> QED
    BY <2>1, <2>2
<1>4. /\ Strategy!P!Disconnected(l) \in Fit
      /\ Strategy!P!Disconnected(l).phase \in {"off", "lookup", "closing", "astray"}
      /\ l.phase \in {"up", "closing"} => Strategy!P!Disconnected(l).phase = "closing"
      /\ l.phase = "astray" => Strategy!P!Disconnected(l).phase = "astray"
  <2>1. CASE l = Strategy!P!Astray
    BY <1>7, <2>1 DEF Strategy!P!Disconnected
  <2>2. CASE l # Strategy!P!Astray
    BY <1>1, <1>2, <2>2 DEF Strategy!P!Disconnected, Strategy!P!HasSocket, Strategy!P!Phases
  <2> QED
    BY <2>1, <2>2
<1>5. /\ Strategy!P!LoggedIn(l) \in Fit /\ Strategy!P!LoggedIn(l).fails = 0
      /\ Strategy!P!LoggedIn(l).phase \in {"up", "closing"}
  BY <1>1, <1>2 DEF Strategy!P!LoggedIn, Strategy!P!Phases
<1>6. /\ Strategy!P!Lost(l) \in Fit /\ Strategy!P!Lost(l).phase \in {"off", "waiting"}
      /\ Strategy!P!Lost(l).fails = -1 <=> l.fails = -1
  BY <1>1, <1>2 DEF Strategy!P!Lost, Strategy!P!Idle, Strategy!P!Bump, Strategy!P!Phases
<1> QED
  BY <1>1, <1>3, <1>4, <1>5, <1>6, <1>7

LEMMA StrategyInit ==
    ASSUME StrategyAllowed, Strategy!Init
    PROVE  StrategyInv
<1>1. NumPools \in Nat /\ NumPools # 0 /\ 0 \in Strategy!Pools /\ MaxFails \in Nat
  BY DEF StrategyAllowed, Strategy!NumPoolsAssumption, Strategy!Pools, Strategy!P!MaxFailsAssumption
<1>2. /\ Strategy!P!NewLink \in Strategy!P!Links /\ Strategy!P!NewLink.phase = "off"
      /\ Strategy!P!NewLink.fails = 0
  BY <1>1 DEF Strategy!P!NewLink, Strategy!P!Links, Strategy!P!Phases
<1>3. Strategy!TypeOK /\ links \in [Strategy!Pools -> Fit]
  BY <1>1, <1>2 DEF Strategy!Init, Strategy!TypeOK, Fit
<1> QED
  BY <1>1, <1>2, <1>3 DEF Strategy!Init, StrategyInv, Strategy!OneUp, Strategy!ActiveConnected, ActiveWanted,
     FirstWanted, Untouched, Strategy!UpLeftAlone, Strategy!NoPool

(* Facts of a state that goes on.                                          *)
LEMMA StrategyFacts ==
    ASSUME StrategyAllowed, StrategyInv
    PROVE  /\ NumPools \in Nat /\ NumPools # 0 /\ 0 \in Strategy!Pools /\ Strategy!NoPool \notin Strategy!Pools
           /\ Strategy!Pools \subseteq Int /\ Retries \in Int
           /\ \A i \in Strategy!Pools : links[i] \in Fit
           /\ links \in [Strategy!Pools -> Fit] /\ index \in Strategy!Pools
           /\ active \in Strategy!Pools \union {Strategy!NoPool} /\ told \in Strategy!Pools \union {Strategy!NoPool}
BY DEF StrategyAllowed, Strategy!NumPoolsAssumption, Strategy!RetriesAssumption, Strategy!Pools,
   Strategy!P!MaxFailsAssumption, StrategyInv, Strategy!TypeOK, Strategy!NoPool

(* The types, from those of the links.                                     *)
LEMMA StrategyTyped ==
    ASSUME StrategyAllowed, StrategyInv, links' \in [Strategy!Pools -> Fit], index' \in Strategy!Pools,
           active' \in Strategy!Pools \union {Strategy!NoPool}, told' \in Strategy!Pools \union {Strategy!NoPool},
           wanted' \in BOOLEAN, calm' = calm, twice' \in SUBSET Strategy!P!Phases
    PROVE  Strategy!TypeOK'
BY DEF StrategyInv, Strategy!TypeOK, Fit, Strategy!Pools

LEMMA StrategyConnects ==
    ASSUME StrategyAllowed, StrategyInv, NEW ls \in [Strategy!Pools -> Fit], NEW i \in Strategy!Pools,
           Strategy!ConnectClient(ls, i)
    PROVE  /\ links' \in [Strategy!Pools -> Fit]
           /\ links'[i].phase \in {"lookup", "astray"} /\ links'[i].fails # -1
           /\ ls[i].phase \in {"up", "closing", "astray"} => links'[i].phase = "astray"
           /\ \A j \in Strategy!Pools : j # i => links'[j] = ls[j]
           /\ twice' \in SUBSET Strategy!P!Phases
           /\ ls[i].phase # "up" /\ "up" \notin twice => "up" \notin twice'
<1>1. ls[i] \in Fit
  OBVIOUS
<1>2. /\ Strategy!P!Started(ls[i]) \in Fit /\ Strategy!P!Started(ls[i]).phase \in {"lookup", "astray"}
      /\ Strategy!P!Started(ls[i]).fails # -1 /\ ls[i].phase \in Strategy!P!Phases
      /\ ls[i].phase \in {"up", "closing", "astray"} => Strategy!P!Started(ls[i]).phase = "astray"
  BY <1>1, LinkTypes
<1>3. links' = [ls EXCEPT ![i] = Strategy!P!Started(ls[i])]
      /\ twice' = IF Strategy!P!HasSocket(ls[i]) THEN twice \union {ls[i].phase} ELSE twice
  BY DEF Strategy!ConnectClient
<1>4. links'[i] = Strategy!P!Started(ls[i]) /\ \A j \in Strategy!Pools : j # i => links'[j] = ls[j]
  BY <1>3
<1>5. links' \in [Strategy!Pools -> Fit]
  BY <1>2, <1>3
<1>6. twice \in SUBSET Strategy!P!Phases
  BY DEF StrategyInv, Strategy!TypeOK
<1>7. twice' \in SUBSET Strategy!P!Phases /\ (ls[i].phase # "up" /\ "up" \notin twice => "up" \notin twice')
  BY <1>2, <1>3, <1>6
<1> QED
  BY <1>2, <1>4, <1>5, <1>7

(* connect() and stop().                                                   *)
LEMMA StrategyConnect ==
    ASSUME StrategyAllowed, StrategyInv, Strategy!Connect, UNCHANGED calm
    PROVE  StrategyInv'
<1>1. /\ links' \in [Strategy!Pools -> Fit]
      /\ links'[index].phase \in {"lookup", "astray"} /\ links'[index].fails # -1
      /\ links[index].phase \in {"up", "closing", "astray"} => links'[index].phase = "astray"
      /\ \A j \in Strategy!Pools : j # index => links'[j] = links[j]
      /\ twice' \in SUBSET Strategy!P!Phases
      /\ links[index].phase # "up" /\ "up" \notin twice => "up" \notin twice'
  BY StrategyFacts, StrategyConnects DEF Strategy!Connect
<1>2. ~wanted /\ wanted' = TRUE /\ index' = index /\ active' = active /\ told' = told
  BY DEF Strategy!Connect
<1>3. Strategy!TypeOK'
  BY <1>1, <1>2, StrategyFacts, StrategyTyped
<1>4. Strategy!UpLeftAlone'
  <2>1. ~MayStop => links[index].phase # "up"
    BY <1>2, StrategyFacts DEF StrategyInv, Untouched, Ready
  <2> QED
    BY <1>1, <2>1 DEF StrategyInv, Strategy!UpLeftAlone
<1>5. Strategy!OneUp' /\ Strategy!ActiveConnected'
  BY <1>1, <1>2, StrategyFacts DEF StrategyInv, Strategy!OneUp, Strategy!ActiveConnected, Strategy!Pools
<1>6. ActiveWanted' /\ FirstWanted'
  BY <1>1, <1>2, StrategyFacts DEF StrategyInv, ActiveWanted, FirstWanted, Strategy!Single
<1> QED
  BY <1>1, <1>2, <1>3, <1>4, <1>5, <1>6 DEF StrategyInv, Untouched, Ready, Strategy!Pools

LEMMA StrategyStop ==
    ASSUME StrategyAllowed, StrategyInv, Strategy!Stop, UNCHANGED calm
    PROVE  StrategyInv'
<1>1. /\ wanted' = FALSE /\ twice' = twice /\ MayStop
      /\ links' = [i \in Strategy!Pools |-> Strategy!P!Disconnected(links[i])]
  BY DEF Strategy!Stop, Strategy!SingleStop, Strategy!FailoverStop
<1>2. \A i \in Strategy!Pools :
         /\ links'[i] \in Fit /\ links'[i].phase # "up"
         /\ links[i].phase \in {"up", "closing"} => links'[i].phase = "closing"
         /\ links[i].phase = "astray" => links'[i].phase = "astray"
  BY <1>1, StrategyFacts, LinkTypes
<1>3. links' \in [Strategy!Pools -> Fit]
  BY <1>1, <1>2
<1>4. \/ Strategy!Single /\ UNCHANGED <<index, active, told>>
      \/ ~Strategy!Single /\ index' = 0 /\ active' = Strategy!NoPool /\ told' = Strategy!NoPool
  BY DEF Strategy!Stop, Strategy!SingleStop, Strategy!FailoverStop
<1>5. Strategy!TypeOK'
  <2>1. twice' \in SUBSET Strategy!P!Phases
    BY <1>1 DEF StrategyInv, Strategy!TypeOK
  <2> QED
    BY <1>1, <1>3, <1>4, <2>1, StrategyFacts, StrategyTyped
<1> QED
  BY <1>1, <1>2, <1>3, <1>4, <1>5, StrategyFacts DEF StrategyInv, Strategy!OneUp, Strategy!ActiveConnected, ActiveWanted,
     FirstWanted, Untouched, Ready, Strategy!UpLeftAlone, Strategy!Single, Strategy!Pools, Strategy!NoPool

(* A step of one client that no handler follows.                           *)
LEMMA StrategyAlone ==
    ASSUME StrategyAllowed, StrategyInv, UNCHANGED <<wanted, calm, index, active, told, twice>>,
           NEW i \in Strategy!Pools, NEW l \in Fit, links' = Strategy!Becomes(i, l), links[i].phase # "off",
           l.phase # "up", links[i].phase \in {"up", "closing", "astray"} => l.phase \in {"closing", "astray"},
           links[i].fails # -1 => l.fails # -1
    PROVE  StrategyInv'
<1>1. links' \in [Strategy!Pools -> Fit] /\ links'[i] = l
      /\ \A j \in Strategy!Pools : j # i => links'[j] = links[j]
  BY StrategyFacts DEF Strategy!Becomes
<1>2. Strategy!TypeOK'
  <2>1. wanted \in BOOLEAN /\ twice \in SUBSET Strategy!P!Phases
    BY DEF StrategyInv, Strategy!TypeOK
  <2> QED
    BY <1>1, <2>1, StrategyFacts, StrategyTyped
<1>3. Ready
  BY DEF StrategyInv, Untouched
<1> QED
  BY <1>1, <1>2, <1>3, StrategyFacts DEF StrategyInv, Strategy!OneUp, Strategy!ActiveConnected, ActiveWanted,
     FirstWanted, Untouched, Ready, Strategy!UpLeftAlone, Strategy!Single, Strategy!Pools

(* onClose() of client i, which is lost or astray by then.                 *)
LEMMA StrategyOnClose ==
    ASSUME StrategyAllowed, StrategyInv, UNCHANGED <<wanted, calm>>, Ready,
           NEW i \in Strategy!Pools, NEW n \in -1 .. MaxFails, NEW ls \in [Strategy!Pools -> Fit],
           Strategy!OnClose(i, n, ls), ls[i].phase \in {"off", "waiting", "astray"},
           links[i].fails # -1 => ls[i].fails # -1,
           n = -1 => ls[i].phase = "astray" \/ links[i].fails = -1,
           \A j \in Strategy!Pools : j # i => ls[j] = links[j]
    PROVE  StrategyInv'
<1>0. /\ wanted' \in BOOLEAN /\ twice \in SUBSET Strategy!P!Phases /\ Ready'
      /\ Strategy!UpLeftAlone /\ (~MayStop => links[0].fails # -1)
  BY DEF StrategyInv, Strategy!TypeOK, Ready, FirstWanted
<1>3. CASE Strategy!Single
  <2>1. links' = ls /\ active' = Strategy!NoPool /\ told' = Strategy!NoPool /\ index' = index /\ twice' = twice
    BY <1>3 DEF Strategy!OnClose, Strategy!SingleOnClose
  <2>2. \A j \in Strategy!Pools : j = i
    BY <1>3, StrategyFacts DEF Strategy!Single, Strategy!Pools
  <2>3. Strategy!TypeOK'
    BY <1>0, <2>1, StrategyFacts, StrategyTyped
  <2>4. 0 = i /\ index = i
    BY <2>2, StrategyFacts
  <2> QED
    BY <1>0, <2>1, <2>2, <2>3, <2>4, StrategyFacts DEF StrategyInv, Strategy!OneUp, Strategy!ActiveConnected,
       ActiveWanted, FirstWanted, Untouched, Strategy!UpLeftAlone, Strategy!Pools, Strategy!NoPool
<1>4. CASE ~Strategy!Single
  <2>1. active = i => links[i].fails # -1 /\ index = i
    BY <1>4, StrategyFacts DEF StrategyInv, ActiveWanted
  <2>2. /\ active' = IF active = i /\ n # -1 THEN Strategy!NoPool ELSE active
        /\ told' = IF active = i /\ n # -1 THEN Strategy!NoPool ELSE told
    BY <1>4 DEF Strategy!OnClose
  <2>3. active # Strategy!NoPool => index = active
    BY <1>4 DEF StrategyInv, ActiveWanted
  <2>4. CASE links' = ls /\ UNCHANGED <<index, twice>>
    <3>1. Strategy!TypeOK'
      BY <1>0, <2>2, <2>4, StrategyFacts, StrategyTyped
    <3>2. Strategy!OneUp' /\ Strategy!ActiveConnected'
      BY <2>1, <2>2, <2>4, StrategyFacts DEF StrategyInv, Strategy!OneUp, Strategy!ActiveConnected, Strategy!Pools,
         Strategy!NoPool
    <3>3. ActiveWanted' /\ FirstWanted'
      BY <1>4, <2>1, <2>2, <2>3, <2>4, StrategyFacts DEF StrategyInv, ActiveWanted, FirstWanted, Strategy!Single,
         Strategy!NoPool
    <3> QED
      BY <1>0, <2>4, <3>1, <3>2, <3>3 DEF StrategyInv, Untouched, Strategy!UpLeftAlone, Strategy!Pools
  <2>5. CASE n # -1 /\ index = i /\ index < NumPools - 1 /\ index' = index + 1 /\ Strategy!ConnectClient(ls, index + 1)
    <3>1. index + 1 \in Strategy!Pools /\ index + 1 # 0 /\ index + 1 # i
      BY <2>5, StrategyFacts DEF Strategy!Pools
    <3>2. /\ links' \in [Strategy!Pools -> Fit]
          /\ links'[index'].phase \in {"lookup", "astray"} /\ links'[index'].fails # -1
          /\ \A j \in Strategy!Pools : j # index' => links'[j] = ls[j]
          /\ twice' \in SUBSET Strategy!P!Phases
          /\ ls[index + 1].phase # "up" /\ "up" \notin twice => "up" \notin twice'
      BY <2>5, <3>1, StrategyConnects
    <3>3. active' = Strategy!NoPool /\ told' \in Strategy!Pools \union {Strategy!NoPool}
      BY <2>2, <2>3, <2>5, StrategyFacts
    <3>4. Strategy!TypeOK'
      BY <1>0, <2>5, <3>1, <3>2, <3>3, StrategyTyped
    <3>7. \A j \in Strategy!Pools : j # i => links[j].phase # "up"
      BY <2>3, <2>5, StrategyFacts DEF StrategyInv, Strategy!OneUp, Strategy!NoPool
    <3>5. \A j \in Strategy!Pools : links'[j].phase # "up"
      BY <2>5, <3>2, <3>7
    <3>8. Strategy!UpLeftAlone'
      BY <1>0, <3>1, <3>2, <3>7 DEF Strategy!UpLeftAlone
    <3>6. ~MayStop => links'[0].fails # -1
      BY <1>0, <2>5, <3>1, <3>2, StrategyFacts
    <3> QED
      BY <1>0, <2>5, <3>1, <3>2, <3>3, <3>4, <3>5, <3>6, <3>8 DEF StrategyInv, Strategy!OneUp,
         Strategy!ActiveConnected, ActiveWanted, FirstWanted, Untouched, Strategy!NoPool, Strategy!Pools
  <2> QED
    BY <1>4, <2>4, <2>5 DEF Strategy!OnClose
<1> QED
  BY <1>3, <1>4

(* onLoginSuccess() of client i, logged in or astray.                      *)
LEMMA StrategyOnLogin ==
    ASSUME StrategyAllowed, StrategyInv, UNCHANGED <<wanted, calm>>, Ready,
           NEW i \in Strategy!Pools, NEW ls \in [Strategy!Pools -> Fit],
           Strategy!OnLoginSuccess(i, ls), ls[i].phase \in {"up", "closing", "astray"}, ls[i].fails = 0,
           \A j \in Strategy!Pools : j # i => ls[j] = links[j],
           links[i].phase = "up" => ls[i].phase = "up"
    PROVE  StrategyInv'
<1> DEFINE a == IF i = 0 \/ active = Strategy!NoPool THEN i ELSE active
<1>0. /\ wanted' \in BOOLEAN /\ twice \in SUBSET Strategy!P!Phases /\ Ready'
      /\ Strategy!UpLeftAlone /\ (~MayStop => links[0].fails # -1)
  BY DEF StrategyInv, Strategy!TypeOK, Ready, FirstWanted
<1>3. CASE Strategy!Single
  <2>1. links' = ls /\ active' = 0 /\ told' = 0 /\ UNCHANGED <<index, twice>>
    BY <1>3 DEF Strategy!OnLoginSuccess, Strategy!SingleLogin
  <2>2. \A j \in Strategy!Pools : j = 0
    BY <1>3, StrategyFacts DEF Strategy!Single, Strategy!Pools
  <2>3. Strategy!TypeOK'
    BY <1>0, <2>1, StrategyFacts, StrategyTyped
  <2> QED
    BY <1>0, <1>3, <2>1, <2>2, <2>3, StrategyFacts DEF StrategyInv, Strategy!OneUp, Strategy!ActiveConnected,
       ActiveWanted, FirstWanted, Untouched, Strategy!UpLeftAlone, Strategy!Single, Strategy!Pools, Strategy!NoPool
<1>4. CASE ~Strategy!Single
  <2>1. /\ links' = [j \in Strategy!Pools |-> IF j >= 1 /\ j # a THEN Strategy!P!Disconnected(ls[j]) ELSE ls[j]]
        /\ active' = a /\ told' = a /\ twice' = twice
        /\ index' = IF active # a THEN a ELSE index
    BY <1>4 DEF Strategy!OnLoginSuccess
  <2>2. a \in Strategy!Pools /\ a # Strategy!NoPool /\ (a = i \/ a = active)
    BY StrategyFacts
  <2>3. /\ \A j \in Strategy!Pools : /\ links'[j] \in Fit
                                     /\ j >= 1 /\ j # a => links'[j].phase # "up"
                                     /\ ~(j >= 1 /\ j # a) => links'[j] = ls[j]
    BY <2>1, LinkTypes, StrategyFacts
  <2>4. links' \in [Strategy!Pools -> Fit]
    BY <2>1, <2>3
  <2>5. index' = a
    BY <1>4, <2>1, <2>2 DEF StrategyInv, ActiveWanted
  <2>6. links'[a].phase \in {"up", "closing", "astray"} /\ links'[a].fails # -1
    <3>1. links'[a] = ls[a]
      BY <2>2, <2>3
    <3>2. CASE a = i
      BY <3>1, <3>2
    <3>3. CASE a # i
      BY <1>4, <2>2, <3>1, <3>3 DEF StrategyInv, Strategy!ActiveConnected, ActiveWanted
    <3> QED
      BY <3>2, <3>3
  <2>7. \A j \in Strategy!Pools : links'[j].phase = "up" => j = a
    <3> SUFFICES ASSUME NEW j \in Strategy!Pools, links'[j].phase = "up", j # a PROVE FALSE
      OBVIOUS
    <3>1. j = 0
      BY <2>3, StrategyFacts DEF Strategy!Pools
    <3>2. j # i /\ links[j].phase = "up"
      BY <2>3, <3>1
    <3>3. active = 0
      BY <3>1, <3>2 DEF StrategyInv, Strategy!OneUp
    <3> QED
      BY <2>2, <3>1, <3>2, <3>3 DEF Strategy!NoPool
  <2>8. ~MayStop => links'[0].fails # -1
    BY <1>0, <2>3, StrategyFacts
  <2> HIDE DEF a
  <2>9. Strategy!TypeOK'
    BY <1>0, <2>1, <2>2, <2>4, <2>5, StrategyTyped
  <2> QED
    BY <1>0, <1>4, <2>1, <2>2, <2>4, <2>5, <2>6, <2>7, <2>8, <2>9 DEF StrategyInv, Strategy!OneUp,
       Strategy!ActiveConnected, ActiveWanted, FirstWanted, Untouched, Strategy!UpLeftAlone, Strategy!Pools
<1> QED
  BY <1>3, <1>4

LEMMA StrategyNext ==
    ASSUME StrategyAllowed, StrategyInv, [Strategy!Next]_(Strategy!vars)
    PROVE  StrategyInv'
<1>1. CASE (Strategy!Connect \/ Strategy!Stop) /\ UNCHANGED calm
  BY <1>1, StrategyConnect, StrategyStop
<1>2. CASE Strategy!CalmDown
  BY <1>2 DEF Strategy!CalmDown, StrategyInv, Strategy!TypeOK, Strategy!OneUp, Strategy!ActiveConnected, ActiveWanted,
     FirstWanted, Untouched, Ready, Strategy!UpLeftAlone, Strategy!Single, Strategy!Pools
<1>3. ASSUME NEW i \in Strategy!Pools, Strategy!Client(Strategy!Acts(i))
      PROVE  StrategyInv'
  <2>1. UNCHANGED <<wanted, calm>> /\ links[i] \in Fit /\ Strategy!Acts(i)
    BY <1>3, StrategyFacts DEF Strategy!Client, Strategy!outside
  <2> DEFINE On(l) == Strategy!Becomes(i, l)
  <2>9. ASSUME NEW l \in Fit
        PROVE  On(l) \in [Strategy!Pools -> Fit] /\ On(l)[i] = l
               /\ \A j \in Strategy!Pools : j # i => On(l)[j] = links[j]
    BY <2>9, StrategyFacts DEF Strategy!Becomes
  <2>10. /\ Strategy!P!Started(links[i]) \in Fit /\ Strategy!P!Started(links[i]).phase \in {"lookup", "astray"}
         /\ Strategy!P!Started(links[i]).fails # -1
         /\ Strategy!P!LoggedIn(links[i]) \in Fit /\ Strategy!P!LoggedIn(links[i]).fails = 0
         /\ Strategy!P!LoggedIn(links[i]).phase \in {"up", "closing"}
         /\ Strategy!P!Lost(links[i]) \in Fit /\ Strategy!P!Lost(links[i]).phase \in {"off", "waiting"}
         /\ Strategy!P!Lost(links[i]).fails = -1 <=> links[i].fails = -1
         /\ Strategy!P!Lost(links[i]).fails \in -1 .. MaxFails
         /\ Strategy!P!Astray \in Fit /\ Strategy!P!Astray.phase = "astray" /\ Strategy!P!Astray.fails = 0
    <3>1. \A l \in Fit : l.fails \in -1 .. MaxFails
      BY DEF Fit, Strategy!P!Links
    <3> QED
      BY <2>1, <3>1, LinkTypes
  <2>11. links[i].phase # "off" => Ready
    BY DEF StrategyInv, Untouched
  <2>2. CASE Strategy!Retry(i)
    BY <2>1, <2>2, <2>10, StrategyAlone DEF Strategy!Retry
  <2>3. CASE Strategy!Found(i)
    <3> DEFINE l == [links[i] EXCEPT !.phase = "trying"]
    <3>1. l \in Fit /\ l.phase = "trying" /\ l.fails = links[i].fails
      BY <2>1 DEF Strategy!P!Links, Strategy!P!Phases, Fit
    <3>2. links' = Strategy!Becomes(i, l) /\ UNCHANGED <<index, active, told, twice>> /\ links[i].phase = "lookup"
      BY <2>3 DEF Strategy!Found
    <3> HIDE DEF l
    <3> QED
      BY <2>1, <3>1, <3>2, StrategyAlone
  <2>4. CASE Strategy!Shut(i)
    <3> DEFINE l == [links[i] EXCEPT !.phase = "closing"]
    <3>1. l \in Fit /\ l.phase = "closing" /\ l.fails = links[i].fails
      BY <2>1 DEF Strategy!P!Links, Strategy!P!Phases, Fit
    <3>2. links' = Strategy!Becomes(i, l) /\ UNCHANGED <<index, active, told, twice>>
          /\ links[i].phase \in {"trying", "up"}
      BY <2>4 DEF Strategy!Shut
    <3> HIDE DEF l
    <3> QED
      BY <2>1, <3>1, <3>2, StrategyAlone
  <2>5. CASE Strategy!NotFound(i) \/ Strategy!Closed(i)
    <3>1. Strategy!OnClose(i, Strategy!P!Lost(links[i]).fails, On(Strategy!P!Lost(links[i])))
          /\ links[i].phase \in {"lookup", "closing"}
      BY <2>5 DEF Strategy!NotFound, Strategy!Closed, Strategy!Loses
    <3> DEFINE ls == On(Strategy!P!Lost(links[i]))
    <3>2. /\ ls \in [Strategy!Pools -> Fit] /\ ls[i] = Strategy!P!Lost(links[i])
          /\ \A j \in Strategy!Pools : j # i => ls[j] = links[j]
      BY <2>9, <2>10
    <3> HIDE DEF ls
    <3> QED
      BY <2>1, <2>10, <2>11, <3>1, <3>2, StrategyOnClose DEF ls
  <2>6. CASE Strategy!Login(i)
    <3>1. Strategy!OnLoginSuccess(i, On(Strategy!P!LoggedIn(links[i]))) /\ links[i].phase \in {"trying", "closing"}
      BY <2>6 DEF Strategy!Login
    <3> DEFINE ls == On(Strategy!P!LoggedIn(links[i]))
    <3>2. /\ ls \in [Strategy!Pools -> Fit] /\ ls[i] = Strategy!P!LoggedIn(links[i])
          /\ \A j \in Strategy!Pools : j # i => ls[j] = links[j]
      BY <2>9, <2>10
    <3> HIDE DEF ls
    <3> QED
      BY <2>1, <2>10, <2>11, <3>1, <3>2, StrategyOnLogin DEF ls
  <2>7. CASE Strategy!Redirect(i)
    <3>1. Strategy!OnClose(i, Strategy!P!Lost(links[i]).fails, On(Strategy!P!Astray))
          /\ links[i].phase \in {"trying", "up", "closing"}
      BY <2>7 DEF Strategy!Redirect, Strategy!Loses, Strategy!P!HasSocket
    <3> DEFINE ls == On(Strategy!P!Astray)
    <3>2. /\ ls \in [Strategy!Pools -> Fit] /\ ls[i] = Strategy!P!Astray
          /\ \A j \in Strategy!Pools : j # i => ls[j] = links[j]
      BY <2>9, <2>10
    <3> HIDE DEF ls
    <3> QED
      BY <2>1, <2>10, <2>11, <3>1, <3>2, StrategyOnClose DEF ls
  <2>8. CASE Strategy!Strange(i)
    <3>1. links[i] = Strategy!P!Astray
      BY <2>8 DEF Strategy!Strange
    <3>2. CASE \E n \in -1 .. MaxFails : Strategy!OnClose(i, n, links)
      BY <2>1, <2>10, <2>11, <3>1, <3>2, StrategyFacts, StrategyOnClose
    <3>3. CASE Strategy!OnLoginSuccess(i, links)
      BY <2>1, <2>10, <2>11, <3>1, <3>3, StrategyFacts, StrategyOnLogin
    <3> QED
      BY <2>8, <3>2, <3>3 DEF Strategy!Strange
  <2> QED
    BY <2>1, <2>2, <2>3, <2>4, <2>5, <2>6, <2>7, <2>8 DEF Strategy!Acts
<1>4. CASE UNCHANGED Strategy!vars
  BY <1>4 DEF Strategy!vars, StrategyInv, Strategy!TypeOK, Strategy!OneUp, Strategy!ActiveConnected, ActiveWanted,
     FirstWanted, Untouched, Ready, Strategy!UpLeftAlone, Strategy!Single, Strategy!Pools
<1> QED
  BY <1>1, <1>2, <1>3, <1>4 DEF Strategy!Next

(* Of any number of pools one that is not astray is logged in at most, the *)
(* one the upstream was told of; what is active is connected or astray;    *)
(* the chain of backups of an upstream that does not stop never ends with  *)
(* a pool given up; and such an upstream never connects a client that is   *)
(* logged in.  Pools may send client.reconnect.                            *)
THEOREM StrategySound ==
    ASSUME StrategyAllowed
    PROVE  Strategy!Spec => [](Strategy!TypeOK /\ Strategy!OneUp /\ Strategy!ActiveConnected /\ Strategy!UpLeftAlone
                               /\ Strategy!ChainAlive)
<1>1. Strategy!Init => StrategyInv
  BY StrategyInit
<1>2. StrategyInv /\ [Strategy!Next]_(Strategy!vars) => StrategyInv'
  BY StrategyNext
<1>3. StrategyInv => Strategy!TypeOK /\ Strategy!OneUp /\ Strategy!ActiveConnected /\ Strategy!UpLeftAlone
                     /\ Strategy!ChainAlive
  BY DEF StrategyInv, Strategy!ChainAlive, FirstWanted
<1> QED
  BY <1>1, <1>2, <1>3, PTL DEF Strategy!Spec

CONSTANTS Miners, MaxMappers, Timeouts
VARIABLES up, upstreams, idles, released, timeout, at, shares, answered
Simple == INSTANCE SimpleSplitter

(* Naturals: every set of them has a least, and a finite one a bound.      *)
LEMMA LeastNat ==
    ASSUME NEW T \in SUBSET Nat, T # {}
    PROVE  \E x \in T : \A y \in T : x <= y
<1> DEFINE Less == {p \in Nat \X Nat : p[1] < p[2]}
<1>1. IsWellFoundedOn(Less, Nat)
  BY NatLessThanWellFounded, Zenon DEF OpToRel
<1>2. PICK x \in T : \A y \in T : <<y, x>> \notin Less
  <2> HIDE DEF Less
  <2> QED
    BY <1>1, WFMin
<1> SUFFICES ASSUME NEW y \in T, y < x
             PROVE  FALSE
  OBVIOUS
<1>3. <<y, x>> \in Less
  OBVIOUS
<1> QED
  BY <1>2, <1>3

LEMMA GreatestNat ==
    ASSUME NEW T \in SUBSET Nat, IsFiniteSet(T), T # {}
    PROVE  \E x \in T : \A y \in T : y <= x
<1> DEFINE Bounded(U) == \E x \in U : \A y \in U : y <= x
           Bad == {U \in SUBSET T : U # {} /\ ~Bounded(U)}
           R   == StrictSubsetOrdering(T)
<1>1. IsWellFoundedOn(R, FiniteSubsetsOf(T)) /\ \A U \in SUBSET T : U \in FiniteSubsetsOf(T)
  <2>1. \A U \in SUBSET T : IsFiniteSet(U)
    BY FS_Subset
  <2> QED
    BY <2>1, FS_StrictSubsetOrderingWellFounded DEF FiniteSubsetsOf
<1>2. SUFFICES ASSUME T \in Bad PROVE FALSE
  OBVIOUS
<1>3. PICK U \in Bad : \A V \in Bad : <<V, U>> \notin R
  <2>1. Bad \subseteq FiniteSubsetsOf(T) /\ Bad # {}
    BY <1>1, <1>2
  <2> HIDE DEF Bad, R
  <2> QED
    BY <1>1, <2>1, WFMin
<1>4. PICK x \in U : TRUE
  OBVIOUS
<1> DEFINE V == U \ {x}
<1>5. V # {}
  <2> SUFFICES ASSUME V = {} PROVE FALSE
    OBVIOUS
  <2>1. \A y \in U : y = x
    OBVIOUS
  <2> QED
    BY <1>4, <2>1
<1>6. Bounded(V)
  <2> SUFFICES ASSUME ~Bounded(V) PROVE FALSE
    OBVIOUS
  <2>1. V \in Bad /\ V \subseteq T /\ V # U /\ V \subseteq U /\ U \subseteq T
    BY <1>4, <1>5
  <2>2. <<V, U>> \in R
    BY <2>1 DEF StrictSubsetOrdering
  <2> QED
    BY <1>3, <2>1, <2>2
<1>7. PICK z \in V : \A y \in V : y <= z
  BY <1>6
<1>8. x \in Nat /\ z \in Nat /\ z \in U
  BY <1>4, <1>7
<1>9. Bounded(U)
  <2>1. CASE x <= z
    BY <1>7, <1>8, <2>1
  <2>2. CASE z <= x
    <3>1. \A y \in U : y \in Nat /\ y <= x
      BY <1>7, <1>8, <2>2
    <3> QED
      BY <1>4, <3>1
  <2> QED
    BY <1>8, <2>1, <2>2
<1> QED
  BY <1>9

---------------------------------------------------------------------------
SimpleAllowed == Simple!TimeoutAssumption /\ Simple!MappersAssumption

Mappers == [link : {"idle", "trying", "up"}, active : BOOLEAN, dirty : BOOLEAN,
            miner : Miners \union {Simple!Nobody}, job : BOOLEAN, idle : 0 .. Simple!MaxIdle, pending : BOOLEAN]

Numbered == /\ \E k \in 0 .. MaxMappers : Simple!Created = 1 .. k
            /\ \A i \in released : up[i] # Simple!NewMapper

(* What serves a miner does not age.                                       *)
Ageless == \A i \in Simple!Ids : up[i].miner # Simple!Nobody => up[i].idle = 0

SimpleInv == Simple!TypeOK /\ Simple!OwnUpstream /\ Simple!IdlesExact /\ Numbered /\ Ageless

LEMMA SimpleFinite == \A T : Simple!IsFiniteSet(T) <=> IsFiniteSet(T)
BY DEF Simple!IsFiniteSet, IsFiniteSet

LEMMA SimpleCardinality == \A T : Simple!Cardinality(T) = Cardinality(T)
BY SimpleFinite DEF Simple!Cardinality, Cardinality

LEMMA SimpleIdleBound ==
    ASSUME SimpleAllowed, timeout \in Timeouts
    PROVE  Simple!MaxIdle \in Nat /\ \A t \in Timeouts : t < Simple!MaxIdle
<1>1. Timeouts \in SUBSET Nat /\ Timeouts # {} /\ IsFiniteSet(Timeouts)
  BY SimpleFinite DEF SimpleAllowed, Simple!TimeoutAssumption
<1>2. PICK x \in Timeouts : \A y \in Timeouts : y <= x
  BY <1>1, GreatestNat
<1> DEFINE After == {t + 1 : t \in Timeouts}
<1>3. x + 1 \in After /\ \A t \in Timeouts : x + 1 > t
  BY <1>1, <1>2
<1>4. After \subseteq Nat /\ Simple!MaxIdle = CHOOSE n \in After : \A t \in Timeouts : n > t
  BY <1>1 DEF Simple!MaxIdle
<1> HIDE DEF After
<1>5. Simple!MaxIdle \in After /\ \A t \in Timeouts : Simple!MaxIdle > t
  BY <1>3, <1>4
<1> QED
  BY <1>1, <1>4, <1>5

LEMMA SimpleFacts ==
    ASSUME SimpleAllowed, SimpleInv
    PROVE  /\ MaxMappers \in Nat /\ Simple!Nobody \notin Miners /\ Simple!Ids \subseteq Nat \ {0}
           /\ Simple!MaxIdle \in Nat /\ timeout \in Nat /\ timeout < Simple!MaxIdle
           /\ up \in [Simple!Ids -> Mappers] /\ upstreams \subseteq Simple!Ids
           /\ idles \subseteq upstreams /\ released \subseteq Simple!Ids
BY SimpleIdleBound DEF SimpleAllowed, SimpleInv, Simple!TypeOK, Mappers, Simple!TimeoutAssumption,
   Simple!MappersAssumption, Simple!Ids, Simple!IdlesExact

(* What the methods of a mapper do to the fields the rest depends on.      *)
LEMMA SimpleMethods ==
    ASSUME SimpleAllowed, SimpleInv, NEW x \in Mappers, NEW m \in Miners
    PROVE  /\ Simple!Connect(x, m) \in Mappers /\ Simple!Connect(x, m).miner = m
           /\ Simple!Connect(x, m).idle = x.idle
           /\ Simple!Reuse(x, m) \in Mappers /\ Simple!Reuse(x, m).miner = m /\ Simple!Reuse(x, m).idle = 0
           /\ Simple!Remove(x) \in Mappers /\ Simple!Remove(x).miner = Simple!Nobody /\ Simple!Remove(x).dirty
<1>1. Simple!Connect(x, m) \in Mappers /\ Simple!Connect(x, m).miner = m /\ Simple!Connect(x, m).idle = x.idle
  BY DEF Mappers, Simple!Connect
<1>2. 0 \in 0 .. Simple!MaxIdle
  BY SimpleFacts
<1>3. Simple!Reuse(x, m) \in Mappers /\ Simple!Reuse(x, m).miner = m /\ Simple!Reuse(x, m).idle = 0
  BY <1>2 DEF Mappers, Simple!Reuse
<1>4. Simple!Remove(x) \in Mappers /\ Simple!Remove(x).miner = Simple!Nobody /\ Simple!Remove(x).dirty
  BY DEF Mappers, Simple!Remove
<1> QED
  BY <1>1, <1>3, <1>4

LEMMA SimpleSettles ==
    ASSUME SimpleAllowed, SimpleInv, NEW x \in Mappers
    PROVE  /\ Simple!Stop(x) \in Mappers /\ Simple!Stop(x).miner = x.miner /\ Simple!Stop(x).dirty = x.dirty
           /\ Simple!Stop(x).idle = x.idle
           /\ Simple!SetJob(x) \in Mappers /\ Simple!SetJob(x).miner = x.miner /\ Simple!SetJob(x).idle = x.idle
BY DEF Mappers, Simple!Stop, Simple!SetJob

LEMMA SimpleInit ==
    ASSUME SimpleAllowed, Simple!Init
    PROVE  SimpleInv
<1>1. MaxMappers \in Nat /\ Simple!MaxIdle \in Nat
  BY SimpleIdleBound DEF SimpleAllowed, Simple!MappersAssumption, Simple!Init
<1>2. Simple!NewMapper \in Mappers
  BY <1>1 DEF Simple!NewMapper, Mappers
<1>3. Simple!TypeOK
  BY <1>2 DEF Simple!Init, Simple!TypeOK, Mappers, Simple!Ids
<1>4. Simple!Created = 1 .. 0
  BY DEF Simple!Init, Simple!Created
<1>5. Numbered
  BY <1>1, <1>4 DEF Numbered, Simple!Init
<1> QED
  BY <1>3, <1>5 DEF SimpleInv, Simple!OwnUpstream, Simple!IdlesExact, Simple!Init, Ageless, Simple!NewMapper

(* A step that leaves the ids where they are and no mapper as new.         *)
LEMMA SimpleNumbered ==
    ASSUME SimpleAllowed, SimpleInv, NEW i \in Simple!Ids, i \in upstreams, i \in upstreams' \union released',
           up' \in [Simple!Ids -> Mappers], \A j \in Simple!Ids : j # i => up'[j] = up[j],
           upstreams \ {i} = upstreams' \ {i}, released \ {i} = released' \ {i},
           i \in released' => up'[i] # Simple!NewMapper
    PROVE  Numbered'
<1>1. upstreams \subseteq Simple!Ids /\ released \subseteq Simple!Ids
  BY SimpleFacts
<1>2. \A j : j \in Simple!Created' <=> j \in Simple!Created
  <2> SUFFICES ASSUME NEW j PROVE j \in Simple!Created' <=> j \in Simple!Created
    OBVIOUS
  <2>1. CASE j = i
    BY <2>1 DEF Simple!Created
  <2>2. CASE j # i
    BY <2>2, <1>1 DEF Simple!Created, Simple!Ids, Simple!NewMapper, Simple!Nobody
  <2> QED
    BY <2>1, <2>2
<1>3. Simple!Created' = Simple!Created
  BY <1>2
<1>4. PICK k \in 0 .. MaxMappers : Simple!Created = 1 .. k
  BY DEF SimpleInv, Numbered
<1>5. \A j \in released' : up'[j] # Simple!NewMapper
  BY <1>1 DEF SimpleInv, Numbered, Simple!NewMapper, Simple!Nobody
<1> QED
  BY <1>3, <1>4, <1>5 DEF Numbered, Simple!NewMapper, Simple!Nobody

LEMMA SimpleLogin ==
    ASSUME SimpleAllowed, SimpleInv, NEW m \in Miners, Simple!Login(m)
    PROVE  SimpleInv' /\ Simple!HandedOnFresh
<1> DEFINE free == {i \in idles : Simple!Reusable(i)}
           new  == Simple!Cardinality(Simple!Created) + 1
           i    == IF free # {} THEN Simple!Least(free) ELSE new
<1>1. /\ at[m] = 0 /\ (free # {} \/ new <= MaxMappers)
      /\ at' = [at EXCEPT ![m] = i]
      /\ up' = [up EXCEPT ![i] = IF free # {} THEN Simple!Reuse(@, m) ELSE Simple!Connect(@, m)]
      /\ idles' = idles \ {i} /\ upstreams' = upstreams \union {i}
      /\ UNCHANGED <<released, timeout, shares, answered>>
  BY DEF Simple!Login
<1>2. free \in SUBSET Nat /\ (free # {} => i \in free)
  <2>1. free \subseteq idles /\ free \in SUBSET Nat
    BY SimpleFacts
  <2> HIDE DEF free
  <2> QED
    BY <2>1, LeastNat DEF Simple!Least
<1>3. PICK k \in 0 .. MaxMappers : Simple!Created = 1 .. k
  BY DEF SimpleInv, Numbered
<1>4. new = k + 1
  <2>1. Cardinality(1 .. k) = k
    BY <1>3, FS_Interval, SimpleFacts
  <2> QED
    BY <1>3, <2>1, SimpleCardinality
<1>5. free = {} => i = k + 1 /\ i \in Simple!Ids /\ i \notin Simple!Created
  BY <1>1, <1>3, <1>4, SimpleFacts DEF Simple!Ids
<1>6. free # {} => i \in idles /\ i \in upstreams /\ up[i].miner = Simple!Nobody /\ ~up[i].dirty /\ up[i].active
  BY <1>2, SimpleFacts DEF Simple!Reusable
<1> HIDE DEF new
<1>7. i \in Simple!Ids /\ up[i] \in Mappers
  BY <1>5, <1>6, SimpleFacts
<1>8. /\ up' \in [Simple!Ids -> Mappers] /\ up'[i].miner = m /\ up'[i].idle = 0
      /\ \A j \in Simple!Ids : j # i => up'[j] = up[j]
  <2>0. free = {} => up[i].idle = 0
    BY <1>5 DEF Simple!Created, Simple!NewMapper
  <2>1. \E x \in Mappers : up' = [up EXCEPT ![i] = x] /\ x.miner = m /\ x.idle = 0
    <3> DEFINE x == IF free # {} THEN Simple!Reuse(up[i], m) ELSE Simple!Connect(up[i], m)
    <3>1. up' = [up EXCEPT ![i] = x]
      BY <1>1
    <3> HIDE DEF free, i
    <3>2. ASSUME free # {} PROVE x \in Mappers /\ x.miner = m /\ x.idle = 0
      BY <1>7, <3>2, SimpleMethods
    <3>3. ASSUME free = {} PROVE x \in Mappers /\ x.miner = m /\ x.idle = 0
      BY <1>7, <2>0, <3>3, SimpleMethods
    <3>4. x \in Mappers /\ x.miner = m /\ x.idle = 0
      BY <3>2, <3>3
    <3> QED
      BY <3>1, <3>4
  <2> HIDE DEF i
  <2> QED
    BY <1>7, <2>1, SimpleFacts
<1>9. i \notin released
  BY <1>5, <1>6, SimpleFacts DEF SimpleInv, Simple!TypeOK, Simple!Created
<1>10. \A n \in Miners : at[n] > 0 => at[n] # i /\ at[n] \in upstreams /\ up[at[n]].miner = n
  BY <1>5, <1>6, SimpleFacts DEF SimpleInv, Simple!OwnUpstream, Simple!Created
<1>11. /\ at' \in [Miners -> {-1, 0} \union Simple!Ids] /\ at'[m] = i
       /\ \A n \in Miners : n # m => at'[n] = at[n]
  <2>1. at \in [Miners -> {-1, 0} \union Simple!Ids]
    BY DEF SimpleInv, Simple!TypeOK
  <2> HIDE DEF i
  <2> QED
    BY <1>1, <1>7, <2>1
<1>12. /\ idles' = idles \ {i} /\ upstreams' = upstreams \union {i}
       /\ UNCHANGED <<released, timeout, shares, answered>>
  BY <1>1
<1>13. free = {} => i = k + 1 /\ i \notin upstreams
  BY <1>5 DEF Simple!Created
<1>14. Numbered'
  <2>1. \A j \in Simple!Ids : j # i => up'[j] = up[j]
    BY <1>8
  <2>2. \A j \in Simple!Created' : j \in Simple!Created \/ j = i
    BY <1>12, <2>1 DEF Simple!Created, Simple!NewMapper, Simple!Nobody, Simple!Ids
  <2>3. \A j \in Simple!Created : j \in Simple!Created'
    BY <1>12, <2>1, SimpleFacts DEF Simple!Created, Simple!NewMapper, Simple!Nobody, Simple!Ids
  <2>4. i \in Simple!Created'
    BY <1>12 DEF Simple!Created
  <2>5. i \in Simple!Created \/ (i = k + 1 /\ k + 1 \in 0 .. MaxMappers)
    BY <1>5, <1>6, SimpleFacts DEF Simple!Created, Simple!Ids
  <2>6. \E n \in 0 .. MaxMappers : Simple!Created' = 1 .. n
    <3> HIDE DEF i
    <3>1. CASE i \in Simple!Created
      <4>1. Simple!Created' = 1 .. k
        BY <1>3, <2>2, <2>3, <3>1
      <4> QED
        BY <4>1
    <3>2. CASE i = k + 1 /\ k + 1 \in 0 .. MaxMappers
      <4>1. \A j : j \in Simple!Created' <=> j \in 1 .. k \/ j = k + 1
        BY <1>3, <2>2, <2>3, <2>4, <3>2
      <4>2. k \in Nat
        BY SimpleFacts
      <4>3. \A j : j \in 1 .. (k + 1) <=> j \in 1 .. k \/ j = k + 1
        BY <4>2
      <4>4. Simple!Created' = 1 .. (k + 1)
        BY <4>1, <4>3
      <4> QED
        BY <3>2, <4>4
    <3> QED
      BY <2>5, <3>1, <3>2
  <2>7. \A j \in released' : up'[j] # Simple!NewMapper
    BY <1>9, <1>12, <2>1, SimpleFacts DEF SimpleInv, Numbered, Simple!NewMapper, Simple!Nobody
  <2> QED
    BY <2>6, <2>7 DEF Numbered, Simple!NewMapper, Simple!Nobody
<1> HIDE DEF i
<1>15. Simple!TypeOK'
  BY <1>7, <1>8, <1>9, <1>11, <1>12, SimpleFacts DEF SimpleInv, Simple!TypeOK, Mappers, Simple!Ids, Simple!MaxIdle,
     Simple!Nobody
<1>16. Simple!OwnUpstream'
  BY <1>7, <1>8, <1>10, <1>11, <1>12, SimpleFacts DEF Simple!OwnUpstream
<1>17. Simple!IdlesExact'
  BY <1>7, <1>8, <1>12, SimpleFacts DEF SimpleInv, Simple!IdlesExact, Simple!Nobody
<1>18. Simple!HandedOnFresh
  BY <1>6, <1>8, <1>13, SimpleFacts DEF Simple!HandedOnFresh
<1>19. Ageless'
  BY <1>7, <1>8 DEF SimpleInv, Ageless, Simple!Ids, Simple!Nobody
<1> QED
  BY <1>14, <1>15, <1>16, <1>17, <1>18, <1>19 DEF SimpleInv

LEMMA SimpleClose ==
    ASSUME SimpleAllowed, SimpleInv, NEW m \in Miners, Simple!Close(m)
    PROVE  SimpleInv' /\ Simple!HandedOnFresh
<1> DEFINE i == at[m]
<1>1. /\ i > 0 /\ at' = [at EXCEPT ![m] = -1] /\ UNCHANGED <<timeout, answered>>
  BY DEF Simple!Close
<1>2. /\ i \in upstreams /\ i \in Simple!Ids /\ up[i] \in Mappers /\ up[i].miner = m /\ i \notin released
      /\ i \notin idles
  BY <1>1, SimpleFacts DEF SimpleInv, Simple!OwnUpstream, Simple!TypeOK, Simple!IdlesExact
<1>3. /\ at' \in [Miners -> {-1, 0} \union Simple!Ids] /\ at'[m] = -1
      /\ \A n \in Miners : n # m => at'[n] = at[n]
      /\ \A n \in Miners : n # m /\ at[n] > 0 => at[n] # i /\ at[n] \in upstreams /\ up[at[n]].miner = n
  BY <1>1, <1>2 DEF SimpleInv, Simple!TypeOK, Simple!OwnUpstream
<1>4. \/ /\ up' = [up EXCEPT ![i] = Simple!Stop(Simple!Remove(up[i]))]
         /\ idles' = idles \ {i} /\ upstreams' = upstreams \ {i}
         /\ released' = released \union {i} /\ shares' = {s \in shares : s[2] # i}
      \/ /\ up' = [up EXCEPT ![i] = Simple!Remove(up[i])]
         /\ idles' = idles \union {i} /\ upstreams' = upstreams
         /\ released' = released /\ shares' = shares
  BY DEF Simple!Close, Simple!StopUpstream, Simple!Removed
<1> HIDE DEF i
<1>5. \E x \in Mappers : up' = [up EXCEPT ![i] = x] /\ x.miner = Simple!Nobody /\ x.dirty
  <2>1. /\ Simple!Remove(up[i]) \in Mappers /\ Simple!Remove(up[i]).miner = Simple!Nobody
        /\ Simple!Remove(up[i]).dirty
    BY <1>2, SimpleMethods
  <2>2. /\ Simple!Stop(Simple!Remove(up[i])) \in Mappers
        /\ Simple!Stop(Simple!Remove(up[i])).miner = Simple!Nobody
        /\ Simple!Stop(Simple!Remove(up[i])).dirty
    BY <2>1, SimpleSettles
  <2> QED
    BY <1>4, <2>1, <2>2
<1>6. /\ up' \in [Simple!Ids -> Mappers] /\ up'[i].miner = Simple!Nobody /\ up'[i].dirty
      /\ \A j \in Simple!Ids : j # i => up'[j] = up[j]
  BY <1>2, <1>5, SimpleFacts
<1>7. up'[i] # Simple!NewMapper
  BY <1>6 DEF Simple!NewMapper
<1>8. Numbered'
  BY <1>2, <1>4, <1>6, <1>7, SimpleNumbered
<1>9. Simple!TypeOK'
  <2>1. shares' \subseteq Miners \X Simple!Ids /\ answered' \subseteq Miners \X (Miners \union {Simple!Nobody})
    BY <1>1, <1>4 DEF SimpleInv, Simple!TypeOK
  <2>2. timeout' \in Timeouts
    BY <1>1 DEF SimpleInv, Simple!TypeOK
  <2>3. released' \subseteq Simple!Ids /\ upstreams' \subseteq Simple!Ids \ released' /\ idles' \subseteq Simple!Ids
    BY <1>2, <1>4, SimpleFacts DEF SimpleInv, Simple!TypeOK
  <2> QED
    BY <1>3, <1>6, <2>1, <2>2, <2>3 DEF Simple!TypeOK, Mappers, Simple!Ids, Simple!MaxIdle, Simple!Nobody
<1>10. Simple!OwnUpstream'
  BY <1>3, <1>4, <1>6, SimpleFacts DEF Simple!OwnUpstream
<1>11. Simple!IdlesExact'
  BY <1>2, <1>4, <1>6, SimpleFacts DEF SimpleInv, Simple!IdlesExact, Simple!Nobody
<1>12. Simple!HandedOnFresh
  BY <1>6, SimpleFacts DEF Simple!HandedOnFresh
<1>13. Ageless'
  BY <1>2, <1>6 DEF SimpleInv, Ageless, Simple!Ids, Simple!Nobody
<1> QED
  BY <1>8, <1>9, <1>10, <1>11, <1>12, <1>13 DEF SimpleInv

(* What a strategy reports changes nobody's place.                         *)
LEMMA SimpleLink ==
    ASSUME SimpleAllowed, SimpleInv, NEW i \in upstreams, NEW x \in Mappers, x.miner = up[i].miner, x.idle = up[i].idle,
           Simple!Link(i, x), shares' \subseteq shares
    PROVE  SimpleInv' /\ Simple!HandedOnFresh
<1>1. i \in Simple!Ids /\ i \notin released
  BY SimpleFacts DEF SimpleInv, Simple!TypeOK
<1>2. up' = [up EXCEPT ![i] = x] /\ UNCHANGED <<upstreams, idles, released, timeout, at, answered>>
  BY DEF Simple!Link
<1>3. /\ up' \in [Simple!Ids -> Mappers] /\ \A j \in Simple!Ids : up'[j].miner = up[j].miner
      /\ \A j \in Simple!Ids : up'[j].idle = up[j].idle /\ (j # i => up'[j] = up[j])
  BY <1>1, <1>2, SimpleFacts
<1>4. Numbered'
  BY <1>1, <1>2, <1>3, SimpleNumbered
<1>5. Simple!TypeOK'
  <2>1. shares' \subseteq Miners \X Simple!Ids /\ answered' \subseteq Miners \X (Miners \union {Simple!Nobody})
    BY <1>2 DEF SimpleInv, Simple!TypeOK
  <2>2. timeout' \in Timeouts /\ at' \in [Miners -> {-1, 0} \union Simple!Ids]
    BY <1>2 DEF SimpleInv, Simple!TypeOK
  <2>3. released' \subseteq Simple!Ids /\ upstreams' \subseteq Simple!Ids \ released' /\ idles' \subseteq Simple!Ids
    BY <1>2 DEF SimpleInv, Simple!TypeOK
  <2> QED
    BY <1>3, <2>1, <2>2, <2>3 DEF Simple!TypeOK, Mappers, Simple!Ids, Simple!MaxIdle, Simple!Nobody
<1>6. Simple!OwnUpstream'
  BY <1>2, <1>3, SimpleFacts DEF SimpleInv, Simple!OwnUpstream
<1>7. Simple!IdlesExact'
  BY <1>2, <1>3, SimpleFacts DEF SimpleInv, Simple!IdlesExact, Simple!Nobody
<1>8. Simple!HandedOnFresh
  BY <1>2, <1>3, SimpleFacts DEF Simple!HandedOnFresh
<1>9. Ageless'
  BY <1>3 DEF SimpleInv, Ageless, Simple!Ids, Simple!Nobody
<1> QED
  BY <1>4, <1>5, <1>6, <1>7, <1>8, <1>9 DEF SimpleInv

LEMMA SimpleLinks ==
    ASSUME SimpleAllowed, SimpleInv, NEW i \in Simple!Ids,
           \/ Simple!LinkUp(i) \/ Simple!LinkJob(i) \/ Simple!LinkDown(i) \/ Simple!Reload(i) \/ Simple!PendingUp(i)
    PROVE  SimpleInv' /\ Simple!HandedOnFresh
<1>1. i \in upstreams /\ up[i] \in Mappers /\ shares' \subseteq shares
  BY SimpleFacts DEF Simple!LinkUp, Simple!LinkJob, Simple!LinkDown, Simple!Reload, Simple!PendingUp
<1> DEFINE x1 == [up[i] EXCEPT !.link = "up", !.active = TRUE]
           x2 == [up[i] EXCEPT !.link = "trying", !.active = FALSE]
           x3 == [up[i] EXCEPT !.pending = TRUE]
           x4 == [up[i] EXCEPT !.link = "up", !.active = TRUE, !.pending = FALSE]
<1>2. x1 \in Mappers /\ x1.miner = up[i].miner /\ x1.idle = up[i].idle
  BY <1>1 DEF Mappers
<1>3. x2 \in Mappers /\ x2.miner = up[i].miner /\ x2.idle = up[i].idle
  BY <1>1 DEF Mappers
<1>4. x3 \in Mappers /\ x3.miner = up[i].miner /\ x3.idle = up[i].idle
  BY <1>1 DEF Mappers
<1>5. x4 \in Mappers /\ x4.miner = up[i].miner /\ x4.idle = up[i].idle
  BY <1>1 DEF Mappers
<1>6. \/ Simple!Link(i, Simple!SetJob(x1)) \/ Simple!Link(i, Simple!SetJob(up[i])) \/ Simple!Link(i, x2)
      \/ Simple!Link(i, x3) \/ Simple!Link(i, Simple!SetJob(x4))
  BY DEF Simple!LinkUp, Simple!LinkJob, Simple!LinkDown, Simple!Reload, Simple!PendingUp
<1> HIDE DEF x1, x2, x3, x4
<1>7. \E x \in Mappers : x.miner = up[i].miner /\ x.idle = up[i].idle /\ Simple!Link(i, x)
  BY <1>1, <1>2, <1>3, <1>4, <1>5, <1>6, SimpleSettles
<1> QED
  BY <1>1, <1>7, SimpleLink

LEMMA SimpleTick ==
    ASSUME SimpleAllowed, SimpleInv, Simple!Tick
    PROVE  SimpleInv' /\ Simple!HandedOnFresh
<1> DEFINE gone == Simple!Expired
<1>1. /\ released' = gone /\ upstreams' = upstreams \ gone /\ idles' = idles \ gone
      /\ shares' = {s \in shares : s[2] \notin gone} /\ UNCHANGED <<timeout, at, answered>>
      /\ up' = [i \in Simple!Ids |->
                  CASE i \in gone -> Simple!Stop(up[i])
                    [] i \in upstreams \ gone /\ up[i].miner = Simple!Nobody /\ up[i].idle < Simple!MaxIdle ->
                           [up[i] EXCEPT !.idle = @ + 1]
                    [] OTHER -> up[i]]
  BY DEF Simple!Tick
<1>2. gone \subseteq upstreams /\ \A i \in gone : up[i].idle > timeout
  BY DEF Simple!Expired
<1> HIDE DEF gone
<1>3. \A i \in Simple!Ids : /\ up'[i] \in Mappers /\ up'[i].miner = up[i].miner
                            /\ i \notin upstreams => up'[i] = up[i]
                            /\ i \in gone \/ up[i].miner # Simple!Nobody => up'[i].idle = up[i].idle
  <2> SUFFICES ASSUME NEW i \in Simple!Ids
               PROVE  /\ up'[i] \in Mappers /\ up'[i].miner = up[i].miner
                      /\ i \notin upstreams => up'[i] = up[i]
                      /\ i \in gone \/ up[i].miner # Simple!Nobody => up'[i].idle = up[i].idle
    OBVIOUS
  <2>1. up[i] \in Mappers
    BY SimpleFacts
  <2>2. CASE i \in gone
    <3>1. up'[i] = Simple!Stop(up[i])
      BY <1>1, <2>2
    <3> QED
      BY <1>2, <2>1, <2>2, <3>1, SimpleSettles
  <2>3. CASE i \in upstreams \ gone /\ up[i].miner = Simple!Nobody /\ up[i].idle < Simple!MaxIdle
    <3>1. up'[i] = [up[i] EXCEPT !.idle = @ + 1]
      BY <1>1, <2>3
    <3>2. Simple!MaxIdle \in Nat
      BY SimpleFacts
    <3>3. up'[i] \in Mappers /\ up'[i].miner = up[i].miner
      BY <2>1, <2>3, <3>1, <3>2 DEF Mappers
    <3> QED
      BY <2>3, <3>3
  <2>4. CASE /\ i \notin gone
             /\ ~(i \in upstreams \ gone /\ up[i].miner = Simple!Nobody /\ up[i].idle < Simple!MaxIdle)
    <3>1. up'[i] = up[i]
      BY <1>1, <2>4
    <3> QED
      BY <2>1, <2>4, <3>1
  <2> QED
    BY <2>2, <2>3, <2>4
<1>4. up' \in [Simple!Ids -> Mappers]
  <2>1. up' = [i \in Simple!Ids |-> up'[i]]
    BY <1>1
  <2>2. \A i \in Simple!Ids : up'[i] \in Mappers
    BY <1>3
  <2> QED
    BY <2>1, <2>2
<1>a. \A i \in Simple!Ids : up'[i].miner = up[i].miner
  BY <1>3
<1>b. \A i \in Simple!Ids : i \in gone \/ up[i].miner # Simple!Nobody => up'[i].idle = up[i].idle
  BY <1>3
<1>5. \A i \in gone : up'[i] # Simple!NewMapper
  <2> SUFFICES ASSUME NEW i \in gone PROVE up'[i].idle # 0
    BY DEF Simple!NewMapper
  <2>1. i \in Simple!Ids /\ up[i].idle > timeout /\ up'[i].idle = up[i].idle
    BY <1>2, <1>b, SimpleFacts
  <2> QED
    BY <2>1, SimpleFacts
<1>6. Numbered'
  <2>1. \A j : j \in Simple!Created' <=> j \in Simple!Created
    <3> SUFFICES ASSUME NEW j PROVE j \in Simple!Created' <=> j \in Simple!Created
      OBVIOUS
    <3>1. CASE j \in upstreams
      BY <1>1, <3>1 DEF Simple!Created
    <3>2. CASE j \notin upstreams
      BY <1>1, <1>2, <1>3, <3>2, SimpleFacts DEF SimpleInv, Numbered, Simple!Created, Simple!NewMapper, Simple!Nobody,
         Simple!Ids
    <3> QED
      BY <3>1, <3>2
  <2>2. Simple!Created' = Simple!Created
    BY <2>1
  <2> QED
    BY <1>1, <1>5, <2>2 DEF SimpleInv, Numbered, Simple!NewMapper, Simple!Nobody
<1>7. Simple!TypeOK'
  <2>1. shares' \subseteq Miners \X Simple!Ids /\ answered' \subseteq Miners \X (Miners \union {Simple!Nobody})
    BY <1>1 DEF SimpleInv, Simple!TypeOK
  <2>2. timeout' \in Timeouts /\ at' \in [Miners -> {-1, 0} \union Simple!Ids]
    BY <1>1 DEF SimpleInv, Simple!TypeOK
  <2>3. released' \subseteq Simple!Ids /\ upstreams' \subseteq Simple!Ids \ released' /\ idles' \subseteq Simple!Ids
    BY <1>1, <1>2, SimpleFacts
  <2> QED
    BY <1>4, <2>1, <2>2, <2>3 DEF Simple!TypeOK, Mappers, Simple!Ids, Simple!MaxIdle, Simple!Nobody
<1>8. \A i \in gone : up[i].miner = Simple!Nobody
  BY <1>2, SimpleFacts DEF SimpleInv, Ageless
<1>9. Simple!OwnUpstream'
  BY <1>1, <1>3, <1>8, SimpleFacts DEF SimpleInv, Simple!OwnUpstream, Simple!Nobody
<1>10. Simple!IdlesExact'
  BY <1>1, <1>3, SimpleFacts DEF SimpleInv, Simple!IdlesExact, Simple!Nobody
<1>11. Ageless'
  BY <1>a, <1>b DEF SimpleInv, Ageless, Simple!Ids, Simple!Nobody
<1>12. Simple!HandedOnFresh
  BY <1>1, <1>a, SimpleFacts DEF Simple!HandedOnFresh
<1> QED
  BY <1>6, <1>7, <1>9, <1>10, <1>11, <1>12 DEF SimpleInv

LEMMA SimpleOthers ==
    ASSUME SimpleAllowed, SimpleInv, UNCHANGED <<up, upstreams, idles, released, at>>,
           timeout' \in Timeouts, shares' \subseteq Miners \X Simple!Ids,
           answered' \subseteq Miners \X (Miners \union {Simple!Nobody})
    PROVE  SimpleInv' /\ Simple!HandedOnFresh
BY DEF SimpleInv, Simple!TypeOK, Simple!OwnUpstream, Simple!IdlesExact, Numbered, Ageless, Simple!Created,
   Simple!NewMapper, Simple!Nobody, Simple!Ids, Simple!MaxIdle, Simple!HandedOnFresh

LEMMA SimpleNext ==
    ASSUME SimpleAllowed, SimpleInv, [Simple!Next]_(Simple!vars)
    PROVE  SimpleInv' /\ Simple!HandedOnFresh
<1>1. /\ timeout \in Timeouts /\ shares \subseteq Miners \X Simple!Ids
      /\ answered \subseteq Miners \X (Miners \union {Simple!Nobody})
      /\ at \in [Miners -> {-1, 0} \union Simple!Ids]
  BY DEF SimpleInv, Simple!TypeOK
<1>2. ASSUME NEW m \in Miners, Simple!OnEvent(m) PROVE SimpleInv' /\ Simple!HandedOnFresh
  <2>1. CASE Simple!Submit(m)
    <3>1. at[m] > 0 /\ UNCHANGED <<up, upstreams, idles, released, timeout, at, answered>>
          /\ shares' = shares \union {<<m, at[m]>>}
      BY <1>1, <2>1 DEF Simple!Submit, Simple!Upstream
    <3>2. <<m, at[m]>> \in Miners \X Simple!Ids
      BY <1>1, <3>1
    <3> QED
      BY <1>1, <3>1, <3>2, SimpleOthers
  <2> QED
    BY <1>2, <2>1, SimpleLogin, SimpleClose DEF Simple!OnEvent
<1>3. ASSUME NEW i \in Simple!Ids,
             \/ Simple!LinkUp(i) \/ Simple!LinkJob(i) \/ Simple!LinkDown(i) \/ Simple!Reload(i)
             \/ Simple!PendingUp(i)
      PROVE  SimpleInv' /\ Simple!HandedOnFresh
  BY <1>3, SimpleLinks
<1>4. CASE Simple!Answer
  <2>1. PICK s \in shares : /\ shares' = shares \ {s}
                           /\ answered' = answered \union {<<s[1], up[s[2]].miner>>}
                           /\ UNCHANGED <<up, upstreams, idles, released, timeout, at>>
    BY <1>4 DEF Simple!Answer
  <2>2. s[1] \in Miners /\ up[s[2]].miner \in Miners \union {Simple!Nobody}
    <3>1. s[1] \in Miners /\ s[2] \in Simple!Ids
      BY <1>1
    <3>2. up[s[2]] \in Mappers
      BY <3>1, SimpleFacts
    <3> QED
      BY <3>1, <3>2 DEF Mappers
  <2>3. <<s[1], up[s[2]].miner>> \in Miners \X (Miners \union {Simple!Nobody})
    BY <2>2
  <2>4. answered' \subseteq Miners \X (Miners \union {Simple!Nobody})
    BY <1>1, <2>1, <2>3
  <2> QED
    BY <1>1, <2>1, <2>4, SimpleOthers
<1>5. CASE Simple!Configure
  BY <1>1, <1>5, SimpleOthers DEF Simple!Configure
<1>6. CASE UNCHANGED Simple!vars
  BY <1>1, <1>6, SimpleOthers DEF Simple!vars
<1> QED
  BY <1>2, <1>3, <1>4, <1>5, <1>6, SimpleTick DEF Simple!Next

(* A miner has an upstream to itself as long as it is there, and the idle  *)
(* ones are exactly those without a miner, for any number of both.         *)
THEOREM SimpleSound ==
    ASSUME SimpleAllowed
    PROVE  Simple!Spec => [](Simple!TypeOK /\ Simple!OwnUpstream /\ Simple!IdlesExact)
<1>1. Simple!Init => SimpleInv
  BY SimpleInit
<1>2. SimpleInv /\ [Simple!Next]_(Simple!vars) => SimpleInv'
  BY SimpleNext
<1>3. SimpleInv => Simple!TypeOK /\ Simple!OwnUpstream /\ Simple!IdlesExact
  BY DEF SimpleInv
<1> QED
  BY <1>1, <1>2, <1>3, PTL DEF Simple!Spec

CONSTANTS NewJobs, Level, Period, MaxTicks, DonateFails, Sleeps, Reloads
VARIABLE u
Fee == INSTANCE Donation WITH Jobs <- NewJobs

---------------------------------------------------------------------------
(* The donation that takes an upstream over (Donation).  Which pool the    *)
(* miners have the job of does not hang on whether the upstream is active. *)
MaxUntil == (Period * MaxTicks) \div Level

Upstreams ==
    [active : BOOLEAN, owner : {"main", "donate"}, job : Fee!JobIds \union {Fee!None},
     main : {"off", "trying", "up"}, newest : Fee!JobIds \union {Fee!None}, donating : BOOLEAN,
     conn : {"off", "trying", "up", "closing"}, ticks : 0 .. MaxTicks, until : -1 .. MaxUntil,
     saved : Fee!JobIds \union {Fee!None}, asleep : BOOLEAN, pending : {"none", "trying", "stuck"}]

Owns(x) == /\ x.donating => x.owner = "donate"
           /\ x.active /\ ~x.donating => x.owner = "main"

(* A donation that nothing breaks off: what is kept aside is the newest    *)
(* job, and nothing is before the donation pool has sent its own.          *)
KeptAside(x) == ~DonateFails /\ ~Sleeps =>
               /\ x.donating <=> x.conn = "up"
               /\ x.conn = "trying" => x.saved = Fee!None
               /\ x.donating /\ x.saved # Fee!None /\ x.main = "up" => x.saved = x.newest

FeeInv == u \in Upstreams /\ Owns(u) /\ KeptAside(u)

LEMMA Quotient ==
    ASSUME NEW a \in Nat, NEW b \in Nat, NEW d \in Nat \ {0}
    PROVE  /\ a \div d \in Nat
           /\ a <= b => a \div d <= b \div d
           /\ (a * d) \div d = a
OBVIOUS

LEMMA FeeBounds ==
    ASSUME Fee!TickAssumption
    PROVE  /\ NewJobs \in Nat \ {0} /\ Level \in Nat \ {0} /\ Period \in Nat \ {0} /\ MaxTicks \in Nat \ {0}
           /\ MaxUntil \in Nat /\ Period <= MaxUntil
           /\ \A t \in 0 .. MaxTicks : (Period * t) \div Level \in 0 .. MaxUntil
<1>1. /\ NewJobs \in Nat \ {0} /\ Level \in Nat \ {0} /\ Period \in Nat \ {0} /\ MaxTicks \in Nat \ {0}
      /\ Level <= MaxTicks
  BY DEF Fee!TickAssumption
<1>2. Period * MaxTicks \in Nat /\ Period * Level <= Period * MaxTicks /\ Period * Level \in Nat
  BY <1>1
<1>3. MaxUntil \in Nat /\ Period <= MaxUntil
  BY <1>1, <1>2, Quotient DEF MaxUntil
<1>4. ASSUME NEW t \in 0 .. MaxTicks PROVE (Period * t) \div Level \in 0 .. MaxUntil
  <2>1. Period * t \in Nat /\ Period * t <= Period * MaxTicks
    BY <1>1
  <2> QED
    BY <1>1, <1>2, <2>1, Quotient DEF MaxUntil
<1> QED
  BY <1>1, <1>3, <1>4

LEMMA FeeInit ==
    ASSUME Fee!TickAssumption, Fee!Init
    PROVE  FeeInv
<1>1. Period \in -1 .. MaxUntil /\ 0 \in 0 .. MaxTicks
  BY FeeBounds
<1>2. u \in Upstreams
  BY <1>1 DEF Fee!Init, Upstreams
<1> QED
  BY <1>2 DEF Fee!Init, FeeInv, Owns, KeptAside

(* What the methods leave of an upstream.                                  *)
LEMMA FeeReschedule ==
    ASSUME Fee!TickAssumption, NEW x \in Upstreams, NEW y, y = Fee!Reschedule(x)
    PROVE  /\ y \in Upstreams /\ ~y.donating /\ y.active = x.active /\ y.main = x.main /\ y.newest = x.newest
           /\ y.saved = x.saved
           /\ y.conn = IF x.conn = "up" THEN "closing" ELSE "off"
<1> DEFINE v == (Period * x.ticks) \div Level
<1>1. v \in -1 .. MaxUntil /\ 0 \in 0 .. MaxTicks
  <2>1. x.ticks \in 0 .. MaxTicks
    BY DEF Upstreams
  <2> QED
    BY <2>1, FeeBounds
<1> DEFINE w == [x EXCEPT !.until = v, !.donating = FALSE]
<1>2. w \in Upstreams
  <2> HIDE DEF v
  <2> QED
    BY <1>1 DEF Upstreams
<1>3. /\ ~w.donating /\ w.active = x.active /\ w.main = x.main /\ w.newest = x.newest /\ w.saved = x.saved
      /\ w.conn = x.conn
  BY DEF Upstreams
<1>4. y = [w EXCEPT !.ticks = 0, !.conn = IF @ = "up" THEN "closing" ELSE "off"]
  BY DEF Fee!Reschedule, Fee!Stop
<1> HIDE DEF w
<1>5. y \in Upstreams
  BY <1>1, <1>2, <1>4, ZenonT(60) DEF Upstreams
<1>6. /\ y.donating = w.donating /\ y.active = w.active /\ y.main = w.main /\ y.newest = w.newest
      /\ y.saved = w.saved
  BY <1>2, <1>4 DEF Upstreams
<1>7. y.conn = IF w.conn = "up" THEN "closing" ELSE "off"
  BY <1>2, <1>4 DEF Upstreams
<1> QED
  BY <1>3, <1>5, <1>6, <1>7

LEMMA FeeSetJob ==
    ASSUME NEW x \in Upstreams, NEW o \in {"main", "donate"}, NEW j \in Fee!JobIds \union {Fee!None},
           NEW y, y = Fee!SetJob(x, o, j)
    PROVE  /\ y \in Upstreams /\ y.owner = o /\ y.job = j /\ y.donating = x.donating /\ y.active = x.active
           /\ y.main = x.main /\ y.newest = x.newest /\ y.saved = x.saved /\ y.conn = x.conn
BY DEF Fee!SetJob, Upstreams

(* onJob() of the user's pool keeps the job aside or hands it on; either   *)
(* way the listener learns what the rest of the upstream already knows.    *)
LEMMA FeeFresh ==
    ASSUME Fee!TickAssumption, NEW x \in Upstreams, u \in Upstreams, Owns(x) \/ Owns([x EXCEPT !.active = FALSE]),
           NEW y, y = Fee!Fresh(x)
    PROVE  /\ y \in Upstreams /\ Owns(y) /\ y.active = x.active /\ y.main = x.main
           /\ \/ /\ x.donating /\ y.donating /\ y.saved = y.newest /\ y.conn = x.conn
              \/ /\ x.donating /\ ~y.donating /\ y.owner = "main" /\ y.job = y.newest
                 /\ y.conn = IF x.conn = "up" THEN "closing" ELSE "off"
              \/ ~x.donating /\ ~y.donating /\ y.saved = x.saved /\ y.conn = x.conn
<1> DEFINE n == Fee!NextJob
           z == [x EXCEPT !.newest = n]
<1>1. n \in Fee!JobIds
  <2>1. u.newest \in -1 .. NewJobs - 1 /\ NewJobs \in Nat \ {0}
    BY FeeBounds DEF Upstreams, Fee!JobIds, Fee!None
  <2> QED
    BY <2>1 DEF Fee!NextJob, Fee!JobIds
<1>2. y = Fee!OnMainJob(z, n)
  BY DEF Fee!Fresh
<1> HIDE DEF n
<1>3. z \in Upstreams
  BY <1>1 DEF Upstreams
<1>4. /\ z.newest = n /\ z.donating = x.donating /\ z.active = x.active /\ z.main = x.main /\ z.saved = x.saved
      /\ z.conn = x.conn /\ z.owner = x.owner
  BY DEF Upstreams
<1>5. x.donating => x.owner = "donate"
  BY DEF Owns, Upstreams
<1> HIDE DEF z
<1>6. CASE z.donating /\ ~Fee!Enough(z)
  <2>1. y = [z EXCEPT !.saved = n]
    BY <1>2, <1>6 DEF Fee!OnMainJob
  <2>2. y \in Upstreams
    BY <1>1, <1>3, <2>1 DEF Upstreams
  <2>3. /\ y.donating = z.donating /\ y.active = z.active /\ y.main = z.main /\ y.newest = z.newest
        /\ y.owner = z.owner /\ y.conn = z.conn /\ y.saved = n
    BY <1>3, <2>1 DEF Upstreams
  <2>4. Owns(y)
    BY <1>4, <1>5, <1>6, <2>3 DEF Owns
  <2> QED
    BY <1>4, <1>6, <2>2, <2>3, <2>4
<1>7. CASE z.donating /\ Fee!Enough(z)
  <2>1. y = Fee!SetJob(Fee!Reschedule(z), "main", n)
    BY <1>2, <1>7 DEF Fee!OnMainJob
  <2>2. /\ Fee!Reschedule(z) \in Upstreams /\ ~Fee!Reschedule(z).donating
        /\ Fee!Reschedule(z).active = z.active /\ Fee!Reschedule(z).main = z.main
        /\ Fee!Reschedule(z).newest = z.newest
        /\ Fee!Reschedule(z).conn = IF z.conn = "up" THEN "closing" ELSE "off"
    BY <1>3, FeeReschedule
  <2>3. /\ y \in Upstreams /\ y.owner = "main" /\ y.job = n /\ ~y.donating /\ y.active = z.active
        /\ y.main = z.main /\ y.newest = z.newest /\ y.conn = IF z.conn = "up" THEN "closing" ELSE "off"
    BY <1>1, <2>1, <2>2, FeeSetJob
  <2> QED
    BY <1>4, <1>7, <2>3 DEF Owns
<1>8. CASE ~z.donating
  <2>1. y = Fee!SetJob(z, "main", n)
    BY <1>2, <1>8 DEF Fee!OnMainJob
  <2>2. /\ y \in Upstreams /\ y.owner = "main" /\ y.job = n /\ y.donating = z.donating /\ y.active = z.active
        /\ y.main = z.main /\ y.newest = z.newest /\ y.saved = z.saved /\ y.conn = z.conn
    BY <1>1, <1>3, <2>1, FeeSetJob
  <2> QED
    BY <1>4, <1>8, <2>2 DEF Owns
<1> QED
  BY <1>6, <1>7, <1>8

LEMMA FeeMain ==
    ASSUME Fee!TickAssumption, FeeInv, Fee!MainUp \/ Fee!MainJob \/ Fee!PendingUp
    PROVE  FeeInv' /\ Fee!NewestAfter
<1> DEFINE x1 == [u EXCEPT !.main = "up", !.active = TRUE]
           x2 == [u EXCEPT !.pending = "none", !.main = "up", !.active = TRUE]
<1>1. u \in Upstreams /\ Owns(u)
  BY DEF FeeInv
<1>2. PICK x \in {x1, u, x2} : u' = Fee!Fresh(x)
  BY DEF Fee!MainUp, Fee!MainJob, Fee!PendingUp
<1>3. x1 \in Upstreams /\ x2 \in Upstreams
  BY <1>1, ZenonT(60) DEF Upstreams
<1>4. \A y \in {x1, u, x2} : /\ y.donating = u.donating /\ y.owner = u.owner /\ y.conn = u.conn
                            /\ y.saved = u.saved /\ [y EXCEPT !.active = FALSE].owner = u.owner
                            /\ [y EXCEPT !.active = FALSE].donating = u.donating
                            /\ [y EXCEPT !.active = FALSE].active = FALSE
  BY <1>1 DEF Upstreams
<1> HIDE DEF x1, x2
<1>5. x \in Upstreams /\ Owns([x EXCEPT !.active = FALSE])
  BY <1>1, <1>2, <1>3, <1>4 DEF Owns
<1>6. /\ u' \in Upstreams /\ Owns(u')
      /\ \/ /\ x.donating /\ u'.donating /\ u'.saved = u'.newest /\ u'.conn = x.conn
         \/ /\ x.donating /\ ~u'.donating /\ u'.owner = "main" /\ u'.job = u'.newest
            /\ u'.conn = IF x.conn = "up" THEN "closing" ELSE "off"
         \/ ~x.donating /\ ~u'.donating /\ u'.saved = x.saved /\ u'.conn = x.conn
  BY <1>1, <1>2, <1>5, FeeFresh
<1>7. x.donating = u.donating /\ x.conn = u.conn /\ x.saved = u.saved
  BY <1>2, <1>4
<1>8. KeptAside(u')
  BY <1>6, <1>7 DEF FeeInv, KeptAside, Fee!None
<1> QED
  BY <1>6, <1>7, <1>8 DEF FeeInv, Fee!NewestAfter

(* The user's pools are lost, replaced or not, and sleep.                  *)
LEMMA FeeSleep ==
    ASSUME Fee!TickAssumption, FeeInv,
           Fee!MainDown \/ Fee!Reload \/ Fee!PendingFails \/ Fee!Suspend \/ Fee!Resume
    PROVE  FeeInv' /\ (~Sleeps => Fee!NewestAfter)
<1>1. u \in Upstreams
  BY DEF FeeInv
<1>2. CASE Fee!MainDown
  <2>1. u' = [u EXCEPT !.main = "trying", !.active = FALSE]
    BY <1>1, <1>2 DEF Fee!MainDown, Fee!OnPause, Upstreams
  <2>2. u' \in Upstreams /\ ~u'.active /\ u'.main = "trying" /\ u'.donating = u.donating /\ u'.owner = u.owner
        /\ u'.conn = u.conn /\ u'.saved = u.saved
    BY <1>1, <2>1 DEF Upstreams
  <2> QED
    BY <2>2 DEF FeeInv, Owns, KeptAside, Fee!NewestAfter
<1>3. CASE Fee!Reload \/ Fee!PendingFails
  <2>1. PICK p \in {"trying", "stuck"} : u' = [u EXCEPT !.pending = p]
    BY <1>3 DEF Fee!Reload, Fee!PendingFails
  <2>2. u' \in Upstreams
    BY <1>1, <2>1 DEF Upstreams
  <2>3. /\ u'.active = u.active /\ u'.main = u.main /\ u'.donating = u.donating /\ u'.owner = u.owner
        /\ u'.conn = u.conn /\ u'.saved = u.saved /\ u'.newest = u.newest
    BY <1>1, <2>1 DEF Upstreams
  <2> QED
    BY <2>2, <2>3 DEF FeeInv, Owns, KeptAside, Fee!NewestAfter
<1>4. CASE Fee!Resume
  <2>1. u' = [u EXCEPT !.asleep = FALSE, !.main = "trying"]
    BY <1>4 DEF Fee!Resume
  <2>2. u' \in Upstreams
    BY <1>1, <2>1 DEF Upstreams
  <2>3. /\ u'.active = u.active /\ u'.main = "trying" /\ u'.donating = u.donating /\ u'.owner = u.owner
        /\ u'.conn = u.conn /\ u'.saved = u.saved /\ u'.newest = u.newest
    BY <1>1, <2>1 DEF Upstreams
  <2> QED
    BY <2>2, <2>3 DEF FeeInv, Owns, KeptAside, Fee!NewestAfter
<1>5. CASE Fee!Suspend
  <2> DEFINE w == [u EXCEPT !.asleep = TRUE, !.active = FALSE, !.main = "off"]
             x == Fee!Stop(w)
  <2>1. w \in Upstreams
    BY <1>1 DEF Upstreams
  <2>2. ~w.active /\ w.donating = u.donating /\ w.owner = u.owner
    BY <1>1 DEF Upstreams
  <2> HIDE DEF w
  <2>3. x = [w EXCEPT !.ticks = 0, !.conn = IF @ = "up" THEN "closing" ELSE "off"]
    BY DEF Fee!Stop
  <2> HIDE DEF x
  <2>0. 0 \in 0 .. MaxTicks
    BY FeeBounds
  <2>4. x \in Upstreams
    BY <2>0, <2>1, <2>3, ZenonT(60) DEF Upstreams
  <2>5. x.active = w.active /\ x.donating = w.donating /\ x.owner = w.owner
    BY <2>1, <2>3 DEF Upstreams
  <2>6. Sleeps /\ (u' = x \/ u' = [x EXCEPT !.conn = "trying"])
    BY <1>5 DEF Fee!Suspend, x, w
  <2>7. u' \in Upstreams
    BY <2>4, <2>6 DEF Upstreams
  <2>8. u'.active = x.active /\ u'.donating = x.donating /\ u'.owner = x.owner
    BY <2>4, <2>6 DEF Upstreams
  <2>9. ~u'.active /\ u'.donating = u.donating /\ u'.owner = u.owner
    BY <2>2, <2>5, <2>8
  <2> QED
    BY <2>6, <2>7, <2>9 DEF FeeInv, Owns, KeptAside
<1> QED
  BY <1>2, <1>3, <1>4, <1>5

(* The donation pool.                                                      *)
LEMMA FeeDonate ==
    ASSUME Fee!TickAssumption, FeeInv, Fee!DonateJob
    PROVE  FeeInv' /\ Fee!NewestAfter
<1>1. u \in Upstreams
  BY DEF FeeInv
<1> DEFINE a == u.active \/ ~u.donating
           w == [u EXCEPT !.conn = "up", !.donating = TRUE, !.active = a]
<1>2. a \in BOOLEAN
  BY <1>1 DEF Upstreams
<1>3. u' = Fee!SetJob(w, "donate", Fee!None) /\ u.conn \in {"trying", "up"}
  BY DEF Fee!DonateJob
<1> HIDE DEF a
<1>4. w \in Upstreams
  BY <1>1, <1>2 DEF Upstreams
<1>5. w.donating /\ w.conn = "up" /\ w.saved = u.saved /\ w.main = u.main /\ w.newest = u.newest
  BY <1>1 DEF Upstreams
<1> HIDE DEF w
<1>6. /\ u' \in Upstreams /\ u'.owner = "donate" /\ u'.donating = w.donating /\ u'.saved = w.saved
      /\ u'.conn = w.conn /\ u'.main = w.main /\ u'.newest = w.newest
  BY <1>3, <1>4, FeeSetJob
<1>7. Owns(u')
  BY <1>5, <1>6 DEF Owns
<1>8. KeptAside(u')
  BY <1>3, <1>5, <1>6 DEF FeeInv, KeptAside
<1> QED
  BY <1>5, <1>6, <1>7, <1>8 DEF FeeInv, Fee!NewestAfter

LEMMA FeeLost ==
    ASSUME Fee!TickAssumption, FeeInv, Fee!DonateLost \/ Fee!DonateClosed
    PROVE  FeeInv' /\ Fee!NewestAfter
<1>1. u \in Upstreams
  BY DEF FeeInv
<1>2. PICK q \in {"trying", "off"} :
         /\ u' = Fee!OnClose([u EXCEPT !.conn = q])
         /\ q = "trying" => DonateFails
         /\ q = "off" => u.conn = "closing"
  BY DEF Fee!DonateLost, Fee!DonateClosed
<1> DEFINE w == [u EXCEPT !.conn = q]
<1>3. w \in Upstreams
  BY <1>1, <1>2 DEF Upstreams
<1>4. /\ w.conn = q /\ w.donating = u.donating /\ w.owner = u.owner /\ w.active = u.active /\ w.saved = u.saved
      /\ w.main = u.main /\ w.newest = u.newest
  BY <1>1, <1>2 DEF Upstreams
<1>5. u' = IF w.donating THEN [w EXCEPT !.donating = FALSE, !.active = FALSE] ELSE w
  BY <1>2, <1>3 DEF Fee!OnClose, Fee!OnPause, Upstreams
<1> HIDE DEF w
<1>6. u' \in Upstreams
  BY <1>3, <1>5 DEF Upstreams
<1>7. /\ ~u'.donating /\ (u'.active => ~w.donating) /\ u'.owner = w.owner
      /\ (~w.donating => u'.active = w.active)
      /\ u'.conn = w.conn /\ u'.saved = w.saved
  BY <1>3, <1>5 DEF Upstreams
<1>8. Owns(u')
  BY <1>4, <1>7 DEF FeeInv, Owns
<1>9. KeptAside(u')
  BY <1>2, <1>4, <1>7 DEF KeptAside
<1> QED
  BY <1>4, <1>6, <1>7, <1>8, <1>9 DEF FeeInv, Fee!NewestAfter

LEMMA FeeTick ==
    ASSUME Fee!TickAssumption, FeeInv, Fee!Tick
    PROVE  FeeInv' /\ (~DonateFails /\ ~Sleeps => Fee!NewestAfter)
<1>1. u \in Upstreams /\ u.conn # "closing"
  BY DEF FeeInv, Fee!Tick
<1> DEFINE x == Fee!DonateTick(u)
           n == IF u.until > -1 THEN u.until - 1 ELSE u.until
           v == IF u.until = 1 THEN Fee!None ELSE u.saved
           q == IF u.until = 1 /\ u.conn = "off" THEN "trying" ELSE u.conn
           t == IF u.donating /\ u.ticks < MaxTicks THEN u.ticks + 1 ELSE u.ticks
<1>2. n \in -1 .. MaxUntil /\ t \in 0 .. MaxTicks
  BY <1>1, FeeBounds DEF Upstreams
<1>3. v \in Fee!JobIds \union {Fee!None} /\ q \in {"off", "trying", "up"}
  BY <1>1 DEF Upstreams
<1>4. x = [u EXCEPT !.until = n, !.saved = v, !.conn = q, !.ticks = t]
  BY DEF Fee!DonateTick
<1>5. /\ v = Fee!None \/ v = u.saved
      /\ q = "trying" => v = Fee!None \/ u.conn = "trying"
      /\ q = "up" <=> u.conn = "up"
  OBVIOUS
<1>6. u' = IF x.donating /\ x.saved # Fee!None /\ Fee!Enough(x)
           THEN Fee!SetJob(Fee!Reschedule(x), "main", x.saved) ELSE x
  BY DEF Fee!Tick
<1> HIDE DEF n, v, q, t, x
<1>7. x \in Upstreams
  BY <1>1, <1>2, <1>3, <1>4 DEF Upstreams
<1>8. /\ x.active = u.active /\ x.donating = u.donating /\ x.owner = u.owner /\ x.main = u.main
      /\ x.newest = u.newest /\ x.saved = v /\ x.conn = q
  BY <1>1, <1>4 DEF Upstreams
<1>9. Owns(x)
  BY <1>8 DEF FeeInv, Owns
<1>10. KeptAside(x)
  BY <1>5, <1>8 DEF FeeInv, KeptAside
<1>11. CASE u' = x
  BY <1>7, <1>8, <1>9, <1>10, <1>11 DEF FeeInv, Fee!NewestAfter
<1>12. CASE x.donating /\ x.saved # Fee!None /\ u' = Fee!SetJob(Fee!Reschedule(x), "main", x.saved)
  <2>1. x.saved \in Fee!JobIds \union {Fee!None}
    BY <1>7 DEF Upstreams
  <2>2. /\ Fee!Reschedule(x) \in Upstreams /\ ~Fee!Reschedule(x).donating
        /\ Fee!Reschedule(x).active = x.active /\ Fee!Reschedule(x).main = x.main
        /\ Fee!Reschedule(x).newest = x.newest
        /\ Fee!Reschedule(x).conn = IF x.conn = "up" THEN "closing" ELSE "off"
    BY <1>7, FeeReschedule
  <2>3. /\ u' \in Upstreams /\ u'.owner = "main" /\ u'.job = x.saved /\ ~u'.donating /\ u'.main = x.main
        /\ u'.newest = x.newest /\ u'.conn = IF x.conn = "up" THEN "closing" ELSE "off"
    BY <1>12, <2>1, <2>2, FeeSetJob
  <2>4. Owns(u') /\ KeptAside(u')
    BY <2>3 DEF Owns, KeptAside
  <2>5. ~DonateFails /\ ~Sleeps => Fee!NewestAfter
    BY <1>10, <1>12, <2>3 DEF KeptAside, Fee!NewestAfter
  <2> QED
    BY <2>3, <2>4, <2>5 DEF FeeInv
<1> QED
  BY <1>6, <1>11, <1>12

LEMMA FeeNext ==
    ASSUME Fee!TickAssumption, FeeInv, [Fee!Next]_u
    PROVE  FeeInv' /\ (~DonateFails /\ ~Sleeps => Fee!NewestAfter)
<1>1. CASE UNCHANGED u
  BY <1>1 DEF FeeInv, Owns, KeptAside, Fee!NewestAfter
<1>2. CASE Fee!Next
  BY <1>2, FeeMain, FeeSleep, FeeDonate, FeeLost, FeeTick DEF Fee!Next
<1> QED
  BY <1>1, <1>2

LEMMA FeeTyped ==
    ASSUME FeeInv
    PROVE  Fee!TypeOK /\ Fee!ShareToOwner
<1>1. Fee!TypeOK
  BY DEF FeeInv, Upstreams, Fee!TypeOK, MaxUntil
<1> QED
  BY <1>1 DEF FeeInv, Owns, Fee!ShareToOwner, Fee!Target

(* A share that is taken goes to the pool whose job the miners have, for   *)
(* every length and period of donations; and a donation that nothing       *)
(* breaks off ends with the newest job of the user's pool.                 *)
THEOREM DonationSound ==
    ASSUME Fee!TickAssumption
    PROVE  /\ Fee!Spec => [](Fee!TypeOK /\ Fee!ShareToOwner)
           /\ ~DonateFails /\ ~Sleeps => (Fee!Spec => [][Fee!NewestAfter]_u)
<1>1. Fee!Init => FeeInv
  BY FeeInit
<1>2. FeeInv /\ [Fee!Next]_u => FeeInv'
  BY FeeNext
<1>3. FeeInv => Fee!TypeOK /\ Fee!ShareToOwner
  BY FeeTyped
<1>4. Fee!Spec => [](Fee!TypeOK /\ Fee!ShareToOwner)
  BY <1>1, <1>2, <1>3, PTL DEF Fee!Spec
<1>5. ASSUME ~DonateFails, ~Sleeps PROVE Fee!Spec => [][Fee!NewestAfter]_u
  <2>1. FeeInv /\ [Fee!Next]_u => [Fee!NewestAfter]_u
    BY <1>5, FeeNext
  <2> QED
    BY <1>1, <1>2, <2>1, PTL DEF Fee!Spec
<1> QED
  BY <1>4, <1>5

CONSTANTS Guests, Requests
VARIABLES running, over, miner, owner, mapperId, mappers, seq, of, usable, client, heard, pending, sent, replies
Route == INSTANCE DonateRoute WITH Miners <- Guests, up <- running, active <- usable

---------------------------------------------------------------------------
(* Donation over the proxy (DonateRoute).  The mapper with an id and the   *)
(* miner that holds it point at each other from the login on, also when    *)
(* neither is there any more.                                              *)
Paired ==
    /\ \A i \in 0 .. seq - 1 : mapperId[of[i]] = i /\ miner[of[i]] # "login"
    /\ \A m \in Guests : mapperId[m] # -1 => mapperId[m] \in 0 .. seq - 1 /\ of[mapperId[m]] = m
    /\ \A m \in Guests : miner[m] = "login" => mapperId[m] = -1
    /\ mappers \subseteq 0 .. seq - 1 /\ heard = mappers

Served1 == running => /\ \A i \in mappers : miner[of[i]] # "gone"
                      /\ \A m \in Guests : /\ owner[m] \in {{}, {"main"}, {"donate"}}
                                           /\ owner[m] = {"donate"} <=> mapperId[m] \in mappers

Outstanding ==
    /\ \A i \in Route!Ids : pending[i] # {} => i \in mappers
    /\ \A i \in Route!Ids : \A r \in pending[i] : r \in sent[of[i]] /\ replies[of[i]][r] = 0
    /\ Route!AnsweredOnce

RouteInv == Route!TypeOK /\ Paired /\ Served1 /\ Outstanding

LEMMA RouteFinite == \A T : Route!IsFiniteSet(T) <=> IsFiniteSet(T)
BY DEF Route!IsFiniteSet, IsFiniteSet

LEMMA RouteCardinality == \A T : Route!Cardinality(T) = Cardinality(T)
BY RouteFinite DEF Route!Cardinality, Cardinality

LEMMA RouteSize ==
    ASSUME Route!RouteAssumption
    PROVE  /\ IsFiniteSet(Guests) /\ Cardinality(Guests) \in Nat \ {0} /\ Guests # {}
           /\ Route!Ids = 0 .. Cardinality(Guests) - 1 /\ Route!Cardinality(Guests) = Cardinality(Guests)
<1>1. IsFiniteSet(Guests) /\ Guests # {}
  BY RouteFinite DEF Route!RouteAssumption
<1> QED
  BY <1>1, FS_CardinalityType, FS_EmptySet, RouteCardinality DEF Route!Ids

(* Who may still log in has no id, so there is one left for it.            *)
LEMMA RouteRoom ==
    ASSUME Route!RouteAssumption, RouteInv, NEW m \in Guests, miner[m] = "login"
    PROVE  seq \in Route!Ids /\ seq + 1 \in 0 .. Cardinality(Guests)
<1>1. seq \in 0 .. Cardinality(Guests) /\ Cardinality(Guests) \in Nat \ {0} /\ IsFiniteSet(Guests)
  BY RouteSize DEF RouteInv, Route!TypeOK
<1> DEFINE f == [i \in 0 .. seq - 1 |-> of[i]]
<1>2. f \in Injection(0 .. seq - 1, Guests \ {m})
  <2>1. \A i \in 0 .. seq - 1 : of[i] \in Guests /\ of[i] # m /\ mapperId[of[i]] = i
    <3>1. \A i \in 0 .. seq - 1 : i \in Route!Ids
      BY <1>1, RouteSize
    <3> QED
      BY <3>1 DEF RouteInv, Route!TypeOK, Paired
  <2> QED
    BY <2>1, SMT DEF Injection, IsInjective
<1>3. IsFiniteSet(Guests \ {m}) /\ Cardinality(Guests \ {m}) = Cardinality(Guests) - 1
  BY <1>1, FS_RemoveElement
<1>4. Cardinality(0 .. seq - 1) <= Cardinality(Guests \ {m})
  <2> HIDE DEF f
  <2> QED
    BY <1>2, <1>3, FS_Injection
<1>5. Cardinality(0 .. seq - 1) = seq
  BY <1>1, FS_Interval
<1> QED
  BY <1>1, <1>3, <1>4, <1>5, RouteSize

LEMMA RouteInit ==
    ASSUME Route!RouteAssumption, Route!Init
    PROVE  RouteInv
<1>1. Route!TypeOK
  <2>1. (CHOOSE m \in Guests : TRUE) \in Guests
    BY RouteSize
  <2> QED
    BY <2>1, RouteSize DEF Route!Init, Route!TypeOK, Route!ClientStates
<1>2. Paired
  BY DEF Route!Init, Paired
<1>3. Served1
  BY DEF Route!Init, Served1
<1>4. Outstanding
  BY DEF Route!Init, Outstanding, Route!AnsweredOnce
<1> QED
  BY <1>1, <1>2, <1>3, <1>4 DEF RouteInv

MinerStates == {"login", "waiting", "ready", "closing", "gone"}

LEMMA RouteTypes ==
    ASSUME Route!RouteAssumption, RouteInv
    PROVE  /\ running \in BOOLEAN /\ over \in BOOLEAN /\ miner \in [Guests -> MinerStates]
           /\ client \in [Route!Ids -> Route!ClientStates] /\ pending \in [Route!Ids -> SUBSET Requests]
           /\ of \in [Route!Ids -> Guests] /\ mapperId \in [Guests -> Route!Ids \union {-1}]
           /\ owner \in [Guests -> SUBSET {"main", "donate"}] /\ seq \in 0 .. Cardinality(Guests)
           /\ usable \subseteq mappers /\ mappers \subseteq Route!Ids /\ heard \subseteq Route!Ids
           /\ sent \in [Guests -> SUBSET Requests] /\ replies \in [Guests -> [Requests -> Nat]]
BY RouteCardinality DEF RouteInv, Route!TypeOK, MinerStates

LEMMA RouteOlder ==
    ASSUME Route!RouteAssumption, RouteInv
    PROVE  \A i \in 0 .. seq - 1 : i \in Route!Ids /\ of[i] \in Guests
<1>1. seq \in 0 .. Cardinality(Guests) /\ Cardinality(Guests) \in Nat /\ of \in [Route!Ids -> Guests]
      /\ Route!Ids = 0 .. Cardinality(Guests) - 1
  BY RouteTypes, RouteSize
<1> QED
  BY <1>1

(* What happens to sockets gives up what was asked and no more, and brings *)
(* no miner back.                                                          *)
LEMMA RouteQuiet ==
    ASSUME Route!RouteAssumption, RouteInv,
           UNCHANGED <<running, owner, mapperId, mappers, seq, of, heard, sent, replies>>,
           over' \in BOOLEAN, client' \in [Route!Ids -> Route!ClientStates], usable' \subseteq usable,
           pending' \in [Route!Ids -> SUBSET Requests], \A i \in Route!Ids : pending'[i] \subseteq pending[i],
           miner' \in [Guests -> MinerStates],
           \A m \in Guests : (miner'[m] = "login" => miner[m] = "login") /\ (miner'[m] = "gone" => miner[m] = "gone")
    PROVE  RouteInv'
<1>1. Route!TypeOK'
  BY DEF RouteInv, Route!TypeOK, Route!Ids, Route!ClientStates, MinerStates
<1>2. \A i \in 0 .. seq - 1 : of[i] \in Guests
  BY RouteOlder
<1>3. Paired'
  BY <1>2 DEF RouteInv, Paired
<1>4. Served1'
  BY <1>2 DEF RouteInv, Served1, Paired
<1>5. Outstanding'
  <2>1. \A i \in Route!Ids : pending'[i] # {} => i \in mappers
    BY DEF RouteInv, Outstanding
  <2>2. \A i \in Route!Ids : \A r \in pending'[i] : r \in sent[of[i]] /\ replies[of[i]][r] = 0
    BY DEF RouteInv, Outstanding
  <2>3. Route!AnsweredOnce'
    BY DEF RouteInv, Outstanding, Route!AnsweredOnce
  <2> QED
    BY <2>1, <2>2, <2>3 DEF Outstanding, Route!Ids
<1> QED
  BY <1>1, <1>3, <1>4, <1>5 DEF RouteInv

(* The client of a mapper has failed.                                      *)
LEMMA RouteFail ==
    ASSUME Route!RouteAssumption, RouteInv, NEW i \in Route!Ids, Route!Fail(i),
           UNCHANGED <<running, over, owner, mapperId, mappers, seq, of, heard, sent, replies>>
    PROVE  RouteInv'
<1>1. /\ client' = [client EXCEPT ![i] = "failed"]
      /\ usable' = usable \ {i} /\ pending' = [pending EXCEPT ![i] = {}]
      /\ miner' = [m \in Guests |-> IF m \in Route!Closes(i) /\ Route!Live(m) THEN "closing" ELSE miner[m]]
  BY DEF Route!Fail
<1>2. client' \in [Route!Ids -> Route!ClientStates]
  BY <1>1, RouteTypes DEF Route!ClientStates
<1>3. pending' \in [Route!Ids -> SUBSET Requests] /\ \A j \in Route!Ids : pending'[j] \subseteq pending[j]
  BY <1>1, RouteTypes
<1>4. /\ miner' \in [Guests -> MinerStates]
      /\ \A m \in Guests : (miner'[m] = "login" => miner[m] = "login") /\ (miner'[m] = "gone" => miner[m] = "gone")
  BY <1>1, RouteTypes DEF MinerStates
<1>5. over' \in BOOLEAN /\ usable' \subseteq usable
  BY <1>1, RouteTypes
<1> QED
  BY <1>2, <1>3, <1>4, <1>5, RouteQuiet

LEMMA RouteSockets ==
    ASSUME Route!RouteAssumption, RouteInv, NEW i \in Route!Ids,
           \/ Route!Resolved(i) \/ Route!Connected(i) \/ Route!Job(i) \/ Route!ClientCloses(i)
           \/ Route!ClientClosed(i)
    PROVE  RouteInv'
<1>1. UNCHANGED <<running, over, owner, mapperId, mappers, seq, of, heard, sent, replies>>
  BY DEF Route!Resolved, Route!Connected, Route!Job, Route!ClientCloses, Route!ClientClosed, Route!routes
<1>2. CASE Route!Fail(i)
  BY <1>1, <1>2, RouteFail
<1>3. CASE Route!Job(i)
  <2>1. /\ client' = [client EXCEPT ![i] = "logged"] /\ UNCHANGED <<usable, pending>>
        /\ miner' = [miner EXCEPT ![of[i]] = IF @ = "waiting" THEN "ready" ELSE @]
    BY <1>3 DEF Route!Job
  <2>2. client' \in [Route!Ids -> Route!ClientStates]
    BY <2>1, RouteTypes DEF Route!ClientStates
  <2>3. /\ miner' \in [Guests -> MinerStates]
        /\ \A m \in Guests : (miner'[m] = "login" => miner[m] = "login") /\ (miner'[m] = "gone" => miner[m] = "gone")
    BY <2>1, RouteTypes DEF MinerStates
  <2> QED
    BY <1>1, <2>1, <2>2, <2>3, RouteTypes, RouteQuiet
<1>4. CASE \E st \in Route!ClientStates : client' = [client EXCEPT ![i] = st] /\ UNCHANGED <<usable, pending, miner>>
  BY <1>1, <1>4, RouteTypes, RouteQuiet
<1> QED
  BY <1>2, <1>3, <1>4 DEF Route!Resolved, Route!Connected, Route!ClientCloses, Route!ClientClosed, Route!ClientStates

LEMMA RouteMinerCloses ==
    ASSUME Route!RouteAssumption, RouteInv, NEW m \in Guests, Route!MinerCloses(m)
    PROVE  RouteInv'
<1>1. /\ miner' = [miner EXCEPT ![m] = "closing"]
      /\ UNCHANGED <<running, over, owner, mapperId, mappers, seq, of, heard, sent, replies, usable, client, pending>>
  BY DEF Route!MinerCloses, Route!routes
<1>2. /\ miner' \in [Guests -> MinerStates]
      /\ \A n \in Guests : (miner'[n] = "login" => miner[n] = "login") /\ (miner'[n] = "gone" => miner[n] = "gone")
  BY <1>1, RouteTypes DEF MinerStates
<1> QED
  BY <1>1, <1>2, RouteTypes, RouteQuiet

LEMMA RouteReload ==
    ASSUME Route!RouteAssumption, RouteInv, Route!Reload \/ UNCHANGED Route!vars
    PROVE  RouteInv'
<1>1. /\ UNCHANGED <<running, owner, mapperId, mappers, seq, of, heard, sent, replies, usable, client, pending, miner>>
      /\ over' \in BOOLEAN
  BY RouteTypes DEF Route!Reload, Route!routes, Route!vars
<1> QED
  BY <1>1, RouteTypes, RouteQuiet

(* The application ends: nothing is promised any more of who serves whom.  *)
LEMMA RouteCloseApp ==
    ASSUME Route!RouteAssumption, RouteInv, Route!CloseApp
    PROVE  RouteInv'
<1>1. /\ running' = FALSE /\ miner' = [m \in Guests |-> "gone"] /\ owner' = [m \in Guests |-> {}]
      /\ UNCHANGED <<over, mapperId, mappers, seq, of, usable, client, heard, pending, sent, replies>>
  BY DEF Route!CloseApp
<1>2. Route!TypeOK'
  BY <1>1 DEF RouteInv, Route!TypeOK, Route!Ids, Route!ClientStates
<1>3. \A i \in 0 .. seq - 1 : of[i] \in Guests
  BY RouteOlder
<1>4. Paired'
  BY <1>1, <1>3 DEF RouteInv, Paired
<1>5. Outstanding'
  BY <1>1 DEF RouteInv, Outstanding, Route!AnsweredOnce, Route!Ids
<1> QED
  BY <1>1, <1>2, <1>4, <1>5 DEF RouteInv, Served1

LEMMA RouteLogin ==
    ASSUME Route!RouteAssumption, RouteInv, NEW m \in Guests, Route!Login(m)
    PROVE  RouteInv'
<1>1. /\ running /\ miner[m] = "login" /\ UNCHANGED <<running, over, pending, sent, replies>>
      /\ Route!LoginMain(m) \/ Route!LoginRefused(m) \/ Route!LoginRoute(m)
  BY DEF Route!Login
<1>2. /\ seq \in Route!Ids /\ seq + 1 \in 0 .. Cardinality(Guests) /\ mapperId[m] = -1 /\ -1 \notin Route!Ids
      /\ seq \in Nat
  BY <1>1, RouteRoom, RouteSize DEF RouteInv, Paired
<1>3. \A i \in 0 .. seq - 1 : i \in Route!Ids /\ of[i] \in Guests /\ of[i] # m
  BY <1>1, <1>2, RouteSize, RouteTypes DEF RouteInv, Paired
<1>4. CASE Route!LoginMain(m) \/ Route!LoginRefused(m)
  <2>1. /\ UNCHANGED <<mapperId, mappers, seq, of, usable, client, heard>>
        /\ \E st \in {"waiting", "closing"} : miner' = [miner EXCEPT ![m] = st]
        /\ owner' = [owner EXCEPT ![m] = {"main"}] \/ owner' = owner
    BY <1>4 DEF Route!LoginMain, Route!LoginRefused
  <2>2. miner' \in [Guests -> MinerStates] /\ miner'[m] \in {"waiting", "closing"}
        /\ \A n \in Guests : n # m => miner'[n] = miner[n]
    BY <2>1, RouteTypes DEF MinerStates
  <2>3. owner' \in [Guests -> SUBSET {"main", "donate"}] /\ (owner'[m] = {"main"} \/ owner'[m] = owner[m])
        /\ \A n \in Guests : n # m => owner'[n] = owner[n]
    BY <2>1, RouteTypes, SMTT(40)
  <2>4. Route!TypeOK'
    BY <1>1, <2>1, <2>2, <2>3, RouteTypes, RouteCardinality DEF Route!TypeOK, Route!Ids, Route!ClientStates, MinerStates
  <2>5. Paired'
    BY <1>3, <2>1, <2>2 DEF RouteInv, Paired
  <2>6. Served1'
    <3>1. mapperId[m] \notin mappers
      BY <1>2, RouteTypes
    <3>2. \A i \in mappers : miner'[of[i]] # "gone"
      BY <1>1, <1>3, <2>2 DEF RouteInv, Served1, Paired
    <3>3. {"main"} # {"donate"}
      BY Zenon
    <3> QED
      BY <1>1, <2>1, <2>3, <3>1, <3>2, <3>3 DEF RouteInv, Served1
  <2>7. Outstanding'
    BY <1>1, <2>1 DEF RouteInv, Outstanding, Route!AnsweredOnce, Route!Ids
  <2> QED
    BY <2>4, <2>5, <2>6, <2>7 DEF RouteInv
<1>5. CASE Route!LoginRoute(m)
  <2>1. PICK st \in {"lookup", "connecting", "failed"} :
           /\ mappers' = mappers \union {seq} /\ seq' = seq + 1
           /\ of' = [of EXCEPT ![seq] = m] /\ mapperId' = [mapperId EXCEPT ![m] = seq]
           /\ owner' = [owner EXCEPT ![m] = {"donate"} \union (IF Route!OfMain(seq) THEN {"main"} ELSE {})]
           /\ client' = [client EXCEPT ![seq] = st] /\ heard' = heard \union {seq}
           /\ usable' = IF st = "failed" THEN usable ELSE usable \union {seq}
           /\ miner' = [miner EXCEPT ![m] = IF st = "failed" THEN "closing" ELSE "waiting"]
    BY <1>5 DEF Route!LoginRoute, Route!NextId
  <2>2. miner' \in [Guests -> MinerStates] /\ miner'[m] \in {"waiting", "closing"}
        /\ \A n \in Guests : n # m => miner'[n] = miner[n]
    BY <2>1, RouteTypes DEF MinerStates
  <2>3. owner' = [owner EXCEPT ![m] = {"donate"}]
    <3>1. ~Route!OfMain(seq)
      BY <1>2 DEF Route!OfMain
    <3> QED
      BY <2>1, <3>1
  <2>4. owner' \in [Guests -> SUBSET {"main", "donate"}] /\ owner'[m] = {"donate"}
        /\ \A n \in Guests : n # m => owner'[n] = owner[n]
    BY <2>3, RouteTypes
  <2>5. client' \in [Route!Ids -> Route!ClientStates]
    BY <1>2, <2>1, RouteTypes DEF Route!ClientStates
  <2>6. of' \in [Route!Ids -> Guests] /\ of'[seq] = m /\ \A i \in Route!Ids : i # seq => of'[i] = of[i]
    BY <1>2, <2>1, RouteTypes
  <2>7. mapperId' \in [Guests -> Route!Ids \union {-1}] /\ mapperId'[m] = seq
        /\ \A n \in Guests : n # m => mapperId'[n] = mapperId[n]
    BY <1>2, <2>1, RouteTypes
  <2>8. mappers' \subseteq Route!Ids /\ heard' \subseteq Route!Ids /\ usable' \subseteq mappers'
    BY <1>2, <2>1, RouteTypes
  <2>9. Route!TypeOK'
    <3>1. seq' \in 0 .. Cardinality(Guests)
      BY <1>2, <2>1
    <3> QED
      BY <1>1, <2>2, <2>4, <2>5, <2>6, <2>7, <2>8, <3>1, RouteTypes, RouteCardinality
         DEF Route!TypeOK, Route!Ids, Route!ClientStates, MinerStates
  <2>10. Paired'
    <3>1. \A i \in 0 .. seq' - 1 : i = seq \/ i \in 0 .. seq - 1
      BY <1>2, <2>1
    <3>2. \A i \in 0 .. seq' - 1 : mapperId'[of'[i]] = i /\ miner'[of'[i]] # "login"
      BY <1>2, <1>3, <2>2, <2>6, <2>7, <3>1 DEF RouteInv, Paired
    <3>3. \A n \in Guests : mapperId'[n] # -1 => mapperId'[n] \in 0 .. seq' - 1 /\ of'[mapperId'[n]] = n
      <4> SUFFICES ASSUME NEW n \in Guests, mapperId'[n] # -1
                   PROVE  mapperId'[n] \in 0 .. seq' - 1 /\ of'[mapperId'[n]] = n
        OBVIOUS
      <4>1. CASE n = m
        BY <1>2, <2>1, <2>6, <2>7, <4>1
      <4>2. CASE n # m
        <5>1. mapperId'[n] \in 0 .. seq - 1 /\ of[mapperId'[n]] = n
          BY <2>7, <4>2 DEF RouteInv, Paired
        <5> QED
          BY <1>2, <1>3, <2>1, <2>6, <5>1
      <4> QED
        BY <4>1, <4>2
    <3>4. \A n \in Guests : miner'[n] = "login" => mapperId'[n] = -1
      BY <2>2, <2>7 DEF RouteInv, Paired
    <3>5. mappers' \subseteq 0 .. seq' - 1 /\ heard' = mappers'
      BY <1>2, <2>1 DEF RouteInv, Paired
    <3> QED
      BY <3>2, <3>3, <3>4, <3>5 DEF Paired
  <2>11. Served1'
    <3>1. \A i \in mappers' : miner'[of'[i]] # "gone"
      BY <1>1, <1>2, <1>3, <2>1, <2>2, <2>6 DEF RouteInv, Served1, Paired
    <3>2. \A n \in Guests : n # m => mapperId[n] # seq
      BY <1>2 DEF RouteInv, Paired
    <3>3. \A n \in Guests : /\ owner'[n] \in {{}, {"main"}, {"donate"}}
                            /\ owner'[n] = {"donate"} <=> mapperId'[n] \in mappers'
      BY <1>1, <2>1, <2>4, <2>7, <3>2 DEF RouteInv, Served1
    <3> QED
      BY <3>1, <3>3 DEF Served1
  <2>12. Outstanding'
    <3>1. pending[seq] = {}
      BY <1>2 DEF RouteInv, Outstanding, Paired
    <3>2. \A i \in Route!Ids : pending[i] # {} => i \in mappers' /\ of'[i] = of[i]
      BY <2>1, <2>6, <3>1 DEF RouteInv, Outstanding
    <3> QED
      BY <1>1, <3>2 DEF RouteInv, Outstanding, Route!AnsweredOnce, Route!Ids
  <2> QED
    BY <2>9, <2>10, <2>11, <2>12 DEF RouteInv
<1> QED
  BY <1>1, <1>4, <1>5

(* A share is handed to the mapper or answered at once.                    *)
LEMMA RouteSubmit ==
    ASSUME Route!RouteAssumption, RouteInv, NEW m \in Guests, NEW r \in Requests, Route!Submit(m, r)
    PROVE  RouteInv'
<1>1. PICK i \in mappers : i = mapperId[m] /\ Route!Given(i, m, r)
  BY DEF Route!Submit
<1>2. /\ r \notin sent[m] /\ sent' = [sent EXCEPT ![m] = @ \union {r}]
      /\ UNCHANGED <<running, over, miner, owner, mapperId, mappers, seq, of, usable, client, heard>>
  BY DEF Route!Submit, Route!routes
<1>3. i \in Route!Ids /\ i # -1 /\ of[i] = m
  BY <1>1, RouteTypes, RouteSize DEF RouteInv, Paired
<1>4. /\ sent' \in [Guests -> SUBSET Requests] /\ r \in sent'[m]
      /\ \A n \in Guests : sent[n] \subseteq sent'[n]
  BY <1>2, RouteTypes
<1>5. replies \in [Guests -> [Requests -> Nat]] /\ pending \in [Route!Ids -> SUBSET Requests]
      /\ of \in [Route!Ids -> Guests]
  BY RouteTypes
<1>6. replies[m][r] = 0
  BY <1>2, <1>5 DEF RouteInv, Outstanding, Route!AnsweredOnce
<1>7. \A j \in Route!Ids : r \in pending[j] => of[j] # m
  BY <1>2 DEF RouteInv, Outstanding
<1>8. \/ pending' = [pending EXCEPT ![i] = @ \union {r}] /\ replies' = replies
      \/ pending' = pending /\ replies' = [replies EXCEPT ![m][r] = @ + 1]
      \/ pending' = pending /\ replies' = replies
  BY <1>1 DEF Route!Given, Route!Reply
<1>9. /\ pending' \in [Route!Ids -> SUBSET Requests] /\ replies' \in [Guests -> [Requests -> Nat]]
  BY <1>3, <1>5, <1>8
<1>10. \A n \in Guests : \A q \in Requests : n # m \/ q # r => replies'[n][q] = replies[n][q]
  BY <1>5, <1>8
<1>11. Route!TypeOK'
  BY <1>2, <1>4, <1>9 DEF RouteInv, Route!TypeOK, Route!Ids, Route!ClientStates
<1>12. Paired' /\ Served1'
  BY <1>2 DEF RouteInv, Paired, Served1
<1>13. Route!AnsweredOnce'
  <2> SUFFICES ASSUME NEW n \in Guests, NEW q \in Requests
               PROVE  replies'[n][q] <= IF q \in sent'[n] THEN 1 ELSE 0
    BY DEF Route!AnsweredOnce
  <2>1. CASE n = m /\ q = r
    <3>1. replies'[m][r] \in {0, 1}
      BY <1>5, <1>6, <1>8
    <3> QED
      BY <1>4, <2>1, <3>1
  <2>2. CASE n # m \/ q # r
    <3>1. replies'[n][q] = replies[n][q] /\ replies[n][q] \in Nat
      BY <1>5, <1>10, <2>2
    <3>2. replies[n][q] <= IF q \in sent[n] THEN 1 ELSE 0
      BY DEF RouteInv, Outstanding, Route!AnsweredOnce
    <3> QED
      BY <1>4, <3>1, <3>2
  <2> QED
    BY <2>1, <2>2
<1>14. \A j \in Route!Ids : pending'[j] # {} => j \in mappers
  BY <1>1, <1>5, <1>8 DEF RouteInv, Outstanding
<1>15. \A j \in Route!Ids : \A q \in pending'[j] : q \in sent'[of[j]] /\ replies'[of[j]][q] = 0
  <2> SUFFICES ASSUME NEW j \in Route!Ids, NEW q \in pending'[j]
               PROVE  q \in sent'[of[j]] /\ replies'[of[j]][q] = 0
    OBVIOUS
  <2>1. CASE q \in pending[j]
    <3>1. q \in sent[of[j]] /\ replies[of[j]][q] = 0 /\ of[j] \in Guests /\ q \in Requests
      BY <1>5, <2>1 DEF RouteInv, Outstanding
    <3>2. of[j] # m \/ q # r
      BY <1>7, <2>1
    <3> QED
      BY <1>4, <1>10, <3>1, <3>2
  <2>2. CASE q \notin pending[j]
    <3>1. j = i /\ q = r /\ replies' = replies
      BY <1>5, <1>8, <2>2
    <3> QED
      BY <1>3, <1>4, <1>6, <3>1
  <2> QED
    BY <2>1, <2>2
<1>16. Outstanding'
  BY <1>2, <1>13, <1>14, <1>15 DEF Outstanding, Route!Ids
<1> QED
  BY <1>11, <1>12, <1>16 DEF RouteInv

LEMMA RouteAnswer ==
    ASSUME Route!RouteAssumption, RouteInv, NEW i \in Route!Ids, NEW r \in Requests, Route!Answer(i, r)
    PROVE  RouteInv'
<1> DEFINE m == of[i]
<1>1. /\ r \in pending[i] /\ pending' = [pending EXCEPT ![i] = @ \ {r}]
      /\ UNCHANGED <<running, over, miner, owner, mapperId, mappers, seq, of, usable, client, heard, sent>>
      /\ replies' = [replies EXCEPT ![m][r] = @ + 1] \/ replies' = replies
  BY DEF Route!Answer, Route!PendingAfter, Route!routes, Route!Reply
<1>2. replies \in [Guests -> [Requests -> Nat]] /\ pending \in [Route!Ids -> SUBSET Requests]
      /\ of \in [Route!Ids -> Guests]
  BY RouteTypes
<1>3. i \in mappers /\ r \in sent[m] /\ replies[m][r] = 0 /\ m \in Guests
  BY <1>1, <1>2 DEF RouteInv, Outstanding
<1>4. \A j \in Route!Ids : j # i /\ pending[j] # {} => of[j] # m
  BY <1>3 DEF RouteInv, Outstanding, Paired
<1> HIDE DEF m
<1>5. pending' \in [Route!Ids -> SUBSET Requests] /\ replies' \in [Guests -> [Requests -> Nat]]
  BY <1>1, <1>2, <1>3, SMTT(40)
<1>6. /\ \A n \in Guests : \A q \in Requests : n # m \/ q # r => replies'[n][q] = replies[n][q]
      /\ replies'[m][r] \in {0, 1}
  BY <1>1, <1>2, <1>3
<1>7. Route!TypeOK'
  BY <1>1, <1>5 DEF RouteInv, Route!TypeOK, Route!Ids, Route!ClientStates
<1>8. Paired' /\ Served1'
  BY <1>1 DEF RouteInv, Paired, Served1
<1>9. Route!AnsweredOnce'
  <2> SUFFICES ASSUME NEW n \in Guests, NEW q \in Requests
               PROVE  replies'[n][q] <= IF q \in sent'[n] THEN 1 ELSE 0
    BY DEF Route!AnsweredOnce
  <2>1. CASE n = m /\ q = r
    BY <1>1, <1>3, <1>6, <2>1
  <2>2. CASE n # m \/ q # r
    <3>1. replies'[n][q] = replies[n][q]
      BY <1>6, <2>2
    <3>2. replies[n][q] <= IF q \in sent[n] THEN 1 ELSE 0
      BY DEF RouteInv, Outstanding, Route!AnsweredOnce
    <3> QED
      BY <1>1, <3>1, <3>2
  <2> QED
    BY <2>1, <2>2
<1>10. \A j \in Route!Ids : pending'[j] \subseteq pending[j] /\ (j = i => r \notin pending'[j])
  BY <1>1, <1>2
<1>11. \A j \in Route!Ids : \A q \in pending'[j] : q \in sent[of[j]] /\ replies'[of[j]][q] = 0
  <2> SUFFICES ASSUME NEW j \in Route!Ids, NEW q \in pending'[j]
               PROVE  q \in sent[of[j]] /\ replies'[of[j]][q] = 0
    OBVIOUS
  <2>1. q \in pending[j] /\ of[j] \in Guests /\ q \in Requests /\ (of[j] # m \/ q # r)
    BY <1>2, <1>4, <1>10
  <2>2. q \in sent[of[j]] /\ replies[of[j]][q] = 0
    BY <2>1 DEF RouteInv, Outstanding
  <2> QED
    BY <1>6, <2>1, <2>2
<1>12. Outstanding'
  BY <1>1, <1>9, <1>10, <1>11 DEF RouteInv, Outstanding, Route!Ids
<1> QED
  BY <1>7, <1>8, <1>12 DEF RouteInv

LEMMA RouteMinerClosed ==
    ASSUME Route!RouteAssumption, RouteInv, NEW m \in Guests, Route!MinerClosed(m)
    PROVE  RouteInv'
<1> DEFINE gone == Route!RouteOf(m)
<1>1. /\ running /\ miner[m] = "closing"
      /\ miner' = [miner EXCEPT ![m] = "gone"] /\ owner' = [owner EXCEPT ![m] = {}]
      /\ mappers' = mappers \ gone /\ usable' = usable \ gone /\ heard' = heard \ gone
      /\ client' = [i \in Route!Ids |-> IF i \in gone THEN Route!DeletedState(client[i]) ELSE client[i]]
      /\ pending' = [i \in Route!Ids |-> IF i \in gone THEN {} ELSE pending[i]]
      /\ UNCHANGED <<running, over, mapperId, seq, of, sent, replies>>
  BY DEF Route!MinerClosed
<1>2. \A i : i \in gone <=> i \in mappers /\ i = mapperId[m]
  BY DEF Route!RouteOf
<1> HIDE DEF gone
<1>3. client' \in [Route!Ids -> Route!ClientStates] /\ pending' \in [Route!Ids -> SUBSET Requests]
  BY <1>1, RouteTypes DEF Route!DeletedState, Route!ClientStates
<1>4. /\ miner' \in [Guests -> MinerStates] /\ owner' \in [Guests -> SUBSET {"main", "donate"}]
      /\ miner'[m] = "gone" /\ owner'[m] = {}
      /\ \A n \in Guests : n # m => miner'[n] = miner[n] /\ owner'[n] = owner[n]
  BY <1>1, RouteTypes DEF MinerStates
<1>5. mappers' \subseteq Route!Ids /\ usable' \subseteq mappers' /\ heard' \subseteq Route!Ids
  BY <1>1, RouteTypes
<1>6. Route!TypeOK'
  BY <1>1, <1>3, <1>4, <1>5, RouteTypes, RouteCardinality DEF Route!TypeOK, Route!Ids, Route!ClientStates, MinerStates
<1>7. \A i \in 0 .. seq - 1 : i \in Route!Ids /\ of[i] \in Guests
  BY RouteOlder
<1>8. Paired'
  BY <1>1, <1>4, <1>7 DEF RouteInv, Paired
<1>9. Served1'
  <2>1. \A i \in mappers' : i \in mappers /\ of[i] # m
    BY <1>1, <1>2 DEF RouteInv, Paired
  <2>2. \A i \in mappers' : miner'[of[i]] # "gone"
    BY <1>1, <1>4, <1>7, <2>1 DEF RouteInv, Served1, Paired
  <2>3. \A n \in Guests : n # m => (mapperId[n] \in mappers' <=> mapperId[n] \in mappers)
    BY <1>1, <1>2 DEF RouteInv, Paired
  <2>4. mapperId[m] \notin mappers'
    BY <1>1, <1>2
  <2>5. {} # {"donate"}
    OBVIOUS
  <2> QED
    BY <1>1, <1>4, <2>2, <2>3, <2>4, <2>5, SMTT(40) DEF RouteInv, Served1
<1>10. Outstanding'
  <2>1. \A i \in Route!Ids : pending'[i] # {} => pending'[i] = pending[i] /\ i \notin gone
    BY <1>1
  <2>2. \A i \in Route!Ids : pending'[i] # {} => i \in mappers'
    BY <1>1, <2>1 DEF RouteInv, Outstanding
  <2>3. \A i \in Route!Ids : \A r \in pending'[i] : r \in sent[of[i]] /\ replies[of[i]][r] = 0
    BY <2>1 DEF RouteInv, Outstanding
  <2>4. Route!AnsweredOnce'
    BY <1>1 DEF RouteInv, Outstanding, Route!AnsweredOnce
  <2> QED
    BY <1>1, <2>2, <2>3, <2>4 DEF Outstanding, Route!Ids
<1> QED
  BY <1>6, <1>8, <1>9, <1>10 DEF RouteInv

LEMMA RouteNext ==
    ASSUME Route!RouteAssumption, RouteInv, [Route!Next]_(Route!vars)
    PROVE  RouteInv'
BY RouteLogin, RouteMinerClosed, RouteSubmit, RouteMinerCloses, RouteSockets, RouteAnswer, RouteReload, RouteCloseApp
   DEF Route!Next, Route!OnEvent

LEMMA RouteHolds ==
    ASSUME Route!RouteAssumption, RouteInv
    PROVE  Route!TypeOK /\ Route!PointersLive /\ Route!OneOwner /\ Route!AnsweredOnce
<1>1. \A i \in mappers : of[i] \in Guests /\ mapperId[of[i]] = i
  BY RouteOlder DEF RouteInv, Paired
<1>2. Route!PointersLive
  BY <1>1 DEF RouteInv, Paired, Served1, Route!PointersLive
<1>3. running => \A m \in Guests : Route!Cardinality(owner[m]) <= 1 /\ ("donate" \in owner[m] <=> mapperId[m] \in mappers)
  <2> SUFFICES ASSUME running, NEW m \in Guests
               PROVE  Route!Cardinality(owner[m]) <= 1 /\ ("donate" \in owner[m] <=> mapperId[m] \in mappers)
    OBVIOUS
  <2>1. owner[m] \in {{}, {"main"}, {"donate"}} /\ (owner[m] = {"donate"} <=> mapperId[m] \in mappers)
    BY DEF RouteInv, Served1
  <2>2. Cardinality({}) = 0 /\ Cardinality({"main"}) = 1 /\ Cardinality({"donate"}) = 1
    BY FS_EmptySet, FS_Singleton
  <2>3. Cardinality(owner[m]) \in {0, 1}
    BY <2>1, <2>2
  <2>4. Route!Cardinality(owner[m]) = Cardinality(owner[m])
    BY RouteCardinality
  <2>5. "donate" \in owner[m] <=> owner[m] = {"donate"}
    BY <2>1
  <2> QED
    BY <2>1, <2>3, <2>4, <2>5
<1>4. Route!OneOwner
  BY <1>1, <1>3 DEF Route!OneOwner
<1> QED
  BY <1>2, <1>4 DEF RouteInv, Outstanding

(* Whoever a client may still call is there, a miner has one splitter, and *)
(* a share is answered once at most: for any number of miners and shares.  *)
THEOREM RouteSound ==
    ASSUME Route!RouteAssumption
    PROVE  Route!Spec => [](Route!TypeOK /\ Route!PointersLive /\ Route!OneOwner /\ Route!AnsweredOnce)
<1>1. Route!Init => RouteInv
  BY RouteInit
<1>2. RouteInv /\ [Route!Next]_(Route!vars) => RouteInv'
  BY RouteNext
<1>3. RouteInv => Route!TypeOK /\ Route!PointersLive /\ Route!OneOwner /\ Route!AnsweredOnce
  BY RouteHolds
<1> QED
  BY <1>1, <1>2, <1>3, PTL DEF Route!Spec

-----------------------------------------------------------------------------
(* The inductive invariant behind SlotExclusive.  Knowing only that        *)
(* `given' is exclusive so far does not stop add() from handing out a slot *)
(* that someone had before: a free slot must be one nobody was given under *)
(* the current job.  That is what the dead marks ensure, as long as the    *)
(* storage is active; suspend() forgets them, but it also deactivates.     *)

(* No job was handed out that the pools did not issue.                     *)
JobsIssued == \A g \in given : g.job <= issued

(* An active storage has a job, the newest one.                            *)
ActiveHasNewestJob ==
    storage.active => storage.job \in Jobs /\ storage.job.id = issued

(* The slots given out under the current job are still marked.             *)
GivenSlotsMarked ==
    storage.active =>
        \A g \in given : g.job = storage.job.id =>
            storage.used[g.slot] \in {g.miner, -g.miner}

IndInv == /\ TypeOK
          /\ MinersMatchSlots
          /\ JobsIssued
          /\ ActiveHasNewestJob
          /\ GivenSlotsMarked
          /\ SlotExclusive
          /\ EveryoneHasJob
          /\ PrevJobSameSession

USE NumSlotsAssumption, MinerIdsAssumption, SessionsAssumption, MaxJobsAssumption

-----------------------------------------------------------------------------
LEMMA IdPositive == \A m \in MinerIds : m \in Int /\ m > 0
<1>1. \A m \in MinerIds : m \in Nat /\ m # 0
  BY DEF MinerIdsAssumption
<1> QED
  BY <1>1

(* The methods of NonceStorage yield a storage.                            *)
LEMMA NewStorageType ==
    ASSUME NEW i \in Slots
    PROVE  NewStorage(i) \in Storage
BY DEF NewStorage, Storage, Slots

LEMMA AddType ==
    ASSUME NEW s \in Storage, NEW m \in MinerIds, NEW i \in Slots
    PROVE  Add(s, m, i) \in Storage
<1> DEFINE v == [s.used EXCEPT ![i] = m]
           n == s.miners \union {m}
<1>1. v \in [Slots -> Int] /\ n \in SUBSET MinerIds
  BY DEF Storage
<1> HIDE DEF v, n
<1>2. [s EXCEPT !.index = i, !.used = v, !.miners = n] \in Storage
  BY <1>1 DEF Storage
<1> QED
  BY <1>2 DEF Add, v, n

LEMMA RemoveType ==
    ASSUME NEW s \in Storage, NEW m \in MinerIds, NEW i \in Slots
    PROVE  Remove(s, m, i) \in Storage
<1> DEFINE v == [s.used EXCEPT ![i] = -m]
           n == s.miners \ {m}
<1>1. v \in [Slots -> Int] /\ n \in SUBSET MinerIds
  BY DEF Storage
<1> HIDE DEF v, n
<1>2. [s EXCEPT !.used = v, !.miners = n] \in Storage
  BY <1>1 DEF Storage
<1> QED
  BY <1>2 DEF Remove, v, n

LEMMA SetActiveType ==
    ASSUME NEW s \in Storage, NEW b \in BOOLEAN
    PROVE  SetActive(s, b) \in Storage
BY DEF SetActive, Storage

LEMMA ResetType ==
    ASSUME NEW s \in Storage
    PROVE  Reset(s) \in Storage
BY DEF Reset, Storage

LEMMA SetJobType ==
    ASSUME NEW s \in Storage, NEW j \in Jobs
    PROVE  SetJob(s, j) \in Storage
<1> DEFINE v == [k \in Slots |-> IF s.used[k] < 0 THEN 0 ELSE s.used[k]]
           p == IF s.job.clientId = j.clientId THEN s.job ELSE NoJob
<1>1. v \in [Slots -> Int] /\ p \in Jobs \union {NoJob}
  BY DEF Storage
<1> HIDE DEF v, p
<1>2. [s EXCEPT !.used = v, !.prevJob = p, !.job = j] \in Storage
  BY <1>1 DEF Storage
<1> QED
  BY <1>2 DEF SetJob, v, p

(* What setJob() does to the slots: live ones stay, all others are free.   *)
LEMMA SetJobUsed ==
    ASSUME NEW s \in Storage, NEW j \in Jobs, NEW i \in Slots
    PROVE  /\ SetJob(s, j).used[i] > 0 <=> s.used[i] > 0
           /\ SetJob(s, j).used[i] > 0 => SetJob(s, j).used[i] = s.used[i]
           /\ SetJob(s, j).used[i] >= 0
           /\ s.used[i] > 0 => SetJob(s, j).used[i] = s.used[i]
<1>1. SetJob(s, j).used = [k \in Slots |-> IF s.used[k] < 0 THEN 0 ELSE s.used[k]]
  BY DEF SetJob, Storage
<1>2. s.used[i] \in Int
  BY DEF Storage
<1> QED
  BY <1>1, <1>2

(* A storage nobody uses has no miner in its map.                          *)
LEMMA UnusedHasNoMiner ==
    ASSUME TypeOK, MinersMatchSlots, ~IsUsed(storage)
    PROVE  storage.miners = {}
<1> SUFFICES ASSUME NEW m \in storage.miners
             PROVE  FALSE
  OBVIOUS
<1>1. m \in MinerIds /\ fixedByte[m] \in Slots
  BY DEF TypeOK, MinersMatchSlots, Storage
<1> QED
  BY <1>1 DEF MinersMatchSlots, IsUsed

(* A connection that has not logged in holds no slot.                      *)
LEMMA NewcomerHoldsNothing ==
    ASSUME TypeOK, MinersMatchSlots, NEW m \in MinerIds, fixedByte[m] = NoByte
    PROVE  /\ m \notin storage.miners
           /\ \A i \in Slots : storage.used[i] # m
BY DEF TypeOK, MinersMatchSlots, Storage, NoByte, Slots

(* The fields of the storage that add() and remove() leave behind.         *)
LEMMA AddFields ==
    ASSUME NEW s \in Storage, NEW m \in MinerIds, NEW i \in Slots
    PROVE  /\ Add(s, m, i).active = s.active
           /\ Add(s, m, i).job = s.job
           /\ Add(s, m, i).prevJob = s.prevJob
           /\ Add(s, m, i).miners = s.miners \union {m}
           /\ Add(s, m, i).used = [s.used EXCEPT ![i] = m]
BY DEF Add, Storage

LEMMA SetJobFields ==
    ASSUME NEW s \in Storage, NEW j \in Jobs
    PROVE  /\ SetJob(s, j).active = s.active
           /\ SetJob(s, j).job = j
           /\ SetJob(s, j).prevJob = IF s.job.clientId = j.clientId
                                     THEN s.job ELSE NoJob
           /\ SetJob(s, j).miners = s.miners
BY DEF SetJob, Storage

LEMMA SetActiveFields ==
    ASSUME NEW s \in Storage, NEW b \in BOOLEAN
    PROVE  /\ SetActive(s, b).active = b
           /\ SetActive(s, b).job = s.job
           /\ SetActive(s, b).prevJob = s.prevJob
           /\ SetActive(s, b).miners = s.miners
           /\ SetActive(s, b).used = s.used
BY DEF SetActive, Storage

LEMMA ResetFields ==
    ASSUME NEW s \in Storage
    PROVE  /\ Reset(s).active = s.active
           /\ Reset(s).job = s.job
           /\ Reset(s).prevJob = s.prevJob
           /\ Reset(s).miners = s.miners
           /\ Reset(s).used = [k \in Slots |-> 0]
BY DEF Reset, Storage

-----------------------------------------------------------------------------
LEMMA InitInv == Init => IndInv
<1> SUFFICES ASSUME Init
             PROVE  IndInv
  OBVIOUS
<1>1. PICK i \in Slots : storage = NewStorage(i)
  BY DEF Init
<1>2. TypeOK
  BY <1>1, NewStorageType DEF Init, TypeOK, NoByte
<1>3. /\ storage.miners = {} /\ storage.active = FALSE
      /\ storage.prevJob = NoJob /\ \A k \in Slots : storage.used[k] = 0
      /\ given = {}
  BY <1>1 DEF Init, NewStorage
<1> QED
  BY <1>2, <1>3 DEF IndInv, MinersMatchSlots, JobsIssued, ActiveHasNewestJob,
     GivenSlotsMarked, SlotExclusive, EveryoneHasJob, PrevJobSameSession

(* add(): the slot is free, so under the current job nobody had it.        *)
LEMMA AddMinerInv ==
    ASSUME IndInv, NEW m \in MinerIds, AddMiner(m)
    PROVE  IndInv'
<1>1. PICK i \in Slots :
        /\ storage.used[i] = 0
        /\ storage' = Add(storage, m, i)
        /\ fixedByte' = [fixedByte EXCEPT ![m] = i]
        /\ given' = IF storage.active
                    THEN given \union Handed(storage.job, storage', {i})
                    ELSE given
  BY DEF AddMiner, IsNextIndex
<1>2. /\ storage \in Storage /\ issued' = issued /\ issued \in Nat
      /\ fixedByte \in [MinerIds -> Slots \union {NoByte}]
      /\ given \subseteq Leases /\ fixedByte[m] = NoByte
  BY DEF IndInv, TypeOK, AddMiner
<1>3. /\ storage'.active = storage.active /\ storage'.job = storage.job
      /\ storage'.prevJob = storage.prevJob
      /\ storage'.miners = storage.miners \union {m}
      /\ storage'.used = [storage.used EXCEPT ![i] = m]
  <2>1. /\ Add(storage, m, i).active = storage.active
        /\ Add(storage, m, i).job = storage.job
        /\ Add(storage, m, i).prevJob = storage.prevJob
        /\ Add(storage, m, i).miners = storage.miners \union {m}
        /\ Add(storage, m, i).used = [storage.used EXCEPT ![i] = m]
    <3>1. storage \in Storage
      BY <1>2
    <3> QED
      BY <3>1, AddFields, ZenonT(60)
  <2>2. storage' = Add(storage, m, i)
    BY <1>1
  <2> QED
    BY <2>1, <2>2
<1>4. /\ storage.used \in [Slots -> Int] /\ storage.miners \subseteq MinerIds
      /\ storage.active \in BOOLEAN /\ storage.job \in Jobs \union {NoJob}
  BY <1>2 DEF Storage
<1>5. /\ m \notin storage.miners
      /\ \A k \in Slots : storage.used[k] # m
  BY <1>2, NewcomerHoldsNothing DEF IndInv
<1> DEFINE r == [job |-> storage.job.id, slot |-> i, miner |-> m]
<1>6. given' = IF storage.active THEN given \union {r} ELSE given
  <2>1. storage'.used[i] = m
    BY <1>3, <1>4
  <2>2. Handed(storage.job, storage', {i}) = {r}
    BY <2>1 DEF Handed
  <2> QED
    BY <1>1, <2>2
<1>7. storage.active => /\ storage.job \in Jobs /\ storage.job.id = issued
                        /\ issued \in Nat \ {0}
  BY DEF IndInv, ActiveHasNewestJob, Jobs
<1>r. /\ r.job = storage.job.id /\ r.slot = i /\ r.miner = m
      /\ storage.active => r \in Leases
  BY <1>7 DEF Leases
<1> HIDE DEF r
<1>8. TypeOK'
  <2>1. storage' \in Storage
    BY <1>1, <1>2, AddType
  <2>2. given' \subseteq Leases
    BY <1>2, <1>6, <1>r
  <2> QED
    BY <2>1, <2>2, <1>1, <1>2 DEF TypeOK
<1>9. MinersMatchSlots'
  <2>1. ASSUME NEW n \in storage'.miners
        PROVE  fixedByte'[n] # NoByte /\ storage'.used[fixedByte'[n]] = n
    <3>1. CASE n = m
      BY <3>1, <1>1, <1>2, <1>3, <1>4 DEF Slots, NoByte
    <3>2. CASE n # m
      <4>1. n \in storage.miners /\ n \in MinerIds /\ fixedByte'[n] = fixedByte[n]
        BY <3>2, <1>1, <1>2, <1>3, <1>4
      <4>2. fixedByte[n] # NoByte /\ storage.used[fixedByte[n]] = n
        BY <4>1 DEF IndInv, MinersMatchSlots
      <4>3. fixedByte[n] \in Slots /\ fixedByte[n] # i
        BY <4>1, <4>2, <1>1, <1>2
      <4> QED
        BY <4>1, <4>2, <4>3, <1>3, <1>4
    <3> QED
      BY <3>1, <3>2
  <2>2. ASSUME NEW k \in Slots, storage'.used[k] > 0
        PROVE  storage'.used[k] \in storage'.miners /\ fixedByte'[storage'.used[k]] = k
    <3>1. CASE k = i
      BY <3>1, <1>1, <1>2, <1>3, <1>4
    <3>2. CASE k # i
      <4>1. storage'.used[k] = storage.used[k]
        BY <3>2, <1>3, <1>4
      <4>2. storage.used[k] \in storage.miners /\ fixedByte[storage.used[k]] = k
        BY <4>1, <2>2 DEF IndInv, MinersMatchSlots
      <4> QED
        BY <4>1, <4>2, <1>1, <1>2, <1>3, <1>4, <1>5
    <3> QED
      BY <3>1, <3>2
  <2> QED
    BY <2>1, <2>2 DEF MinersMatchSlots
<1>10. JobsIssued' /\ ActiveHasNewestJob'
  BY <1>2, <1>3, <1>6, <1>7, <1>r DEF IndInv, JobsIssued, ActiveHasNewestJob
<1>11. storage.active =>
         \A g \in given : g.job = storage.job.id => g.slot # i
  <2> SUFFICES ASSUME storage.active, NEW g \in given, g.job = storage.job.id,
                      g.slot = i
               PROVE  FALSE
    OBVIOUS
  <2>1. storage.used[i] \in {g.miner, -g.miner} /\ g.miner \in Nat \ {0}
    BY <1>2 DEF IndInv, GivenSlotsMarked, Leases
  <2> QED
    BY <2>1, <1>1
<1>12. GivenSlotsMarked'
  <2> SUFFICES ASSUME storage'.active, NEW g \in given', g.job = storage'.job.id
               PROVE  storage'.used[g.slot] \in {g.miner, -g.miner}
    BY DEF GivenSlotsMarked
  <2>1. CASE g \in given
    BY <2>1, <1>2, <1>3, <1>4, <1>11 DEF IndInv, GivenSlotsMarked, Leases
  <2>2. CASE g \notin given
    BY <2>2, <1>1, <1>3, <1>4, <1>6, <1>r
  <2> QED
    BY <2>1, <2>2
<1>13. SlotExclusive'
  <2>1. CASE ~storage.active
    BY <2>1, <1>6 DEF IndInv, SlotExclusive
  <2>2. CASE storage.active
    <3>1. \A g \in given : g.job = r.job => g.slot # r.slot
      BY <2>2, <1>11, <1>r
    <3> QED
      BY <3>1, <2>2, <1>6 DEF IndInv, SlotExclusive
  <2> QED
    BY <2>1, <2>2
<1>14. EveryoneHasJob'
  <2> SUFFICES ASSUME storage'.active, NEW k \in Slots, storage'.used[k] > 0
               PROVE  [job |-> storage'.job.id, slot |-> k,
                       miner |-> storage'.used[k]] \in given'
    BY DEF EveryoneHasJob, Handed
  <2>1. CASE k = i
    BY <2>1, <1>3, <1>4, <1>6 DEF r
  <2>2. CASE k # i
    BY <2>2, <1>3, <1>4, <1>6 DEF IndInv, EveryoneHasJob, Handed
  <2> QED
    BY <2>1, <2>2
<1>15. PrevJobSameSession'
  BY <1>3 DEF IndInv, PrevJobSameSession
<1> QED
  BY <1>8, <1>9, <1>10, <1>12, <1>13, <1>14, <1>15 DEF IndInv

(* remove(): the slot stays marked with the id of the miner that left.     *)
LEMMA RemoveMinerInv ==
    ASSUME IndInv, NEW m \in MinerIds, RemoveMiner(m)
    PROVE  IndInv'
<1> DEFINE i == fixedByte[m]
<1>1. /\ storage \in Storage /\ issued' = issued /\ given' = given
      /\ fixedByte' = fixedByte /\ given \subseteq Leases
      /\ fixedByte \in [MinerIds -> Slots \union {NoByte}]
      /\ storage' = Remove(storage, m, i) /\ m \in storage.miners
  BY DEF IndInv, TypeOK, RemoveMiner
<1>2. i \in Slots /\ storage.used[i] = m
  BY <1>1 DEF IndInv, MinersMatchSlots
<1> HIDE DEF i
<1>3. /\ storage'.active = storage.active /\ storage'.job = storage.job
      /\ storage'.prevJob = storage.prevJob
      /\ storage'.miners = storage.miners \ {m}
      /\ storage'.used = [storage.used EXCEPT ![i] = -m]
  <2>1. LET s == Remove(storage, m, i)
        IN  /\ s.active = storage.active /\ s.job = storage.job
            /\ s.prevJob = storage.prevJob
            /\ s.miners = storage.miners \ {m}
            /\ s.used = [storage.used EXCEPT ![i] = -m]
    <3> DEFINE v == [storage.used EXCEPT ![i] = -m]
               n == storage.miners \ {m}
    <3>1. storage \in Storage
      BY <1>1
    <3>2. Remove(storage, m, i) = [storage EXCEPT !.used = v, !.miners = n]
      BY DEF Remove
    <3> HIDE DEF v, n
    <3>3. LET s == [storage EXCEPT !.used = v, !.miners = n]
          IN  /\ s.active = storage.active /\ s.job = storage.job
              /\ s.prevJob = storage.prevJob /\ s.miners = n /\ s.used = v
      BY <3>1 DEF Storage
    <3> QED
      BY <3>2, <3>3 DEF v, n
  <2>2. storage' = Remove(storage, m, i)
    BY <1>1
  <2> QED
    BY <2>1, <2>2
<1>4. /\ storage.used \in [Slots -> Int] /\ storage.miners \subseteq MinerIds
      /\ m \in Nat /\ m > 0
  BY <1>1 DEF Storage
<1>5. TypeOK'
  BY <1>1, <1>2, RemoveType DEF IndInv, TypeOK
<1>6. MinersMatchSlots'
  <2>1. ASSUME NEW n \in storage'.miners
        PROVE  fixedByte'[n] # NoByte /\ storage'.used[fixedByte'[n]] = n
    <3>1. n \in storage.miners /\ n # m /\ n \in MinerIds
      BY <1>3, <1>4
    <3>2. fixedByte[n] # NoByte /\ storage.used[fixedByte[n]] = n
      BY <3>1 DEF IndInv, MinersMatchSlots
    <3>3. fixedByte[n] \in Slots /\ fixedByte[n] # i
      BY <3>1, <3>2, <1>1, <1>2
    <3> QED
      BY <3>2, <3>3, <1>1, <1>3, <1>4
  <2>2. ASSUME NEW k \in Slots, storage'.used[k] > 0
        PROVE  storage'.used[k] \in storage'.miners /\ fixedByte'[storage'.used[k]] = k
    <3>1. k # i /\ storage'.used[k] = storage.used[k]
      BY <2>2, <1>2, <1>3, <1>4
    <3>2. storage.used[k] \in storage.miners /\ fixedByte[storage.used[k]] = k
      BY <3>1, <2>2 DEF IndInv, MinersMatchSlots
    <3> QED
      BY <3>1, <3>2, <1>1, <1>3 DEF i
  <2> QED
    BY <2>1, <2>2 DEF MinersMatchSlots
<1>7. JobsIssued' /\ ActiveHasNewestJob' /\ SlotExclusive' /\ PrevJobSameSession'
  BY <1>1, <1>3 DEF IndInv, JobsIssued, ActiveHasNewestJob, SlotExclusive,
     PrevJobSameSession
<1>8. GivenSlotsMarked'
  <2> SUFFICES ASSUME storage.active, NEW g \in given, g.job = storage.job.id
               PROVE  storage'.used[g.slot] \in {g.miner, -g.miner}
    BY <1>1, <1>3 DEF GivenSlotsMarked
  <2>1. /\ storage.used[g.slot] \in {g.miner, -g.miner} /\ g.slot \in Slots
        /\ g.miner \in MinerIds
    BY <1>1 DEF IndInv, GivenSlotsMarked, Leases
  <2>2. g.miner \in Int /\ g.miner > 0
    BY <2>1, IdPositive
  <2> QED
    BY <2>1, <2>2, <1>2, <1>3, <1>4
<1>9. EveryoneHasJob'
  BY <1>1, <1>2, <1>3, <1>4 DEF IndInv, EveryoneHasJob, Handed
<1> QED
  BY <1>5, <1>6, <1>7, <1>8, <1>9 DEF IndInv

(* setJob(): nobody has the new job before the live miners get it.         *)
LEMMA ReceiveInv ==
    ASSUME IndInv, NEW q \in Sessions, NEW b \in BOOLEAN, Receive(q, b)
    PROVE  IndInv'
<1> DEFINE j == [id |-> issued + 1, clientId |-> q]
           s == SetActive(storage, b)
<1>1. /\ storage \in Storage /\ issued \in Nat /\ issued' = issued + 1
      /\ fixedByte' = fixedByte /\ given \subseteq Leases
      /\ fixedByte \in [MinerIds -> Slots \union {NoByte}]
      /\ storage' = SetJob(s, j)
      /\ given' = given \union Handed(j, storage', Receivers(storage'))
  BY DEF IndInv, TypeOK, Receive
<1>2. j \in Jobs /\ j.id = issued + 1 /\ j.clientId = q
  BY <1>1 DEF Jobs
<1>3. /\ s \in Storage /\ s.active = b /\ s.job = storage.job
      /\ s.miners = storage.miners /\ s.used = storage.used
  BY <1>1, SetActiveType, SetActiveFields
<1> HIDE DEF j, s
<1>4. /\ storage' \in Storage /\ storage'.active = b /\ storage'.job = j
      /\ storage'.miners = storage.miners
      /\ storage'.prevJob = IF storage.job.clientId = j.clientId
                            THEN storage.job ELSE NoJob
  <2>1. LET t == SetJob(s, j)
        IN  /\ t \in Storage /\ t.active = s.active /\ t.job = j
            /\ t.miners = s.miners
            /\ t.prevJob = IF s.job.clientId = j.clientId THEN s.job ELSE NoJob
    <3>1. s \in Storage /\ j \in Jobs
      BY <1>2, <1>3
    <3> QED
      BY <3>1, SetJobType, SetJobFields
  <2>2. storage' = SetJob(s, j)
    BY <1>1
  <2> QED
    BY <2>1, <2>2, <1>3
<1>5. \A i \in Slots :
        /\ storage.used[i] \in Int /\ storage'.used[i] \in Int
        /\ storage.used[i] > 0 => storage'.used[i] = storage.used[i]
        /\ storage'.used[i] > 0 => storage'.used[i] = storage.used[i]
  BY <1>1, <1>2, <1>3, <1>4, SetJobUsed DEF Storage
<1>6. MinersMatchSlots'
  <2>1. ASSUME NEW n \in storage.miners
        PROVE  fixedByte[n] # NoByte /\ storage'.used[fixedByte[n]] = n
    <3>1. /\ n \in MinerIds /\ fixedByte[n] # NoByte
          /\ storage.used[fixedByte[n]] = n
      BY <1>1 DEF IndInv, MinersMatchSlots, Storage
    <3>2. fixedByte[n] \in Slots /\ n > 0
      BY <3>1, <1>1, IdPositive
    <3> QED
      BY <3>1, <3>2, <1>5
  <2>2. ASSUME NEW i \in Slots, storage'.used[i] > 0
        PROVE  storage'.used[i] \in storage.miners /\ fixedByte[storage'.used[i]] = i
    BY <2>2, <1>5 DEF IndInv, MinersMatchSlots
  <2> QED
    BY <2>1, <2>2, <1>1, <1>4 DEF MinersMatchSlots
<1>7. Receivers(storage') = {i \in Slots : storage'.used[i] > 0}
  BY <1>6 DEF MinersMatchSlots, Receivers
<1>8. \A g \in given' \ given :
         g.job = j.id /\ g.slot \in Slots /\ g.miner = storage'.used[g.slot]
         /\ g \in Leases
  <2> SUFFICES ASSUME NEW i \in Receivers(storage')
               PROVE  /\ i \in Slots
                      /\ [job |-> j.id, slot |-> i, miner |-> storage'.used[i]]
                           \in Leases
    BY <1>1 DEF Handed
  <2>1. i \in Slots /\ storage'.used[i] \in MinerIds
    BY <1>4 DEF Receivers, Storage
  <2> QED
    BY <2>1, <1>1, <1>2 DEF Leases
<1>9. TypeOK'
  BY <1>1, <1>4, <1>8 DEF TypeOK
<1>10. \A g \in given : g.job \in Nat /\ g.job <= issued
  BY <1>1 DEF IndInv, JobsIssued, Leases
<1>11. JobsIssued' /\ ActiveHasNewestJob'
  <2>1. JobsIssued'
    BY <1>1, <1>2, <1>8, <1>10 DEF JobsIssued
  <2> QED
    BY <2>1, <1>1, <1>2, <1>4 DEF ActiveHasNewestJob
<1>12. \A g \in given' : g.job = j.id => g \notin given
  BY <1>1, <1>2, <1>10
<1>13. GivenSlotsMarked'
  BY <1>4, <1>8, <1>12 DEF GivenSlotsMarked
<1>14. SlotExclusive'
  <2> SUFFICES ASSUME NEW a \in given', NEW d \in given',
                      a.job = d.job, a.slot = d.slot
               PROVE  a.miner = d.miner
    BY DEF SlotExclusive
  <2>1. CASE a.job = j.id
    BY <2>1, <1>8, <1>12
  <2>2. CASE a.job # j.id
    BY <2>2, <1>8 DEF IndInv, SlotExclusive
  <2> QED
    BY <2>1, <2>2
<1>15. EveryoneHasJob'
  BY <1>1, <1>4, <1>7 DEF EveryoneHasJob, Handed
<1>16. PrevJobSameSession'
  BY <1>4 DEF PrevJobSameSession
<1> QED
  BY <1>6, <1>9, <1>11, <1>13, <1>14, <1>15, <1>16 DEF IndInv

LEMMA PauseInv ==
    ASSUME IndInv, Pause
    PROVE  IndInv'
<1>1. /\ storage \in Storage /\ storage' = SetActive(storage, FALSE)
      /\ UNCHANGED <<fixedByte, issued, given>>
  BY DEF IndInv, TypeOK, Pause
<1>2. /\ storage' \in Storage /\ storage'.active = FALSE
      /\ storage'.job = storage.job /\ storage'.prevJob = storage.prevJob
      /\ storage'.miners = storage.miners /\ storage'.used = storage.used
  BY <1>1, SetActiveType, SetActiveFields
<1>3. TypeOK'
  BY <1>1, <1>2 DEF IndInv, TypeOK
<1>4. MinersMatchSlots'
  BY <1>1, <1>2, ZenonT(60) DEF IndInv, MinersMatchSlots
<1>5. JobsIssued' /\ SlotExclusive'
  BY <1>1 DEF IndInv, JobsIssued, SlotExclusive
<1>6. ActiveHasNewestJob' /\ GivenSlotsMarked' /\ EveryoneHasJob'
  BY <1>2 DEF ActiveHasNewestJob, GivenSlotsMarked, EveryoneHasJob
<1>7. PrevJobSameSession'
  BY <1>2 DEF IndInv, PrevJobSameSession
<1> QED
  BY <1>3, <1>4, <1>5, <1>6, <1>7 DEF IndInv

(* Whoever empties the table leaves it inactive and without miners.        *)
LEMMA EmptiedInv ==
    ASSUME IndInv, UNCHANGED <<fixedByte, issued, given>>,
           storage' \in Storage, storage'.active = FALSE, storage'.miners = {},
           \A i \in Slots : storage'.used[i] = 0, PrevJobSameSession'
    PROVE  IndInv'
BY DEF IndInv, TypeOK, MinersMatchSlots, JobsIssued, ActiveHasNewestJob,
   GivenSlotsMarked, SlotExclusive, EveryoneHasJob

LEMMA SuspendInv ==
    ASSUME IndInv, Suspend
    PROVE  IndInv'
<1> DEFINE s == SetActive(storage, FALSE)
<1>1. /\ storage \in Storage /\ storage' = Reset(s) /\ ~IsUsed(storage)
      /\ UNCHANGED <<fixedByte, issued, given>>
  BY DEF IndInv, TypeOK, Suspend
<1>2. /\ s \in Storage /\ s.active = FALSE /\ s.miners = storage.miners
      /\ s.job = storage.job /\ s.prevJob = storage.prevJob
  BY <1>1, SetActiveType, SetActiveFields
<1> HIDE DEF s
<1>3. storage.miners = {}
  BY <1>1, UnusedHasNoMiner DEF IndInv
<1>4. PrevJobSameSession'
  BY <1>1, <1>2, ResetFields DEF IndInv, PrevJobSameSession
<1> QED
  BY <1>1, <1>2, <1>3, <1>4, ResetType, ResetFields, EmptiedInv, ZenonT(60)

LEMMA RenewInv ==
    ASSUME IndInv, Renew
    PROVE  IndInv'
<1>1. PICK i \in Slots : storage' = NewStorage(i)
  BY DEF Renew
<1>2. /\ storage'.active = FALSE /\ storage'.miners = {}
      /\ \A k \in Slots : storage'.used[k] = 0 /\ storage'.prevJob = NoJob
  BY <1>1 DEF NewStorage
<1>3. storage'.prevJob = NoJob
  BY <1>1 DEF NewStorage
<1> QED
  BY <1>1, <1>2, <1>3, NewStorageType, EmptiedInv DEF Renew, PrevJobSameSession

LEMMA NextInv ==
    ASSUME IndInv, [Next]_vars
    PROVE  IndInv'
<1>1. ASSUME NEW m \in MinerIds, AddMiner(m) PROVE IndInv'
  BY <1>1, AddMinerInv
<1>2. ASSUME NEW m \in MinerIds, RemoveMiner(m) PROVE IndInv'
  BY <1>2, RemoveMinerInv
<1>3. ASSUME NEW q \in Sessions, NewJob(q) PROVE IndInv'
  <2>1. storage.active \in BOOLEAN
    BY DEF IndInv, TypeOK, Storage
  <2> QED
    BY <1>3, <2>1, ReceiveInv DEF NewJob
<1>4. ASSUME NEW q \in Sessions, Activate(q) PROVE IndInv'
  BY <1>4, ReceiveInv DEF Activate
<1>5. CASE UNCHANGED vars
  BY <1>5 DEF vars, IndInv, TypeOK, MinersMatchSlots, JobsIssued,
     ActiveHasNewestJob, GivenSlotsMarked, SlotExclusive, EveryoneHasJob,
     PrevJobSameSession, Handed
<1> QED
  BY <1>1, <1>2, <1>3, <1>4, <1>5, PauseInv, SuspendInv, RenewInv DEF Next

-----------------------------------------------------------------------------
THEOREM InductiveInvariant == Spec => []IndInv
BY InitInv, NextInv, PTL DEF Spec

(* Every variable keeps its type: NonceStorage and its callers never write *)
(* a slot, byte or job outside the tables.                                 *)
THEOREM TypeCorrect == Spec => []TypeOK
BY InductiveInvariant, PTL DEF IndInv

(* The slot table and the id map agree for any number of slots and miners: *)
(* remove() frees the right slot and isUsed() sees every live miner.       *)
THEOREM SlotsMatch == Spec => []MinersMatchSlots
BY InductiveInvariant, PTL DEF IndInv

(* No nonce byte of a job is ever handed to two miners.                    *)
THEOREM Exclusive == Spec => []SlotExclusive
BY InductiveInvariant, PTL DEF IndInv

(* While the upstream is active every miner of it holds the current job.   *)
THEOREM JobDelivered == Spec => []EveryoneHasJob
BY InductiveInvariant, PTL DEF IndInv

(* The previous job is of the same session as the current one.             *)
THEOREM SameSession == Spec => []PrevJobSameSession
BY InductiveInvariant, PTL DEF IndInv

(* Every step adds leases of the newest job only, or none.                 *)
LEMMA GrantStep ==
    ASSUME IndInv, [Next]_vars
    PROVE  [Lease!Grant]_given
<1>1. SlotExclusive'
  BY NextInv DEF IndInv
<1>2. issued \in Nat /\ \A g \in given : g.job \in Nat /\ g.job <= issued
  BY DEF IndInv, TypeOK, JobsIssued, Leases
<1>3. ASSUME NEW m \in MinerIds, AddMiner(m) PROVE Lease!NewestJob(given, given')
                                                   /\ given \subseteq given'
  <2>1. CASE ~storage.active
    BY <1>3, <2>1 DEF AddMiner, Lease!NewestJob
  <2>2. CASE storage.active
    <3>1. storage.job.id = issued
      BY <2>2 DEF IndInv, ActiveHasNewestJob
    <3> QED
      BY <1>2, <1>3, <2>2, <3>1 DEF AddMiner, Lease!NewestJob, Handed
  <2> QED
    BY <2>1, <2>2
<1>4. ASSUME NEW q \in Sessions, NEW b \in BOOLEAN, Receive(q, b)
      PROVE  Lease!NewestJob(given, given') /\ given \subseteq given'
  <2> DEFINE j == [id |-> issued + 1, clientId |-> q]
  <2>1. /\ given' = given \union Handed(j, storage', Receivers(storage'))
        /\ j.id = issued + 1
    BY <1>4 DEF Receive
  <2> HIDE DEF j
  <2> QED
    BY <1>2, <2>1 DEF Lease!NewestJob, Handed
<1>5. storage.active \in BOOLEAN
  BY DEF IndInv, TypeOK, Storage
<1>6. CASE UNCHANGED given
  BY <1>6
<1>7. given \subseteq given' /\ Lease!NewestJob(given, given') => Lease!Grant
  BY <1>1 DEF Lease!Grant, Lease!Exclusive, SlotExclusive
<1> QED
  BY <1>3, <1>4, <1>5, <1>6, <1>7 DEF Next, vars, NewJob, Activate, RemoveMiner,
     Pause, Suspend, Renew

(* The storage implements the abstract promise to the pool.                *)
THEOREM ImplementsLease == Spec => LeaseSpec
<1>1. Init => Lease!Init
  BY DEF Init, Lease!Init
<1>2. IndInv /\ [Next]_vars => [Lease!Grant]_given
  BY GrantStep
<1> QED
  BY <1>1, <1>2, InductiveInvariant, PTL DEF Spec, LeaseSpec, Lease!Spec

-----------------------------------------------------------------------------
(* A non-empty set of slots has a first one in scan order.                 *)
LEMMA FirstInScanOrder ==
    ASSUME NEW s \in Storage, NEW T \in SUBSET Slots, T # {}
    PROVE  \E i \in T : \A k \in T : ScanPos(s, i) <= ScanPos(s, k)
<1> DEFINE P == {ScanPos(s, i) : i \in T}
<1>1. \A i \in Slots : ScanPos(s, i) \in Nat
  BY DEF ScanPos, Storage, Slots
<1>2. P \subseteq Nat /\ P # {}
  BY <1>1
<1> DEFINE Less == {p \in Nat \X Nat : p[1] < p[2]}
<1>w. IsWellFoundedOn(Less, Nat)
  BY NatLessThanWellFounded, Zenon DEF OpToRel
<1>3. PICK x \in P : \A y \in P : <<y, x>> \notin Less
  <2> HIDE DEF Less, P
  <2> QED
    BY <1>2, <1>w, WFMin
<1>4. \A y \in P : x <= y
  <2> HIDE DEF P
  <2> SUFFICES ASSUME NEW y \in P, y < x
               PROVE  FALSE
    BY <1>2
  <2>1. <<y, x>> \in Less
    BY <1>2
  <2> QED
    BY <1>3, <2>1
<1>5. PICK i \in T : x = ScanPos(s, i)
  OBVIOUS
<1> QED
  BY <1>4, <1>5

(* nextIndex() finds a slot whenever one is free.                          *)
THEOREM AlwaysFindsFree == Spec => []FreeSlotFound
<1>1. TypeOK => FreeSlotFound
  <2> SUFFICES ASSUME TypeOK, HasFree(storage)
               PROVE  \E i \in Slots : IsNextIndex(storage, i)
    BY DEF FreeSlotFound
  <2> DEFINE T == {i \in Slots : storage.used[i] = 0}
  <2>1. T \in SUBSET Slots /\ T # {} /\ storage \in Storage
    BY DEF HasFree, TypeOK
  <2>2. PICK i \in T : \A k \in T : ScanPos(storage, i) <= ScanPos(storage, k)
    BY <2>1, FirstInScanOrder
  <2> QED
    BY <2>2 DEF IsNextIndex
<1> QED
  BY <1>1, TypeCorrect, PTL

CONSTANTS PoolJobs, Pauses, MaxOld, Refusals, Silent, MaxShares, Origin
VARIABLES own, spare
Node == INSTANCE SelfSelect WITH MaxJobs <- PoolJobs, Retries <- Pauses, Faults <- Refusals, Silences <- Silent,
                                 Shares <- MaxShares, s <- own, left <- spare

---------------------------------------------------------------------------
(* The self-select client (SelfSelect).  That a template is offered for    *)
(* the job it was made for needs that the newest request is for the job in *)
(* hand; that an idle client is up, that it is given up only while it      *)
(* counts more failures than it may.                                       *)
JobNos   == 0 .. PoolJobs
Offers   == Seq(Node!Blobs)
Counted  == 0 .. Pauses + 2
OldOnes  == 0 .. MaxOld
Selfs    == [active : BOOLEAN, state : {"idle", "wait", "retry"}, failures : Counted,
             job : JobNos, blob : JobNos, ask : JobNos, old : OldOnes,
             block : {"none", "newest", "old"}, offers : Offers, handed : Node!Blobs, up : BOOLEAN]

OffersOfJob(r) == \A i \in DOMAIN r.offers : r.offers[i].job = r.offers[i].blob

NodeGood(r) ==
    /\ r \in Selfs
    /\ r.ask # 0 => r.ask = r.job
    /\ OffersOfJob(r)
    /\ r.active => r.up \/ r.failures > Pauses
    /\ r.active /\ r.state = "idle" => r.up

LEMMA NodeIdle ==
    ASSUME Node!SelfSelectAssumption, NEW r \in Selfs
    PROVE  /\ Node!Idle(r) \in Selfs /\ Node!Idle(r).state = "idle"
           /\ Node!Idle(r).active = r.active /\ Node!Idle(r).job = r.job /\ Node!Idle(r).blob = r.blob
           /\ Node!Idle(r).ask = r.ask /\ Node!Idle(r).old = r.old /\ Node!Idle(r).block = r.block
           /\ Node!Idle(r).offers = r.offers /\ Node!Idle(r).handed = r.handed /\ Node!Idle(r).up = r.up
<1>1. 0 \in Counted
  BY DEF Counted, Node!SelfSelectAssumption
<1> QED
  BY <1>1 DEF Selfs, Node!Idle

LEMMA NodeRetry ==
    ASSUME Node!SelfSelectAssumption, NEW r, NodeGood(r)
    PROVE  NodeGood(Node!Retry(r))
<1>1. \A n \in Counted : n \in Int /\ (n < Pauses + 2 => n + 1 \in Counted)
  BY DEF Counted, Node!SelfSelectAssumption
<1>2. Pauses \in Int
  BY DEF Node!SelfSelectAssumption
<1>3. Node!Retry(r) \in Selfs
  BY <1>1 DEF Selfs, NodeGood, Node!Retry
<1>4. /\ Node!Retry(r).ask = r.ask /\ Node!Retry(r).job = r.job /\ Node!Retry(r).offers = r.offers
      /\ Node!Retry(r).active = r.active /\ Node!Retry(r).state = "retry"
      /\ Node!Retry(r).failures >= r.failures
      /\ Node!Retry(r).up = r.up \/ r.failures > Pauses
  BY <1>1, <1>2 DEF Selfs, NodeGood, Node!Retry
<1>5. r.failures \in Int /\ Node!Retry(r).failures \in Int
  BY <1>1, <1>3 DEF Selfs, NodeGood
<1> QED
  BY <1>2, <1>3, <1>4, <1>5 DEF NodeGood, OffersOfJob

LEMMA NodeAsks ==
    ASSUME Node!SelfSelectAssumption, NEW r, NodeGood(r), r.old < MaxOld
    PROVE  /\ NodeGood(Node!GetBlockTemplate(r))
           /\ Node!GetBlockTemplate(r).job = r.job /\ Node!GetBlockTemplate(r).blob = r.blob
<1>1. \A n \in OldOnes : n < MaxOld => n + 1 \in OldOnes
  BY DEF OldOnes, Node!SelfSelectAssumption
<1>2. /\ Node!GetBlockTemplate(r) \in Selfs /\ Node!GetBlockTemplate(r).state = "wait"
      /\ Node!GetBlockTemplate(r).job = r.job /\ Node!GetBlockTemplate(r).blob = r.blob
      /\ Node!GetBlockTemplate(r).ask = r.job /\ Node!GetBlockTemplate(r).active = r.active
      /\ Node!GetBlockTemplate(r).up = r.up /\ Node!GetBlockTemplate(r).failures = r.failures
      /\ Node!GetBlockTemplate(r).offers = r.offers
  BY <1>1 DEF Selfs, NodeGood, Node!GetBlockTemplate
<1> QED
  BY <1>2 DEF NodeGood, OffersOfJob

LEMMA NodeJob ==
    ASSUME Node!SelfSelectAssumption, NEW r, NodeGood(r), r.old < MaxOld, r.job < PoolJobs
    PROVE  NodeGood(Node!WithJob(r))
<1> DEFINE d == [r EXCEPT !.job = @ + 1, !.blob = 0]
<1>1. 0 \in JobNos /\ \A n \in JobNos : n < PoolJobs => n + 1 \in JobNos
  BY DEF JobNos, Node!SelfSelectAssumption
<1>2. /\ d \in Selfs /\ d.offers = r.offers /\ d.active = r.active /\ d.up = r.up
      /\ d.failures = r.failures /\ d.state = r.state /\ d.ask = r.ask /\ d.old = r.old /\ d.block = r.block
      /\ d.handed = r.handed
  BY <1>1 DEF Selfs, NodeGood
<1>3. Node!WithJob(r) = Node!GetBlockTemplate(d)
  BY DEF Node!WithJob
<1> HIDE DEF d
<1>4. \A n \in OldOnes : n < MaxOld => n + 1 \in OldOnes
  BY DEF OldOnes, Node!SelfSelectAssumption
<1>5. /\ Node!GetBlockTemplate(d) \in Selfs /\ Node!GetBlockTemplate(d).state = "wait"
      /\ Node!GetBlockTemplate(d).job = d.job
      /\ Node!GetBlockTemplate(d).ask = d.job /\ Node!GetBlockTemplate(d).active = d.active
      /\ Node!GetBlockTemplate(d).up = d.up /\ Node!GetBlockTemplate(d).failures = d.failures
      /\ Node!GetBlockTemplate(d).offers = d.offers
  BY <1>2, <1>4 DEF Selfs, Node!GetBlockTemplate
<1> QED
  BY <1>2, <1>3, <1>5 DEF NodeGood, OffersOfJob

(* What is offered next is of the job in hand.                             *)
LEMMA NodeTemplate ==
    ASSUME Node!SelfSelectAssumption, NodeGood(own), Node!Template
    PROVE  NodeGood(own')
<1> DEFINE o == [job |-> own.job, blob |-> own.ask]
           q == IF own.active THEN Append(own.offers, o) ELSE own.offers
<1>1. own \in Selfs /\ own.ask = own.job /\ OffersOfJob(own)
  BY DEF NodeGood, Node!Template
<1>2. o \in Node!Blobs /\ o.job = o.blob /\ 0 \in JobNos
  BY <1>1 DEF Selfs, JobNos, Node!Blobs, Node!SelfSelectAssumption
<1>3. own.offers \in Seq(Node!Blobs)
  BY <1>1 DEF Selfs, Offers
<1>4. own' = [own EXCEPT !.ask = 0, !.blob = own.ask, !.offers = q]
  BY DEF Node!Template
<1> HIDE DEF o
<1>5. q \in Seq(Node!Blobs) /\ \A i \in DOMAIN q : q[i].job = q[i].blob
  BY <1>1, <1>2, <1>3 DEF OffersOfJob
<1> HIDE DEF q
<1>6. q \in Offers
  BY <1>5 DEF Offers
<1>7. /\ own' \in Selfs /\ own'.offers = q /\ own'.ask = 0 /\ own'.active = own.active /\ own'.state = own.state
      /\ own'.failures = own.failures /\ own'.up = own.up
  BY <1>1, <1>2, <1>4, <1>6 DEF Selfs
<1> QED
  BY <1>5, <1>7 DEF NodeGood, OffersOfJob

LEMMA OffersLess ==
    ASSUME NEW q \in Offers, q # <<>>, \A i \in DOMAIN q : q[i].job = q[i].blob
    PROVE  Tail(q) \in Offers /\ \A i \in DOMAIN Tail(q) : Tail(q)[i].job = Tail(q)[i].blob
<1>1. q \in Seq(Node!Blobs)
  BY DEF Offers
<1>2. Tail(q) \in Seq(Node!Blobs) /\ Len(q) \in Nat /\ Len(Tail(q)) = Len(q) - 1 /\ DOMAIN q = 1 .. Len(q)
      /\ DOMAIN Tail(q) = 1 .. Len(Tail(q))
  BY <1>1
<1>3. \A i \in 1 .. Len(Tail(q)) : Tail(q)[i] = q[i + 1] /\ i + 1 \in DOMAIN q
  BY <1>1, <1>2
<1> QED
  BY <1>2, <1>3 DEF Offers

LEMMA NodeOffered ==
    ASSUME Node!SelfSelectAssumption, NodeGood(own), Node!Offered
    PROVE  NodeGood(own')
<1> DEFINE q == Tail(own.offers)
           d == [own EXCEPT !.offers = q]
<1>1. own \in Selfs /\ own.offers \in Offers /\ own.offers # <<>> /\ OffersOfJob(own)
  BY DEF NodeGood, Node!Offered, Selfs
<1>2. q \in Offers /\ \A i \in DOMAIN q : q[i].job = q[i].blob
  BY <1>1, OffersLess DEF OffersOfJob
<1> HIDE DEF q
<1>3. /\ d \in Selfs /\ d.offers = q /\ d.active = own.active /\ d.up = own.up /\ d.ask = own.ask /\ d.job = own.job
      /\ d.failures = own.failures /\ d.state = own.state /\ d.blob = own.blob
  BY <1>1, <1>2 DEF Selfs
<1>4. NodeGood(d)
  BY <1>2, <1>3 DEF NodeGood, OffersOfJob
<1>5. own' = Node!Taken(own) \/ own' = Node!Retry(d)
  BY DEF Node!Offered, q
<1> HIDE DEF d
<1>6. CASE own' = Node!Retry(d)
  BY <1>4, <1>6, NodeRetry
<1>7. CASE own' = Node!Taken(own) /\ ~own.active
  <2>1. own' = d
    BY <1>7 DEF Node!Taken, d, q
  <2> QED
    BY <1>4, <2>1
<1>8. CASE own' = Node!Taken(own) /\ own.active
  <2> DEFINE e == Node!Idle(d)
             o == [job |-> own.job, blob |-> own.blob]
             x == e.up \/ own.failures > Pauses
  <2>1. own' = [e EXCEPT !.up = @ \/ own.failures > Pauses, !.handed = o]
    BY <1>8 DEF Node!Taken, d, q
  <2>2. e \in Selfs /\ e.state = "idle" /\ e.ask = d.ask /\ e.job = d.job /\ e.offers = d.offers /\ e.up = d.up
    BY <1>3, NodeIdle
  <2>3. o \in Node!Blobs
    BY <1>1 DEF Selfs, JobNos, Node!Blobs
  <2>4. e.up \/ own.failures > Pauses
    BY <1>3, <1>8, <2>2 DEF NodeGood
  <2> HIDE DEF o, e
  <2>5. own' = [e EXCEPT !.up = TRUE, !.handed = o]
    BY <2>1, <2>2, <2>4 DEF Selfs
  <2>6. own' \in Selfs /\ own'.up /\ own'.ask = e.ask /\ own'.job = e.job /\ own'.offers = e.offers
    BY <2>2, <2>3, <2>5 DEF Selfs
  <2> QED
    BY <1>3, <1>4, <2>2, <2>6 DEF NodeGood, OffersOfJob
<1> QED
  BY <1>5, <1>6, <1>7, <1>8

LEMMA NodeInit ==
    ASSUME Node!SelfSelectAssumption, Node!Init
    PROVE  NodeGood(own)
<1>1. 0 \in JobNos /\ 0 \in Counted /\ 0 \in OldOnes /\ [job |-> 0, blob |-> 0] \in Node!Blobs
  BY DEF JobNos, Counted, OldOnes, Node!Blobs, Node!SelfSelectAssumption
<1>2. <<>> \in Offers /\ DOMAIN <<>> = {}
  BY DEF Offers
<1> QED
  BY <1>1, <1>2 DEF Node!Init, NodeGood, OffersOfJob, Selfs

LEMMA NodeNext ==
    ASSUME Node!SelfSelectAssumption, NodeGood(own), [Node!Next]_Node!vars
    PROVE  NodeGood(own')
<1>0. own \in Selfs /\ own.old \in OldOnes /\ own.job \in JobNos
  BY DEF NodeGood, Selfs
<1>1. \A n \in OldOnes : n > 0 => n - 1 \in OldOnes
  BY DEF OldOnes, Node!SelfSelectAssumption
<1>2. 0 \in JobNos
  BY DEF JobNos, Node!SelfSelectAssumption
<1> DEFINE f == [own EXCEPT !.ask = 0]
           g == [own EXCEPT !.old = @ - 1]
           h == [own EXCEPT !.block = "none"]
<1>3. NodeGood(f) /\ NodeGood(h)
  BY <1>2 DEF NodeGood, Selfs, OffersOfJob
<1>4. own.old > 0 => NodeGood(g)
  BY <1>0, <1>1 DEF NodeGood, Selfs, OffersOfJob
<1>5. CASE Node!Login
  <2> DEFINE i == Node!Idle(own)
             d == [i EXCEPT !.active = TRUE, !.up = TRUE]
  <2>1. own' = Node!WithJob(d) /\ own.old < MaxOld /\ own.job < PoolJobs
    BY <1>5 DEF Node!Login, Node!RoomToAsk
  <2>2. i \in Selfs /\ i.job = own.job /\ i.ask = own.ask /\ i.old = own.old /\ i.offers = own.offers
    BY <1>0, NodeIdle
  <2> HIDE DEF i
  <2>3. d \in Selfs /\ d.up /\ d.job = i.job /\ d.ask = i.ask /\ d.old = i.old /\ d.offers = i.offers
    BY <2>2 DEF Selfs
  <2> HIDE DEF d
  <2>4. NodeGood(d)
    BY <1>4, <2>2, <2>3 DEF NodeGood, OffersOfJob
  <2> QED
    BY <2>1, <2>2, <2>3, <2>4, NodeJob
<1>6. CASE Node!Close
  <2> DEFINE i == Node!Idle(own)
  <2>1. own' = [i EXCEPT !.active = FALSE, !.up = FALSE, !.offers = <<>>]
    BY <1>6 DEF Node!Close
  <2>2. i \in Selfs /\ i.ask = own.ask /\ i.job = own.job
    BY <1>0, NodeIdle
  <2>3. <<>> \in Offers /\ DOMAIN <<>> = {}
    BY DEF Offers
  <2> HIDE DEF i
  <2>4. own' \in Selfs /\ own'.ask = i.ask /\ own'.job = i.job /\ ~own'.active /\ own'.offers = <<>>
    BY <2>1, <2>2, <2>3 DEF Selfs
  <2> QED
    BY <2>2, <2>3, <2>4 DEF NodeGood, OffersOfJob
<1>7. CASE Node!Job
  BY <1>7, NodeJob DEF Node!Job, Node!RoomToAsk
<1>8. CASE Node!OldIgnored
  BY <1>4, <1>8 DEF Node!OldIgnored
<1>9. CASE Node!Template
  BY <1>9, NodeTemplate
<1>10. CASE Node!TemplateFailed
  <2>1. own' = Node!Retry(f) \/ (own.old > 0 /\ own' = Node!Retry(g))
    BY <1>10 DEF Node!TemplateFailed
  <2> HIDE DEF f, g
  <2> QED
    BY <1>3, <1>4, <2>1, NodeRetry
<1>11. CASE Node!Silent
  BY <1>3, <1>4, <1>11 DEF Node!Silent
<1>12. CASE Node!BlockAnswer
  <2>1. own' = Node!Retry(h) \/ own' = h
    BY <1>12 DEF Node!BlockAnswer
  <2> HIDE DEF h
  <2> QED
    BY <1>3, <2>1, NodeRetry
<1>13. CASE Node!Offered
  BY <1>13, NodeOffered
<1>14. CASE Node!Tick
  BY <1>14, NodeAsks DEF Node!Tick, Node!RoomToAsk
<1>15. CASE Node!Submit
  <2> DEFINE d == Node!GetBlockTemplate(own)
  <2>1. NodeGood(d)
    BY <1>15, NodeAsks DEF Node!Submit, Node!RoomToAsk
  <2>2. own' = d \/ own' = [d EXCEPT !.block = "newest"]
    BY <1>15 DEF Node!Submit
  <2> HIDE DEF d
  <2> QED
    BY <2>1, <2>2 DEF NodeGood, Selfs, OffersOfJob
<1>16. CASE UNCHANGED Node!vars
  BY <1>16 DEF Node!vars
<1> QED
  BY <1>5, <1>6, <1>7, <1>8, <1>9, <1>10, <1>11, <1>12, <1>13, <1>14, <1>15, <1>16 DEF Node!Next

LEMMA NodeHolds ==
    ASSUME NodeGood(own)
    PROVE  Node!TypeOK /\ Node!TemplateOfJob /\ Node!IdleIsUp
BY DEF NodeGood, OffersOfJob, Selfs, JobNos, Offers, Counted, OldOnes, Node!TypeOK, Node!TemplateOfJob, Node!IdleIsUp

(* A template is offered for the job whose extra nonce it was asked with,  *)
(* however late it comes, and a client that waits for nothing is one its   *)
(* owner counts on.                                                        *)
THEOREM NodeSound ==
    ASSUME Node!SelfSelectAssumption
    PROVE  Node!Spec => [](Node!TypeOK /\ Node!TemplateOfJob /\ Node!IdleIsUp)
<1>1. Node!Init => NodeGood(own)
  BY NodeInit
<1>2. NodeGood(own) /\ [Node!Next]_Node!vars => NodeGood(own')
  BY NodeNext
<1>3. NodeGood(own) => Node!TypeOK /\ Node!TemplateOfJob /\ Node!IdleIsUp
  BY NodeHolds
<1> DEFINE I == NodeGood(own)
<1>4. I /\ [Node!Next]_Node!vars => I'
  BY <1>2
<1> QED
  BY <1>1, <1>3, <1>4, PTL DEF Node!Spec

CONSTANTS Ids, Rebinds, DnsFails, Peers
VARIABLES ctx, owners, rebinds, touched
Web == INSTANCE HttpExchange

---------------------------------------------------------------------------
(* Requests over HTTP (HttpExchange).  Every property is of one context,   *)
(* and what is needed of it is where it stands: what was heard of is out   *)
(* of the table or listens no more, what is open is in the table.          *)
Contexts == [kind : {"none", "client", "server"}, stage : Web!Stages,
             handle : {"none", "open", "closing", "freed"}, stored : BOOLEAN,
             listens : BOOLEAN, heard : {0, 1, 2}, by : {"none", "net", "reply", "sweep"},
             peer : {"plain", "trusted", "wrong"}, sent : Nat]

Heard(x)     == x.heard \in {0, 1} /\ (x.heard = 1 => ~x.listens \/ ~x.stored)
Forgotten(x) == /\ x.handle = "open" => x.stored
                /\ x.handle \in {"closing", "freed"} /\ x.by # "sweep" => ~x.stored
ByReply(x)   == x.by = "reply" => x.kind = "server" /\ x.stage = "replied" /\ x.handle # "open"
Written(x)   == /\ x.sent \in {0, 1}
                /\ x.stage \in {"new", "resolve", "connect", "hello"} => x.sent = 0
                /\ x.peer = "wrong" => x.sent = 0
                /\ x.kind = "client" /\ x.stage \in {"open", "replied"} => x.sent = 1

ContextGood(x) == x \in Contexts /\ Heard(x) /\ Forgotten(x) /\ ByReply(x) /\ Written(x)

WebInv == /\ ctx = [i \in Ids |-> ctx[i]] /\ \A i \in Ids : ContextGood(ctx[i])
          /\ owners \subseteq Ids /\ rebinds \in 0 .. Rebinds /\ touched \in BOOLEAN

LEMMA WebTells ==
    ASSUME NEW x \in Contexts, NEW i, Heard(x), x.stored
    PROVE  /\ Web!Tell(x, i) \in Contexts /\ Web!Tell(x, i).heard \in {0, 1}
           /\ Web!Tell(x, i).kind = x.kind /\ Web!Tell(x, i).stage = x.stage /\ Web!Tell(x, i).handle = x.handle
           /\ Web!Tell(x, i).stored = x.stored /\ Web!Tell(x, i).listens = x.listens
           /\ Web!Tell(x, i).by = x.by /\ Web!Tell(x, i).peer = x.peer /\ Web!Tell(x, i).sent = x.sent
<1>1. Web!Tell(x, i) = [x EXCEPT !.heard = @ + 1] \/ Web!Tell(x, i) = [x EXCEPT !.heard = @ + 0]
  BY DEF Web!Tell
<1>2. x.heard \in {0, 1} /\ (x.heard = 1 => ~x.listens)
  BY DEF Heard
<1>3. Web!Tell(x, i) = [x EXCEPT !.heard = 1] \/ Web!Tell(x, i) = x
  <2>1. x.heard + 0 = x.heard /\ (x.heard = 0 => x.heard + 1 = 1)
    BY <1>2
  <2>2. CASE Web!Tell(x, i) = [x EXCEPT !.heard = @ + 0]
    BY <2>1, <2>2 DEF Contexts
  <2>3. CASE x.heard = 0
    BY <1>1, <2>1, <2>2, <2>3
  <2>4. CASE x.heard = 1
    <3>1. Web!Tell(x, i) = [x EXCEPT !.heard = @ + 0]
      BY <1>2, <2>4 DEF Web!Tell
    <3> QED
      BY <2>2, <3>1
  <2> QED
    BY <1>2, <2>3, <2>4
<1> QED
  BY <1>2, <1>3, ZenonT(60) DEF Contexts

(* A context whose handle is closed, for whatever reason but a reply.      *)
LEMMA WebCloses ==
    ASSUME NEW x, NEW i, NEW failed \in BOOLEAN, ContextGood(x)
    PROVE  ContextGood(Web!Closed(x, i, failed, "net"))
<1> DEFINE t == IF failed THEN Web!Tell(x, i) ELSE x
           y == Web!Closed(x, i, failed, "net")
<1>1. CASE ~x.stored
  BY <1>1 DEF Web!Closed
<1>2. CASE x.stored
  <2>1. /\ t \in Contexts /\ t.heard \in {0, 1}
        /\ t.kind = x.kind /\ t.stage = x.stage /\ t.handle = x.handle
        /\ t.listens = x.listens /\ t.by = x.by /\ t.peer = x.peer /\ t.sent = x.sent
    BY <1>2, WebTells DEF ContextGood, Heard
  <2>2. y = [t EXCEPT !.stored = FALSE, !.handle = "closing", !.by = IF x.handle = "closing" THEN @ ELSE "net"]
    BY <1>2 DEF Web!Closed
  <2> HIDE DEF t
  <2>3. /\ y \in Contexts /\ y.heard = t.heard /\ ~y.stored /\ y.handle = "closing"
        /\ y.kind = x.kind /\ y.stage = x.stage /\ y.peer = x.peer /\ y.sent = x.sent
        /\ y.by = "net" \/ y.by = x.by
    BY <2>1, <2>2, ZenonT(60) DEF Contexts
  <2> HIDE DEF y
  <2>4. Heard(y) /\ Forgotten(y) /\ ByReply(y) /\ Written(y)
    BY <2>1, <2>3 DEF ContextGood, Heard, Forgotten, ByReply, Written
  <2> QED
    BY <2>3, <2>4 DEF ContextGood, y
<1> QED
  BY <1>1, <1>2 DEF ContextGood, Contexts

LEMMA WebSweeps ==
    ASSUME NEW x, ContextGood(x)
    PROVE  /\ ContextGood(Web!SweptCtx(x)) /\ Web!SweptCtx(x).kind = x.kind /\ Web!SweptCtx(x).stage = x.stage
           /\ Web!SweptCtx(x).stored = x.stored /\ Web!SweptCtx(x).handle # "open"
           /\ x.handle = "open" => Web!SweptCtx(x).by = "sweep" /\ Web!SweptCtx(x).handle = "closing"
<1> DEFINE y == [x EXCEPT !.handle = "closing", !.by = "sweep"]
<1>1. x \in Contexts
  BY DEF ContextGood
<1>2. /\ y \in Contexts /\ y.handle = "closing" /\ y.by = "sweep" /\ y.kind = x.kind /\ y.stage = x.stage
      /\ y.stored = x.stored /\ y.listens = x.listens /\ y.heard = x.heard /\ y.peer = x.peer /\ y.sent = x.sent
  BY <1>1 DEF Contexts
<1>3. Web!SweptCtx(x) = IF x.stored /\ x.handle = "open" THEN y ELSE x
  BY DEF Web!SweptCtx
<1> HIDE DEF y
<1>4. ContextGood(y)
  BY <1>1, <1>2 DEF ContextGood, Heard, Forgotten, ByReply, Written
<1>5. x.handle = "open" => x.stored
  BY DEF ContextGood, Forgotten
<1> QED
  BY <1>2, <1>3, <1>4, <1>5

LEMMA WebSends ==
    ASSUME NEW x, ContextGood(x), x.kind = "client", x.handle = "open",
           x.stage = "connect" \/ (x.stage = "hello" /\ x.peer = "trusted")
    PROVE  /\ x.peer # "wrong" => ContextGood(Web!Send(x))
           /\ x.stage = "connect" => ContextGood(Web!Greet(x))
<1>1. x \in Contexts /\ x.sent = 0 /\ 0 + 1 = 1
  BY DEF ContextGood, Written
<1>2. Web!Send(x) = [x EXCEPT !.stage = "open", !.sent = 1]
  BY <1>1 DEF Web!Send
<1>3. "open" \in Web!Stages /\ "hello" \in Web!Stages /\ 1 \in Nat
  BY DEF Web!Stages
<1> DEFINE y == [x EXCEPT !.stage = "open", !.sent = 1]
           z == [x EXCEPT !.stage = "hello"]
<1>4. /\ y \in Contexts /\ y.stage = "open" /\ y.sent = 1 /\ y.kind = x.kind /\ y.handle = x.handle /\ y.by = x.by
      /\ y.stored = x.stored /\ y.listens = x.listens /\ y.heard = x.heard /\ y.peer = x.peer
  BY <1>1, <1>3 DEF Contexts
<1>5. /\ z \in Contexts /\ z.stage = "hello" /\ z.sent = x.sent /\ z.kind = x.kind /\ z.handle = x.handle /\ z.by = x.by
      /\ z.stored = x.stored /\ z.listens = x.listens /\ z.heard = x.heard /\ z.peer = x.peer
  BY <1>1, <1>3 DEF Contexts
<1>6. Web!Greet(x) = IF x.peer = "plain" THEN Web!Send(x) ELSE z
  BY DEF Web!Greet
<1> HIDE DEF y, z
<1>7. x.peer # "wrong" => ContextGood(y)
  BY <1>1, <1>4 DEF ContextGood, Heard, Forgotten, ByReply, Written
<1>8. x.stage = "connect" => ContextGood(z)
  BY <1>1, <1>5 DEF ContextGood, Heard, Forgotten, ByReply, Written
<1>9. Web!Send(x) = y
  BY <1>2 DEF y
<1> QED
  BY <1>6, <1>7, <1>8, <1>9

(* What one context becomes where the others stay.                         *)
LEMMA WebSet ==
    ASSUME WebInv, NEW i \in Ids, NEW x, ContextGood(x), Web!Set(i, x),
           owners' \subseteq Ids, rebinds' \in 0 .. Rebinds, touched' \in BOOLEAN
    PROVE  WebInv'
BY DEF WebInv, Web!Set

LEMMA WebMakes ==
    ASSUME WebInv, NEW i \in Ids, NEW peer \in {"plain", "trusted", "wrong"},
           Web!Make(i, "client", "resolve", peer) \/ (peer = "plain" /\ Web!Make(i, "server", "open", peer)),
           owners' \subseteq Ids, rebinds' \in 0 .. Rebinds, touched' \in BOOLEAN
    PROVE  WebInv'
<1> DEFINE x(kind, stage) == [Web!New EXCEPT !.kind = kind, !.stage = stage, !.handle = "open",
                                             !.stored = TRUE, !.listens = TRUE, !.peer = peer]
<1>1. Web!Set(i, x("client", "resolve")) \/ (peer = "plain" /\ Web!Set(i, x("server", "open")))
  BY DEF Web!Make, Web!Set
<1>2. ASSUME NEW kind \in {"client", "server"}, NEW stage \in {"resolve", "open"},
             stage = "open" => kind = "server" /\ peer = "plain"
      PROVE  ContextGood(x(kind, stage))
  <2> DEFINE y == x(kind, stage)
  <2>1. /\ y.kind = kind /\ y.stage = stage /\ y.handle = "open" /\ y.stored = TRUE /\ y.listens = TRUE
        /\ y.peer = peer /\ y.heard = 0 /\ y.by = "none" /\ y.sent = 0
    BY DEF Web!New
  <2>2. stage \in Web!Stages /\ "new" \in Web!Stages
    BY DEF Web!Stages
  <2>3. Web!New \in Contexts
    BY <2>2 DEF Contexts, Web!New
  <2>4. y \in Contexts
    BY <2>2, <2>3 DEF Contexts
  <2> HIDE DEF y
  <2>5. ContextGood(y)
    BY <1>2, <2>1, <2>4 DEF ContextGood, Heard, Forgotten, ByReply, Written
  <2> QED
    BY <2>5 DEF y
<1>3. ContextGood(x("client", "resolve")) /\ (peer = "plain" => ContextGood(x("server", "open")))
  BY <1>2
<1> HIDE DEF x
<1> QED
  BY <1>1, <1>3, WebSet

LEMMA WebInit ==
    ASSUME Web!HttpAssumption, Web!Init
    PROVE  WebInv
<1>1. ContextGood(Web!New)
  BY DEF ContextGood, Contexts, Web!New, Web!Stages, Heard, Forgotten, ByReply, Written
<1>2. ctx = [i \in Ids |-> ctx[i]] /\ \A i \in Ids : ContextGood(ctx[i])
  BY <1>1 DEF Web!Init
<1>3. rebinds \in 0 .. Rebinds
  BY DEF Web!HttpAssumption, Web!Init
<1> QED
  BY <1>2, <1>3 DEF Web!Init, WebInv

(* A stage is all that changes.                                            *)
LEMMA WebStage ==
    ASSUME NEW x, ContextGood(x), NEW stage \in {"connect", "lost", "nohost", "replied"},
           stage = "connect" => x.stage = "resolve",
           stage = "replied" => x.kind = "server" /\ x.stage = "asked", x.by # "reply"
    PROVE  ContextGood([x EXCEPT !.stage = stage])
<1> DEFINE y == [x EXCEPT !.stage = stage]
<1>1. x \in Contexts /\ stage \in Web!Stages
  BY DEF ContextGood, Web!Stages
<1>2. /\ y \in Contexts /\ y.stage = stage /\ y.sent = x.sent /\ y.kind = x.kind /\ y.handle = x.handle /\ y.by = x.by
      /\ y.stored = x.stored /\ y.listens = x.listens /\ y.heard = x.heard /\ y.peer = x.peer
  BY <1>1 DEF Contexts
<1> HIDE DEF y
<1>3. ContextGood(y)
  BY <1>2 DEF ContextGood, Heard, Forgotten, ByReply, Written
<1> QED
  BY <1>3 DEF y

(* A message that is complete: its listener hears of it and then no more.  *)
LEMMA WebComplete ==
    ASSUME NEW x, ContextGood(x), NEW i, NEW y, NEW stage \in {"replied", "asked", "lost"}, x.handle = "open",
           x.stage = "open", stage = "replied" => x.kind = "client", stage # "replied" => x.kind = "server",
           y = [Web!Tell(x, i) EXCEPT !.listens = FALSE, !.stage = stage]
    PROVE  ContextGood(y)
<1> DEFINE t == Web!Tell(x, i)
<1>1. x \in Contexts /\ Heard(x) /\ x.stored /\ stage \in Web!Stages
  BY DEF ContextGood, Forgotten, Web!Stages
<1>2. /\ t \in Contexts /\ t.heard \in {0, 1}
      /\ t.kind = x.kind /\ t.handle = x.handle /\ t.stored = x.stored /\ t.by = x.by /\ t.peer = x.peer /\ t.sent = x.sent
  BY <1>1, WebTells, ZenonT(60)
<1>3. y = [t EXCEPT !.listens = FALSE, !.stage = stage]
  OBVIOUS
<1> HIDE DEF t
<1>4. /\ y \in Contexts /\ y.stage = stage /\ y.sent = t.sent /\ y.kind = t.kind /\ y.handle = t.handle /\ y.by = t.by
      /\ y.stored = t.stored /\ y.listens = FALSE /\ y.heard = t.heard /\ y.peer = t.peer
  <2>1. t \in Contexts /\ stage \in Web!Stages
    BY <1>1, <1>2
  <2> QED
    BY ONLY <1>3, <2>1 DEF Contexts
<1> QED
  BY <1>2, <1>4 DEF ContextGood, Heard, Forgotten, ByReply, Written

LEMMA WebSwept ==
    ASSUME WebInv
    PROVE  /\ Web!Swept = [i \in Ids |-> Web!Swept[i]]
           /\ \A i \in Ids : Web!Swept[i] = Web!SweptCtx(ctx[i]) /\ ContextGood(Web!Swept[i])
           /\ Web!Stale \in BOOLEAN
<1>1. \A i \in Ids : Web!Swept[i] = Web!SweptCtx(ctx[i])
  BY DEF Web!Swept
<1>2. \A i \in Ids : ContextGood(Web!SweptCtx(ctx[i]))
  BY WebSweeps DEF WebInv
<1>3. Web!Swept = [i \in Ids |-> Web!Swept[i]] /\ Web!Stale \in BOOLEAN
  BY DEF Web!Swept, Web!Stale
<1> QED
  BY <1>1, <1>2, <1>3

LEMMA WebMoves ==
    ASSUME Web!HttpAssumption, WebInv, NEW i \in Ids, Web!OnMove(i)
    PROVE  WebInv'
<1> DEFINE x == ctx[i]
           w == Web!SweptCtx(x)
           y == [Web!Tell(w, i) EXCEPT !.listens = FALSE, !.stage = "lost"]
           t == Web!Tell(w, i)
<1>1. ContextGood(x) /\ x.kind = "server" /\ x.stage = "open" /\ x.handle = "open"
  BY DEF WebInv, Web!OnMove, Web!Open, Web!Is
<1>2. /\ ContextGood(w) /\ w.kind = "server" /\ w.stage = "open" /\ w.stored /\ w.by = "sweep" /\ w.handle = "closing"
  BY <1>1, WebSweeps DEF ContextGood, Forgotten
<1>3. ctx' = [Web!Swept EXCEPT ![i] = y]
  BY WebSwept DEF Web!OnMove
<1> HIDE DEF x, w
<1>4. w \in Contexts /\ Heard(w) /\ "lost" \in Web!Stages
  BY <1>2 DEF ContextGood, Web!Stages
<1>5. /\ t \in Contexts /\ t.heard \in {0, 1}
      /\ t.kind = w.kind /\ t.handle = w.handle /\ t.stored = w.stored /\ t.by = w.by /\ t.peer = w.peer /\ t.sent = w.sent
  BY <1>2, <1>4, WebTells
<1> HIDE DEF t
<1>6. y = [t EXCEPT !.listens = FALSE, !.stage = "lost"]
  BY DEF t
<1>7. /\ y \in Contexts /\ y.stage = "lost" /\ y.sent = t.sent /\ y.kind = t.kind /\ y.handle = t.handle /\ y.by = t.by
      /\ y.stored = t.stored /\ y.listens = FALSE /\ y.heard = t.heard /\ y.peer = t.peer
  <2>1. t \in Contexts /\ "lost" \in Web!Stages
    BY <1>4, <1>5
  <2> QED
    BY ONLY <1>6, <2>1 DEF Contexts
<1> HIDE DEF y
<1>8. ContextGood(y)
  BY <1>2, <1>5, <1>7 DEF ContextGood, Heard, Forgotten, ByReply, Written
<1>9. ctx' = [j \in Ids |-> ctx'[j]] /\ \A j \in Ids : ContextGood(ctx'[j])
  BY <1>3, <1>8, WebSwept
<1>10. owners' \subseteq Ids /\ rebinds' \in 0 .. Rebinds /\ touched' \in BOOLEAN
  BY WebSwept DEF Web!OnMove, WebInv, Web!HttpAssumption
<1> QED
  BY <1>9, <1>10 DEF WebInv

LEMMA WebReplies ==
    ASSUME NEW x, ContextGood(x), NEW i, x.kind = "server", x.stage = "asked"
    PROVE  ContextGood(Web!Closed([x EXCEPT !.stage = "replied"], i, FALSE, "reply"))
<1> DEFINE r == [x EXCEPT !.stage = "replied"]
           y == Web!Closed(r, i, FALSE, "reply")
<1>1. x.by # "reply"
  BY DEF ContextGood, ByReply
<1>2. ContextGood(r)
  BY <1>1, WebStage
<1>3. r.kind = "server" /\ r.stage = "replied" /\ r \in Contexts
  BY <1>2 DEF ContextGood, Contexts
<1>4. ~r.stored => y = r
  BY DEF Web!Closed
<1>5. r.stored => y = [r EXCEPT !.stored = FALSE, !.handle = "closing",
                                !.by = IF r.handle = "closing" THEN @ ELSE "reply"]
  BY DEF Web!Closed
<1> HIDE DEF r, y
<1>6. ASSUME r.stored PROVE ContextGood(y)
  <2>1. /\ y \in Contexts /\ y.heard = r.heard /\ ~y.stored /\ y.handle = "closing"
        /\ y.kind = r.kind /\ y.stage = r.stage /\ y.peer = r.peer /\ y.sent = r.sent
    BY <1>3, <1>5, <1>6, ZenonT(60) DEF Contexts
  <2> QED
    BY <1>2, <1>3, <2>1 DEF ContextGood, Heard, Forgotten, ByReply, Written
<1> QED
  BY <1>2, <1>4, <1>6 DEF r, y

LEMMA WebNext ==
    ASSUME Web!HttpAssumption, WebInv, [Web!Next]_Web!vars
    PROVE  WebInv'
<1>0. /\ owners \subseteq Ids /\ rebinds \in 0 .. Rebinds /\ touched \in BOOLEAN
      /\ \A i \in Ids : ContextGood(ctx[i])
  BY DEF WebInv
<1>1. CASE UNCHANGED Web!vars
  BY <1>1 DEF Web!vars, WebInv
<1>2. CASE Web!Rebind
  <2>1. ctx' = Web!Swept /\ owners' = owners /\ rebinds' \in 0 .. Rebinds /\ touched' \in BOOLEAN
    BY <1>0, <1>2, WebSwept DEF Web!Rebind, Web!HttpAssumption
  <2> QED
    BY <1>0, <2>1, WebSwept DEF WebInv
<1>3. ASSUME NEW i \in Ids, Web!OnMove(i) PROVE WebInv'
  BY <1>3, WebMoves
<1>4. ASSUME NEW i \in Ids, Web!Fetch(i) \/ Web!OnConnection(i) PROVE WebInv'
  <2>1. /\ \/ \E peer \in Peers : Web!Make(i, "client", "resolve", peer)
           \/ Web!Make(i, "server", "open", "plain")
        /\ owners' \subseteq Ids /\ rebinds' = rebinds /\ touched' = touched
    BY <1>0, <1>4 DEF Web!Fetch, Web!OnConnection
  <2>2. Peers \subseteq {"plain", "trusted", "wrong"}
    BY DEF Web!HttpAssumption
  <2> QED
    BY <1>0, <2>1, <2>2, WebMakes
<1>5. ASSUME NEW i \in Ids, Web!OwnerGone(i) PROVE WebInv'
  BY <1>5 DEF Web!OwnerGone, WebInv
<1>6. ASSUME NEW i \in Ids,
             \/ Web!OnResolved(i) \/ Web!OnConnect(i) \/ Web!OnHello(i) \/ Web!OnAnswer(i) \/ Web!OnEnd(i)
             \/ Web!OnRequest(i) \/ Web!Written(i) \/ Web!PeerGone(i) \/ Web!Free(i)
      PROVE  WebInv'
  <2>0. /\ owners' \subseteq Ids /\ rebinds' \in 0 .. Rebinds /\ touched' \in BOOLEAN
        /\ ContextGood(ctx[i])
    BY <1>0, <1>6 DEF Web!OnResolved, Web!OnConnect, Web!OnHello, Web!OnAnswer, Web!OnEnd, Web!OnRequest,
                      Web!Written, Web!PeerGone, Web!Free
  <2>1. SUFFICES \E x : ContextGood(x) /\ Web!Set(i, x)
    BY <2>0, WebSet
  <2>2. CASE Web!OnResolved(i)
    <3>1. \E stage \in {"connect", "lost", "nohost"} : Web!Set(i, [ctx[i] EXCEPT !.stage = stage])
      BY <2>2 DEF Web!OnResolved, Web!Stage
    <3>2. ctx[i].stage = "resolve"
      BY <2>2 DEF Web!OnResolved, Web!Is
    <3>3. ctx[i].by # "reply"
      BY <2>0, <3>2 DEF ContextGood, ByReply
    <3>4. \A stage \in {"connect", "lost", "nohost"} : ContextGood([ctx[i] EXCEPT !.stage = stage])
      BY <2>0, <3>2, <3>3, WebStage
    <3> QED
      BY <3>1, <3>4
  <2>3. CASE Web!OnConnect(i)
    <3>1. ctx[i].kind = "client" /\ ctx[i].stage = "connect"
      BY <2>3 DEF Web!OnConnect, Web!Is
    <3>2. CASE ctx[i].handle = "open" /\ Web!Set(i, Web!Greet(ctx[i]))
      BY <2>0, <3>1, <3>2, WebSends
    <3>3. CASE Web!Set(i, Web!Closed([ctx[i] EXCEPT !.stage = "lost"], i, TRUE, "net"))
      <4>1. ctx[i].by # "reply"
        BY <2>0, <3>1 DEF ContextGood, ByReply
      <4>2. ContextGood([ctx[i] EXCEPT !.stage = "lost"])
        BY <2>0, <4>1, WebStage
      <4> QED
        BY <3>3, <4>2, WebCloses
    <3> QED
      BY <2>3, <3>2, <3>3 DEF Web!OnConnect
  <2>4. CASE Web!OnHello(i)
    <3>1. ctx[i].kind = "client" /\ ctx[i].stage = "hello" /\ ctx[i].handle = "open"
      BY <2>4 DEF Web!OnHello, Web!Open, Web!Is
    <3>2. \/ ctx[i].peer = "trusted" /\ Web!Set(i, Web!Send(ctx[i]))
          \/ Web!Set(i, Web!Closed(ctx[i], i, TRUE, "net"))
      BY <2>4 DEF Web!OnHello, Web!Trusts
    <3> QED
      BY <2>0, <3>1, <3>2, WebSends, WebCloses
  <2>5. CASE Web!OnAnswer(i)
    <3> DEFINE x == ctx[i]
               y == [Web!Tell(x, i) EXCEPT !.listens = FALSE, !.stage = "replied"]
               r == [x EXCEPT !.stage = "replied"]
               z == [Web!Tell(r, i) EXCEPT !.listens = FALSE]
    <3>1. x.kind = "client" /\ x.stage = "open" /\ x.handle = "open" /\ x \in Contexts
      BY <2>0, <2>5 DEF Web!OnAnswer, Web!Open, Web!Is, ContextGood
    <3>2. Web!Set(i, z)
      BY <2>5 DEF Web!OnAnswer
    <3>3. ContextGood(y)
      <4>1. ContextGood(x)
        BY <2>0
      <4>2. y = [Web!Tell(x, i) EXCEPT !.listens = FALSE, !.stage = "replied"]
        OBVIOUS
      <4> HIDE DEF x, y
      <4> QED
        BY ONLY <3>1, <4>1, <4>2, WebComplete, Zenon
    <3>4. z = y
      <4>1. r.listens = x.listens /\ r.kind = x.kind /\ r.heard = x.heard
        BY <3>1 DEF Contexts
      <4> QED
        BY <3>1, <4>1 DEF Contexts, Web!Tell
    <3> HIDE DEF y, z
    <3> QED
      BY <3>2, <3>3, <3>4
  <2>6. CASE Web!OnEnd(i)
    BY <2>0, <2>6, WebCloses DEF Web!OnEnd
  <2>7. CASE Web!OnRequest(i)
    <3> DEFINE y == [Web!Tell(ctx[i], i) EXCEPT !.listens = FALSE, !.stage = "asked"]
    <3>1. ctx[i].kind = "server" /\ ctx[i].stage = "open" /\ ctx[i].handle = "open"
      BY <2>7 DEF Web!OnRequest, Web!Open, Web!Is
    <3>2. Web!Set(i, y)
      BY <2>7 DEF Web!OnRequest
    <3>3. ContextGood(y)
      <4>1. ContextGood(ctx[i])
        BY ONLY <2>0
      <4>2. y = [Web!Tell(ctx[i], i) EXCEPT !.listens = FALSE, !.stage = "asked"]
        OBVIOUS
      <4> HIDE DEF y
      <4> QED
        BY ONLY <3>1, <4>1, <4>2, WebComplete, Zenon
    <3> HIDE DEF y
    <3> QED
      BY <3>2, <3>3
  <2>8. CASE Web!Written(i)
    BY <2>0, <2>8, WebReplies DEF Web!Written, Web!Is
  <2>9. CASE Web!PeerGone(i)
    BY <2>0, <2>9, WebCloses DEF Web!PeerGone
  <2>10. CASE Web!Free(i)
    <3> DEFINE y == [ctx[i] EXCEPT !.handle = "freed"]
    <3>1. ctx[i].handle = "closing" /\ Web!Set(i, y) /\ ctx[i] \in Contexts
      BY <2>0, <2>10 DEF Web!Free, ContextGood
    <3>2. /\ y \in Contexts /\ y.stage = ctx[i].stage /\ y.sent = ctx[i].sent /\ y.kind = ctx[i].kind
          /\ y.handle = "freed" /\ y.by = ctx[i].by /\ y.stored = ctx[i].stored /\ y.listens = ctx[i].listens
          /\ y.heard = ctx[i].heard /\ y.peer = ctx[i].peer
      BY <3>1 DEF Contexts
    <3> HIDE DEF y
    <3>3. ContextGood(y)
      BY <2>0, <3>1, <3>2 DEF ContextGood, Heard, Forgotten, ByReply, Written
    <3> QED
      BY <3>1, <3>3
  <2> QED
    BY <1>6, <2>2, <2>3, <2>4, <2>5, <2>6, <2>7, <2>8, <2>9, <2>10
<1> QED
  BY <1>1, <1>2, <1>3, <1>4, <1>5, <1>6 DEF Web!Next

LEMMA WebHolds ==
    ASSUME WebInv
    PROVE  Web!TypeOK /\ Web!HeardOnce /\ Web!SentWhereMeant /\ Web!ForgottenFirst /\ Web!ReplyFirst
<1>1. \A i \in Ids : ContextGood(ctx[i])
  BY DEF WebInv
<1>2. Web!TypeOK
  <2>1. {0, 1, 2} = 0 .. 2
    OBVIOUS
  <2>2. ctx \in [Ids -> Contexts]
    BY <1>1 DEF WebInv, ContextGood
  <2> QED
    BY <2>1, <2>2 DEF WebInv, Contexts, Web!TypeOK
<1>3. Web!HeardOnce
  BY <1>1 DEF ContextGood, Heard, Web!HeardOnce
<1>4. Web!SentWhereMeant
  BY <1>1 DEF ContextGood, Written, Web!SentWhereMeant
<1>5. Web!ForgottenFirst /\ Web!ReplyFirst
  BY <1>1 DEF ContextGood, Forgotten, ByReply, Web!ForgottenFirst, Web!ReplyFirst
<1> QED
  BY <1>2, <1>3, <1>4, <1>5

(* However a request ends its listener hears of it once at most; it is     *)
(* written once, to nobody who has not shown the certificate that is asked *)
(* of him; a context is out of the table before it is deleted, the sweep   *)
(* of a server apart; and the API's connections are closed after a reply.  *)
THEOREM WebSound ==
    ASSUME Web!HttpAssumption
    PROVE  Web!Spec => [](Web!TypeOK /\ Web!HeardOnce /\ Web!SentWhereMeant /\ Web!ForgottenFirst /\ Web!ReplyFirst)
<1>1. Web!Init => WebInv
  BY WebInit
<1>2. WebInv /\ [Web!Next]_Web!vars => WebInv'
  BY WebNext
<1>3. WebInv => Web!TypeOK /\ Web!HeardOnce /\ Web!SentWhereMeant /\ Web!ForgottenFirst /\ Web!ReplyFirst
  BY WebHolds
<1> QED
  BY <1>1, <1>2, <1>3, PTL DEF Web!Spec

CONSTANTS Newest, MostFails, Places, Troubles, Unheard, MaxBlocks, Halts, Zmq, HasHash
VARIABLES daemon, chain, budget
Daemon == INSTANCE DaemonClient WITH MaxTip <- Newest, MaxFailures <- MostFails, Room <- Places,
                                     Faults <- Troubles, Silences <- Unheard, Submits <- MaxBlocks,
                                     Stops <- Halts, c <- daemon, tip <- chain, left <- budget

---------------------------------------------------------------------------
(* The client of a daemon (DaemonClient).  That it keeps trying needs more *)
(* than that something is under way: a template, or the answer of a        *)
(* request for the tip that is bound to ask for one.                       *)
Heights == 0 .. Newest
Losses  == -1 .. MostFails
Nets    == [Daemon!Msgs -> Nat]
Budgets == [faults : 0 .. Troubles, silences : 0 .. Unheard, submits : 0 .. MaxBlocks, stops : 0 .. Halts]
Solos   == [state : Daemon!States, failures : Losses, timer : {"off", "once", "poll"},
            height : Heights, prev : Heights, req : Heights, late : BOOLEAN,
            api : {"monero", "default"}, results : Int, dns : BOOLEAN, tcp : BOOLEAN,
            held : BOOLEAN, feed : Daemon!Feeds, closing : BOOLEAN, net : Nets,
            up : BOOLEAN, again : BOOLEAN, broken : BOOLEAN]

Unanswered(r)    == r.net[Daemon!Msg("block", 0)] + r.net[Daemon!Msg("block", 1)]
Coming(r, kinds) == \E m \in Daemon!Msgs : m.kind \in kinds /\ r.net[m] > 0

(* The owner's view, and the feed's socket.                                *)
Watched(r) ==
    /\ r.up <=> r.state = "connected" \/ r.again
    /\ r.again => r.state = "connecting"
    /\ r.up => r.timer = "poll"
    /\ ~r.broken => /\ r.tcp \/ r.closing \/ r.feed # "none" => r.held
                    /\ r.tcp => r.feed = "none" /\ ~r.closing
    /\ r.broken \/ r.dns \/ r.tcp \/ r.feed # "none" => Zmq

Trying(r) ==
    r.state # "unconnected" =>
        \/ r.timer # "off" \/ r.dns \/ r.tcp \/ (r.feed \in Daemon!Phases /\ ~r.closing)
        \/ Coming(r, {"template"})
        \/ Coming(r, {"height", "info"}) /\ r.req = 0 /\ r.prev = 0

Filing(r, l) ==
    /\ \A m \in Daemon!Msgs : m.kind = "block" /\ r.net[m] > 0 => m.tip \in {0, 1}
    /\ Unanswered(r) <= r.results
    /\ r.results <= Unanswered(r) + (Troubles - l.faults) + (Unheard - l.silences)
    /\ r.results <= MaxBlocks - l.submits

DaemonInv == /\ daemon \in Solos /\ chain \in Daemon!Tips /\ budget \in Budgets
             /\ Watched(daemon) /\ Filing(daemon, budget)
             /\ budget.silences = Unheard => Trying(daemon)

(* The feed is as it was.                                                  *)
FeedAlike(a, r) ==
    /\ a.dns = r.dns /\ a.tcp = r.tcp /\ a.held = r.held /\ a.feed = r.feed
    /\ a.closing = r.closing /\ a.broken = r.broken

LEMMA MsgFacts ==
    ASSUME Daemon!DaemonAssumption
    PROVE  /\ 0 \in Heights /\ 1 \in Heights /\ \A t \in Daemon!Tips : t \in Heights /\ t # 0
           /\ \A k \in Daemon!Kinds, t \in Heights :
                  /\ Daemon!Msg(k, t) \in Daemon!Msgs
                  /\ Daemon!Msg(k, t).kind = k /\ Daemon!Msg(k, t).tip = t
           /\ \A m \in Daemon!Msgs : /\ m.kind \in Daemon!Kinds /\ m.tip \in Heights
                                     /\ m = Daemon!Msg(m.kind, m.tip)
BY DEF Daemon!DaemonAssumption, Heights, Daemon!Tips, Daemon!Msg, Daemon!Msgs

(* The counts after a request is asked and after one is taken.             *)
LEMMA NetAsk ==
    ASSUME Daemon!DaemonAssumption, NEW r \in Solos, NEW k \in Daemon!Kinds
    PROVE  LET a == Daemon!Ask(r, k) IN
           /\ a = [r EXCEPT !.net = a.net] /\ a.net \in Nets
           /\ \A m \in Daemon!Msgs : a.net[m] = r.net[m] + (IF m = Daemon!Msg(k, 0) THEN 1 ELSE 0)
<1>1. Daemon!Msg(k, 0) \in Daemon!Msgs /\ r.net \in Nets
  BY MsgFacts DEF Solos
<1>2. Daemon!Ask(r, k).net = [r.net EXCEPT ![Daemon!Msg(k, 0)] = @ + 1]
  BY DEF Daemon!Ask, Solos
<1>3. Daemon!Ask(r, k) = [r EXCEPT !.net = Daemon!Ask(r, k).net]
  BY DEF Daemon!Ask, Solos
<1> QED
  BY <1>1, <1>2, <1>3 DEF Nets

LEMMA NetTake ==
    ASSUME Daemon!DaemonAssumption, NEW r \in Solos, NEW m \in Daemon!Msgs, r.net[m] > 0
    PROVE  LET a == Daemon!Take(r, m) IN
           /\ a = [r EXCEPT !.net = a.net] /\ a.net \in Nets
           /\ \A n \in Daemon!Msgs : a.net[n] = r.net[n] - (IF n = m THEN 1 ELSE 0)
<1>1. r.net \in Nets
  BY DEF Solos
<1>2. Daemon!Take(r, m).net = [r.net EXCEPT ![m] = @ - 1]
  BY DEF Daemon!Take, Solos
<1>3. Daemon!Take(r, m) = [r EXCEPT !.net = Daemon!Take(r, m).net]
  BY DEF Daemon!Take, Solos
<1> QED
  BY <1>1, <1>2, <1>3 DEF Nets

(* All but the requests is as it was.                                      *)
Alike(a, r) ==
    /\ a \in Solos /\ a.state = r.state /\ a.failures = r.failures /\ a.timer = r.timer
    /\ a.height = r.height /\ a.prev = r.prev /\ a.req = r.req /\ a.late = r.late /\ a.api = r.api
    /\ a.results = r.results /\ a.up = r.up /\ a.again = r.again /\ FeedAlike(a, r)

LEMMA NetAlike ==
    ASSUME NEW r \in Solos, NEW n \in Nets
    PROVE  Alike([r EXCEPT !.net = n], r) /\ [r EXCEPT !.net = n].net = n
BY DEF Alike, FeedAlike, Solos

LEMMA AlikeWatched ==
    ASSUME NEW r, NEW a, Alike(a, r), Watched(r)
    PROVE  Watched(a)
BY DEF Alike, FeedAlike, Watched

(* What one more request changes.                                          *)
LEMMA Asked ==
    ASSUME Daemon!DaemonAssumption, NEW r \in Solos, Watched(r), NEW k \in Daemon!Kinds
    PROVE  LET a == Daemon!Ask(r, k) IN
           /\ Alike(a, r) /\ Watched(a)
           /\ Unanswered(a) = Unanswered(r) + (IF k = "block" THEN 1 ELSE 0)
           /\ \A m \in Daemon!Msgs : a.net[m] > 0 => r.net[m] > 0 \/ (m.kind = k /\ m.tip = 0)
           /\ Trying(r) \/ k = "template" \/ (k \in {"height", "info"} /\ r.req = 0 /\ r.prev = 0) => Trying(a)
<1> DEFINE a == Daemon!Ask(r, k)
<1>1. a = [r EXCEPT !.net = a.net] /\ a.net \in Nets /\ r.net \in Nets
  BY NetAsk DEF Solos
<1>2. \A m \in Daemon!Msgs : a.net[m] = r.net[m] + (IF m = Daemon!Msg(k, 0) THEN 1 ELSE 0)
  BY NetAsk
<1> HIDE DEF a
<1>3. Alike(a, r) /\ Watched(a)
  BY <1>1, NetAlike, AlikeWatched
<1>4. \A m \in Daemon!Msgs : r.net[m] \in Nat /\ a.net[m] \in Nat
  BY <1>1 DEF Nets
<1>5. Unanswered(a) = Unanswered(r) + (IF k = "block" THEN 1 ELSE 0)
  <2>1. "block" \in Daemon!Kinds
    BY DEF Daemon!Kinds
  <2>2. /\ Daemon!Msg("block", 0) \in Daemon!Msgs /\ Daemon!Msg("block", 1) \in Daemon!Msgs
        /\ Daemon!Msg("block", 1) # Daemon!Msg(k, 0)
        /\ Daemon!Msg("block", 0) = Daemon!Msg(k, 0) <=> k = "block"
    BY <2>1, MsgFacts
  <2> QED
    BY <1>2, <1>4, <2>2 DEF Unanswered
<1>6. \A m \in Daemon!Msgs : r.net[m] > 0 => a.net[m] > 0
  BY <1>2, <1>4
<1>7. Daemon!Msg(k, 0) \in Daemon!Msgs /\ Daemon!Msg(k, 0).kind = k /\ a.net[Daemon!Msg(k, 0)] > 0
  <2>1. Daemon!Msg(k, 0) \in Daemon!Msgs /\ Daemon!Msg(k, 0).kind = k
    BY MsgFacts
  <2> QED
    BY <1>2, <1>4, <2>1
<1>8. \A K : (Coming(r, K) \/ k \in K) => Coming(a, K)
  BY <1>6, <1>7 DEF Coming
<1>9. Trying(r) \/ k = "template" \/ (k \in {"height", "info"} /\ r.req = 0 /\ r.prev = 0) => Trying(a)
  BY <1>3, <1>8 DEF Trying, Alike, FeedAlike
<1>10. \A m \in Daemon!Msgs : a.net[m] > 0 => r.net[m] > 0 \/ (m.kind = k /\ m.tip = 0)
  BY <1>2, <1>4, MsgFacts
<1> QED
  BY <1>3, <1>5, <1>9, <1>10 DEF a

(* What an answer less changes.                                            *)
LEMMA Taken ==
    ASSUME Daemon!DaemonAssumption, NEW r \in Solos, Watched(r), NEW m \in Daemon!Msgs, r.net[m] > 0,
           m.kind = "block" => m.tip \in {0, 1}
    PROVE  LET a == Daemon!Take(r, m) IN
           /\ Alike(a, r) /\ Watched(a)
           /\ Unanswered(a) = Unanswered(r) - (IF m.kind = "block" THEN 1 ELSE 0)
           /\ \A n \in Daemon!Msgs : a.net[n] > 0 => r.net[n] > 0
           /\ Trying(r) => \/ m.kind = "template" \/ Trying(a)
                           \/ m.kind # "block" /\ r.req = 0 /\ r.prev = 0
<1> DEFINE a == Daemon!Take(r, m)
<1>1. a = [r EXCEPT !.net = a.net] /\ a.net \in Nets /\ r.net \in Nets
  BY NetTake DEF Solos
<1>2. \A n \in Daemon!Msgs : a.net[n] = r.net[n] - (IF n = m THEN 1 ELSE 0)
  BY NetTake
<1> HIDE DEF a
<1>3. Alike(a, r) /\ Watched(a)
  BY <1>1, NetAlike, AlikeWatched
<1>4. \A n \in Daemon!Msgs : r.net[n] \in Nat /\ a.net[n] \in Nat
  BY <1>1 DEF Nets
<1>5. Unanswered(a) = Unanswered(r) - (IF m.kind = "block" THEN 1 ELSE 0)
  <2>1. "block" \in Daemon!Kinds
    BY DEF Daemon!Kinds
  <2>2. /\ Daemon!Msg("block", 0) \in Daemon!Msgs /\ Daemon!Msg("block", 1) \in Daemon!Msgs
        /\ Daemon!Msg("block", 0) # Daemon!Msg("block", 1)
    BY <2>1, MsgFacts
  <2>3. m.kind = "block" <=> m \in {Daemon!Msg("block", 0), Daemon!Msg("block", 1)}
    BY <2>1, MsgFacts
  <2> QED
    BY <1>2, <1>4, <2>2, <2>3 DEF Unanswered
<1>6. \A n \in Daemon!Msgs : a.net[n] > 0 => r.net[n] > 0
  BY <1>2, <1>4
<1>7. \A K : Coming(r, K) => Coming(a, K) \/ m.kind \in K
  <2> SUFFICES ASSUME NEW K, NEW n \in Daemon!Msgs, n.kind \in K, r.net[n] > 0, m.kind \notin K
               PROVE  Coming(a, K)
    BY DEF Coming
  <2> QED
    BY <1>2, <1>4 DEF Coming
<1>8. Trying(r) => \/ m.kind = "template" \/ Trying(a)
                   \/ m.kind # "block" /\ r.req = 0 /\ r.prev = 0
  BY <1>3, <1>7 DEF Trying, Alike, FeedAlike
<1> QED
  BY <1>3, <1>5, <1>6, <1>8 DEF a

(* A connect that failed, a feed that is lost, a request without answer:   *)
(* the owner is told, and the timer runs.                                  *)
LEMMA RetryFields ==
    ASSUME Daemon!DaemonAssumption, NEW r \in Solos
    PROVE  LET a == Daemon!Retry(r) IN
           /\ a \in Solos /\ a.timer = "once" /\ a.up = FALSE /\ a.again = FALSE /\ a.state # "connected"
           /\ a.results = r.results /\ a.net = r.net
           /\ a.dns = r.dns /\ a.tcp = r.tcp /\ a.held = r.held /\ a.feed = r.feed
           /\ a.closing = (r.closing \/ Daemon!FeedOpen(r))
           /\ a.broken = (Daemon!FeedOpen(r) /\ r.closing)
<1>1. \A n \in Losses : n < MostFails => n + 1 \in Losses
  BY DEF Losses, Daemon!DaemonAssumption
<1> DEFINE a == Daemon!Retry(r)
           open == Daemon!FeedOpen(r)
<1>2. open \in BOOLEAN
  BY DEF Daemon!FeedOpen
<1> HIDE DEF open
<1>3. /\ a.up = FALSE /\ a.again = FALSE /\ a.timer = "once" /\ a.state # "connected"
      /\ a.results = r.results /\ a.net = r.net
      /\ a.dns = r.dns /\ a.tcp = r.tcp /\ a.held = r.held /\ a.feed = r.feed
      /\ a.closing = (r.closing \/ open) /\ a.broken = (open /\ r.closing)
  BY DEF Solos, Daemon!Retry, open
<1>4. a \in Solos
  BY <1>1, <1>2, ZenonT(60) DEF Solos, Daemon!Retry, Daemon!States, open
<1> HIDE DEF a
<1> QED
  BY <1>3, <1>4 DEF a, open

LEMMA Retried ==
    ASSUME Daemon!DaemonAssumption, NEW r \in Solos, Watched(r), ~r.broken
    PROVE  LET a == Daemon!Retry(r) IN
           /\ a \in Solos /\ Watched(a) /\ Trying(a) /\ a.timer = "once"
           /\ a.results = r.results /\ a.net = r.net
           /\ a.dns = r.dns /\ a.tcp = r.tcp /\ a.held = r.held /\ a.feed = r.feed
           /\ a.closing = (r.closing \/ Daemon!FeedOpen(r))
           /\ a.broken = (Daemon!FeedOpen(r) /\ r.closing)
<1>1. Daemon!FeedOpen(r) => r.feed # "none"
  BY DEF Daemon!FeedOpen
<1> QED
  BY <1>1, RetryFields DEF Watched, Trying

(* A template came.                                                        *)
LEMMA JobParsed ==
    ASSUME Daemon!DaemonAssumption, NEW r \in Solos, Watched(r), NEW t \in Heights
    PROVE  LET a == Daemon!ParseJob(r, t) IN
           a \in Solos /\ Watched(a) /\ Trying(a) /\ a.results = r.results /\ a.net = r.net
<1> DEFINE p == [r EXCEPT !.height = t, !.prev = t, !.late = FALSE]
           a == Daemon!ParseJob(r, t)
<1>1. p \in Solos /\ p.state = r.state /\ p.up = r.up /\ p.again = r.again /\ p.timer = r.timer /\ FeedAlike(p, r)
      /\ p.results = r.results /\ p.net = r.net
  BY DEF Solos, FeedAlike
<1>2. a = IF p.state # "connecting" THEN p
          ELSE [p EXCEPT !.state = "connected", !.failures = 0, !.up = TRUE, !.again = FALSE, !.timer = "poll"]
  BY DEF Daemon!ParseJob, Daemon!Connected
<1>3. 0 \in Losses /\ "connected" \in Daemon!States
  BY DEF Losses, Daemon!DaemonAssumption, Daemon!States
<1> HIDE DEF p, a
<1>4. a \in Solos /\ FeedAlike(a, p)
      /\ a.results = p.results /\ a.net = p.net
  BY <1>1, <1>2, <1>3, ZenonT(60) DEF Solos, FeedAlike
<1>5. p.state = "connecting" => a.up = TRUE /\ a.again = FALSE /\ a.timer = "poll" /\ a.state = "connected"
  BY <1>1, <1>2, <1>3 DEF Solos
<1>6. p.state # "connecting" => a = p
  BY <1>2
<1>7. Watched(a)
  BY <1>1, <1>4, <1>5, <1>6 DEF Watched, FeedAlike
<1>8. p.state \in Daemon!States
  BY <1>1 DEF Solos
<1>9. Trying(a)
  BY <1>1, <1>5, <1>6, <1>7, <1>8 DEF Trying, Watched, Daemon!States
<1> QED
  BY <1>1, <1>4, <1>7, <1>9 DEF a

(* The shares and their answers are as they were, and nothing is answered. *)
Even(a, r) == /\ a.results = r.results /\ Unanswered(a) = Unanswered(r)
              /\ \A m \in Daemon!Msgs : a.net[m] > 0 => r.net[m] > 0 \/ m.tip = 0

LEMMA EvenFiles ==
    ASSUME NEW r, NEW a, NEW l, Even(a, r), Filing(r, l)
    PROVE  Filing(a, l)
BY DEF Even, Filing

LEMMA SameNet ==
    ASSUME NEW r, NEW a, a.net = r.net, a.results = r.results
    PROVE  Even(a, r)
BY DEF Even, Unanswered

LEMMA AskedEven ==
    ASSUME Daemon!DaemonAssumption, NEW r \in Solos, Watched(r), NEW k \in Daemon!Kinds \ {"block"}
    PROVE  LET a == Daemon!Ask(r, k) IN a \in Solos /\ Watched(a) /\ Even(a, r)
<1> DEFINE a == Daemon!Ask(r, k)
<1>1. /\ Alike(a, r) /\ Watched(a)
      /\ Unanswered(a) = Unanswered(r) + (IF k = "block" THEN 1 ELSE 0)
      /\ \A m \in Daemon!Msgs : a.net[m] > 0 => r.net[m] > 0 \/ (m.kind = k /\ m.tip = 0)
  BY Asked
<1>2. Unanswered(r) \in Int
  BY MsgFacts DEF Unanswered, Solos, Nets, Daemon!Kinds
<1> HIDE DEF a
<1> QED
  BY <1>1, <1>2 DEF Alike, Even, a

(* The answer to a request for the tip.                                    *)
LEMMA TipHandled ==
    ASSUME Daemon!DaemonAssumption, NEW r \in Solos, Watched(r), NEW t \in Heights, t # 0
    PROVE  LET a == Daemon!TipSeen(r, t) IN
           /\ a \in Solos /\ Watched(a) /\ Even(a, r)
           /\ Trying(r) \/ (r.req = 0 /\ r.prev = 0) => Trying(a)
<1> DEFINE d == [r EXCEPT !.req = t]
           a == Daemon!TipSeen(r, t)
<1>1. d \in Solos /\ Watched(d) /\ Even(d, r)
  <2>1. d \in Solos /\ d.state = r.state /\ d.up = r.up /\ d.again = r.again /\ d.timer = r.timer /\ FeedAlike(d, r)
        /\ d.results = r.results /\ d.net = r.net
    BY DEF Solos, FeedAlike
  <2> HIDE DEF d
  <2> QED
    BY <2>1, SameNet DEF Watched, FeedAlike
<1>2. a = IF Daemon!IsOutdated(r, t) /\ t # r.req THEN Daemon!Ask(d, "template") ELSE r
  BY DEF Daemon!TipSeen
<1>3. "template" \in Daemon!Kinds \ {"block"}
  BY DEF Daemon!Kinds
<1>4. Daemon!IsOutdated(r, t) \/ r.prev = t
  BY DEF Daemon!IsOutdated
<1> HIDE DEF d, a
<1>5. CASE a = Daemon!Ask(d, "template")
  <2>1. a \in Solos /\ Watched(a) /\ Even(a, d)
    BY <1>1, <1>3, <1>5, AskedEven
  <2>2. Trying(a)
    BY <1>1, <1>3, <1>5, Asked
  <2>3. Even(a, r)
    BY <1>1, <2>1 DEF Even
  <2> QED
    BY <2>1, <2>2, <2>3 DEF a
<1>6. CASE a = r /\ ~(Daemon!IsOutdated(r, t) /\ t # r.req)
  <2>1. Even(r, r)
    BY SameNet
  <2>2. ~(r.req = 0 /\ r.prev = 0)
    BY <1>4, <1>6
  <2> QED
    BY <1>6, <2>1, <2>2 DEF a
<1> QED
  BY <1>2, <1>5, <1>6

(* The feed is closed.                                                     *)
LEMMA FeedClosed ==
    ASSUME Daemon!DaemonAssumption, NEW r \in Solos, Watched(r), Daemon!FeedOpen(r), ~r.broken
    PROVE  LET a == Daemon!ZMQClose(r) IN
           /\ a \in Solos /\ Watched(a) /\ Even(a, r) /\ a.closing /\ ~a.broken
           /\ a.dns = r.dns /\ a.tcp = r.tcp /\ a.held = r.held
           /\ ~r.closing => Trying(a) /\ a.timer = "once"
           /\ r.closing => a.timer = r.timer
<1> DEFINE e == [r EXCEPT !.feed = "disconnecting"]
           d == [r EXCEPT !.feed = "disconnecting", !.closing = TRUE]
           a == Daemon!Retry(d)
<1>1. Daemon!ZMQClose(r) = IF r.closing THEN e ELSE a
  BY DEF Daemon!ZMQClose
<1>2. /\ d \in Solos /\ d.state = r.state /\ d.up = r.up /\ d.again = r.again /\ d.timer = r.timer
      /\ d.results = r.results /\ d.net = r.net /\ d.closing = TRUE /\ d.feed = "disconnecting"
      /\ d.dns = r.dns /\ d.tcp = r.tcp /\ d.held = r.held /\ d.broken = r.broken
  BY DEF Solos, Daemon!Feeds
<1>3. /\ e \in Solos /\ e.state = r.state /\ e.up = r.up /\ e.again = r.again /\ e.timer = r.timer
      /\ e.results = r.results /\ e.net = r.net /\ e.closing = r.closing /\ e.feed = "disconnecting"
      /\ e.dns = r.dns /\ e.tcp = r.tcp /\ e.held = r.held /\ e.broken = r.broken
  BY DEF Solos, Daemon!Feeds
<1>4. r.feed # "none" /\ ~Daemon!FeedOpen(d)
  BY <1>2 DEF Daemon!FeedOpen
<1> HIDE DEF d, e
<1>5. r.held /\ ~r.tcp /\ Zmq
  BY <1>4 DEF Watched
<1>6. Watched(d)
  BY <1>2, <1>5 DEF Watched
<1>7. Watched(e)
  BY <1>3, <1>5 DEF Watched
<1>8. /\ a \in Solos /\ Watched(a) /\ Trying(a) /\ a.timer = "once" /\ a.results = d.results /\ a.net = d.net
      /\ a.dns = d.dns /\ a.tcp = d.tcp /\ a.held = d.held
      /\ a.closing = (d.closing \/ Daemon!FeedOpen(d)) /\ a.broken = (Daemon!FeedOpen(d) /\ d.closing)
  BY <1>2, <1>6, Retried
<1> HIDE DEF a
<1>9. Even(a, r) /\ Even(e, r)
  BY <1>2, <1>3, <1>8, SameNet
<1>10. CASE r.closing
  BY <1>1, <1>3, <1>7, <1>9, <1>10
<1>11. CASE ~r.closing
  BY <1>1, <1>2, <1>4, <1>8, <1>9, <1>11
<1> QED
  BY <1>10, <1>11

(* connect(), whatever the client does.                                    *)
LEMMA Connecting ==
    ASSUME Daemon!DaemonAssumption, NEW r \in Solos, Watched(r)
    PROVE  LET a == Daemon!Connect(r) IN a \in Solos /\ Watched(a) /\ Trying(a) /\ Even(a, r)
<1> DEFINE e == [r EXCEPT !.state = "connecting", !.again = @ \/ r.state = "connected"]
           f == [e EXCEPT !.dns = TRUE]
<1>1. /\ e \in Solos /\ e.state = "connecting" /\ e.up = r.up /\ e.timer = r.timer /\ FeedAlike(e, r)
      /\ e.results = r.results /\ e.net = r.net
      /\ e.again = (r.again \/ r.state = "connected")
  BY DEF Solos, Daemon!States, FeedAlike
<1>2. Daemon!Connect(r) = IF Zmq THEN f ELSE Daemon!Ask(e, "template")
  BY DEF Daemon!Connect
<1>3. Watched(e) /\ Even(e, r)
  <2> HIDE DEF e
  <2> QED
    BY <1>1, SameNet DEF Watched, FeedAlike
<1>4. CASE Zmq
  <2> HIDE DEF e
  <2>1. /\ f \in Solos /\ f.state = "connecting" /\ f.up = e.up /\ f.again = e.again /\ f.timer = e.timer
        /\ f.dns = TRUE /\ f.tcp = e.tcp /\ f.held = e.held /\ f.feed = e.feed
        /\ f.closing = e.closing /\ f.broken = e.broken /\ f.results = e.results /\ f.net = e.net
    BY <1>1 DEF Solos
  <2> HIDE DEF f
  <2>2. Watched(f) /\ Trying(f)
    BY <1>1, <1>3, <1>4, <2>1 DEF Watched, Trying
  <2>3. Even(f, r)
    BY <1>1, <2>1, SameNet
  <2> QED
    BY <1>2, <1>4, <2>1, <2>2, <2>3
<1>5. CASE ~Zmq
  <2>1. "template" \in Daemon!Kinds \ {"block"}
    BY DEF Daemon!Kinds
  <2> DEFINE a == Daemon!Ask(e, "template")
  <2> HIDE DEF e
  <2>2. a \in Solos /\ Watched(a) /\ Even(a, e)
    BY <1>1, <1>3, <2>1, AskedEven
  <2>3. Trying(a)
    BY <1>1, <1>3, <2>1, Asked
  <2> HIDE DEF a
  <2>4. Even(a, r)
    BY <1>3, <2>2 DEF Even
  <2> QED
    BY <1>2, <1>5, <2>2, <2>3, <2>4 DEF a
<1> QED
  BY <1>4, <1>5

(* A step that asks and answers nothing of the shares and spends no share. *)
LEMMA EvenCarries ==
    ASSUME DaemonInv, daemon' \in Solos, Watched(daemon'), Even(daemon', daemon), chain' \in Daemon!Tips,
           UNCHANGED budget, Trying(daemon) => Trying(daemon')
    PROVE  DaemonInv'
BY EvenFiles DEF DaemonInv

LEMMA Spent ==
    ASSUME DaemonInv, Daemon!DaemonAssumption, NEW w \in {"faults", "silences", "submits", "stops"}, Daemon!Spend(w)
    PROVE  /\ budget' \in Budgets
           /\ budget[w] > 0 /\ budget'[w] = budget[w] - 1
           /\ \A v \in {"faults", "silences", "submits", "stops"} \ {w} : budget'[v] = budget[v]
           /\ \A v \in {"faults", "silences", "submits", "stops"} : budget[v] \in Int /\ budget'[v] \in Int
<1>1. budget \in Budgets /\ budget[w] > 0 /\ budget' = [budget EXCEPT ![w] = @ - 1]
  BY DEF DaemonInv, Daemon!Spend
<1>2. /\ budget.faults \in 0 .. Troubles /\ budget.silences \in 0 .. Unheard
      /\ budget.submits \in 0 .. MaxBlocks /\ budget.stops \in 0 .. Halts
  BY <1>1 DEF Budgets
<1>3. /\ \A n \in 0 .. Troubles : n \in Int /\ (n > 0 => n - 1 \in 0 .. Troubles)
      /\ \A n \in 0 .. Unheard : n \in Int /\ (n > 0 => n - 1 \in 0 .. Unheard)
      /\ \A n \in 0 .. MaxBlocks : n \in Int /\ (n > 0 => n - 1 \in 0 .. MaxBlocks)
      /\ \A n \in 0 .. Halts : n \in Int /\ (n > 0 => n - 1 \in 0 .. Halts)
  BY DEF Daemon!DaemonAssumption
<1>4. CASE w = "faults"
  BY <1>1, <1>2, <1>3, <1>4 DEF Budgets
<1>5. CASE w = "silences"
  BY <1>1, <1>2, <1>3, <1>5 DEF Budgets
<1>6. CASE w = "submits"
  BY <1>1, <1>2, <1>3, <1>6 DEF Budgets
<1>7. CASE w = "stops"
  BY <1>1, <1>2, <1>3, <1>7 DEF Budgets
<1> QED
  BY <1>4, <1>5, <1>6, <1>7

(* ... and one in which something goes wrong.                              *)
LEMMA FaultCarries ==
    ASSUME Daemon!DaemonAssumption, DaemonInv, daemon' \in Solos, Watched(daemon'), Even(daemon', daemon),
           chain' \in Daemon!Tips, Daemon!Spend("faults"), Trying(daemon) => Trying(daemon')
    PROVE  DaemonInv'
<1>1. /\ budget' \in Budgets /\ budget'.faults = budget.faults - 1 /\ budget'.silences = budget.silences
      /\ budget'.submits = budget.submits /\ budget.faults \in Int /\ budget.silences \in Int
  BY Spent
<1>2. Filing(daemon', budget)
  BY EvenFiles DEF DaemonInv
<1>3. Unanswered(daemon') \in Int /\ daemon'.results \in Int /\ Troubles \in Int /\ Unheard \in Int
  BY MsgFacts DEF Unanswered, Solos, Nets, Daemon!Kinds, Daemon!DaemonAssumption
<1>4. Filing(daemon', budget')
  BY <1>1, <1>2, <1>3 DEF Filing
<1> QED
  BY <1>1, <1>4 DEF DaemonInv

LEMMA CarryHandle ==
    ASSUME Daemon!DaemonAssumption, DaemonInv, NEW k \in Daemon!Kinds, Daemon!Handle(k)
    PROVE  DaemonInv'
<1> DEFINE t == IF k = "block" THEN 1 ELSE chain
           q == Daemon!Msg(k, 0)
           a == Daemon!Msg(k, t)
           n == [daemon.net EXCEPT ![q] = @ - 1, ![a] = @ + 1]
<1>1. /\ daemon.net[q] > 0 /\ UNCHANGED <<chain, budget>>
      /\ daemon' = [daemon EXCEPT !.net[q] = @ - 1, !.net[a] = @ + 1]
  BY DEF Daemon!Handle
<1>2. daemon \in Solos /\ daemon.net \in Nets /\ chain \in Daemon!Tips /\ Watched(daemon)
  BY DEF DaemonInv, Solos
<1>3. t \in Heights /\ t # 0
  BY <1>2, MsgFacts
<1>4. q \in Daemon!Msgs /\ a \in Daemon!Msgs /\ q # a /\ a.kind = k /\ q.kind = k /\ a.tip = t /\ q.tip = 0
  BY <1>3, MsgFacts
<1>5. daemon' = [daemon EXCEPT !.net = n]
  <2> HIDE DEF q, a
  <2> QED
    BY <1>1, <1>2 DEF Solos
<1>6. n \in Nets /\ \A m \in Daemon!Msgs : n[m] = daemon.net[m] + (IF m = a THEN 1 ELSE IF m = q THEN -1 ELSE 0)
  <2> HIDE DEF q, a
  <2> QED
    BY <1>1, <1>2, <1>4 DEF Nets
<1> HIDE DEF n
<1>7. Alike(daemon', daemon) /\ daemon'.net = n /\ Watched(daemon')
  BY <1>2, <1>5, <1>6, NetAlike, AlikeWatched
<1>8. \A m \in Daemon!Msgs : daemon.net[m] \in Nat /\ n[m] \in Nat
  BY <1>2, <1>6 DEF Nets
<1>9. Unanswered(daemon') = Unanswered(daemon)
  <2>1. "block" \in Daemon!Kinds
    BY DEF Daemon!Kinds
  <2>2. /\ Daemon!Msg("block", 0) \in Daemon!Msgs /\ Daemon!Msg("block", 1) \in Daemon!Msgs
        /\ Daemon!Msg("block", 0) # Daemon!Msg("block", 1)
    BY <2>1, MsgFacts
  <2>3. CASE k = "block"
    <3>1. q = Daemon!Msg("block", 0) /\ a = Daemon!Msg("block", 1)
      BY <2>3
    <3> HIDE DEF q, a
    <3> QED
      BY <1>6, <1>7, <1>8, <2>2, <3>1 DEF Unanswered
  <2>4. CASE k # "block"
    <3>1. q \notin {Daemon!Msg("block", 0), Daemon!Msg("block", 1)} /\ a \notin {Daemon!Msg("block", 0), Daemon!Msg("block", 1)}
      BY <1>4, <2>1, <2>4, MsgFacts
    <3> HIDE DEF q, a
    <3> QED
      BY <1>6, <1>7, <1>8, <2>2, <3>1 DEF Unanswered
  <2> QED
    BY <2>3, <2>4
<1>10. \A K : Coming(daemon, K) => Coming(daemon', K)
  <2> HIDE DEF q, a
  <2> SUFFICES ASSUME NEW K, NEW m \in Daemon!Msgs, m.kind \in K, daemon.net[m] > 0
               PROVE  Coming(daemon', K)
    BY DEF Coming
  <2>1. CASE m = q
    BY <1>4, <1>6, <1>7, <1>8, <2>1 DEF Coming
  <2>2. CASE m # q
    BY <1>6, <1>7, <1>8, <2>2 DEF Coming
  <2> QED
    BY <2>1, <2>2
<1>11. Trying(daemon) => Trying(daemon')
  BY <1>7, <1>10 DEF Trying, Alike, FeedAlike
<1>12. Filing(daemon', budget)
  <2>1. Filing(daemon, budget)
    BY DEF DaemonInv
  <2>2. \A m \in Daemon!Msgs : n[m] > 0 => daemon.net[m] > 0 \/ m = a
    <3> HIDE DEF q, a
    <3> QED
      BY <1>6, <1>8
  <2>3. a.kind = "block" => a.tip = 1
    BY <1>4
  <2> HIDE DEF q, a
  <2> QED
    BY <1>7, <1>9, <2>1, <2>2, <2>3 DEF Filing, Alike
<1> QED
  BY <1>1, <1>2, <1>7, <1>11, <1>12 DEF DaemonInv, Alike

LEMMA CarryTimeout ==
    ASSUME DaemonInv, Daemon!JobTimeout
    PROVE  DaemonInv'
<1>1. daemon' \in Solos /\ daemon' = [daemon EXCEPT !.late = TRUE] /\ UNCHANGED <<chain, budget>>
  BY DEF DaemonInv, Daemon!JobTimeout, Solos
<1>2. /\ daemon'.state = daemon.state /\ daemon'.up = daemon.up /\ daemon'.again = daemon.again /\ daemon'.timer = daemon.timer
      /\ FeedAlike(daemon', daemon)
      /\ daemon'.results = daemon.results /\ daemon'.net = daemon.net
      /\ daemon'.req = daemon.req /\ daemon'.prev = daemon.prev
  BY <1>1 DEF DaemonInv, Solos, FeedAlike
<1>3. Watched(daemon) /\ chain \in Daemon!Tips
  BY DEF DaemonInv
<1>4. Watched(daemon')
  BY <1>2, <1>3 DEF Watched, FeedAlike
<1>5. Trying(daemon) => Trying(daemon')
  BY <1>2 DEF Trying, Coming, FeedAlike
<1>6. Even(daemon', daemon)
  BY <1>2, SameNet
<1> QED
  BY <1>1, <1>3, <1>4, <1>5, <1>6, EvenCarries

LEMMA CarryData ==
    ASSUME Daemon!DaemonAssumption, DaemonInv, NEW m \in Daemon!Msgs, Daemon!HttpData(m)
    PROVE  DaemonInv'
<1> DEFINE d == Daemon!Take(daemon, m)
<1>1. m.tip # 0 /\ daemon.net[m] > 0 /\ UNCHANGED <<chain, budget>>
  BY DEF Daemon!HttpData
<1>2. daemon \in Solos /\ Watched(daemon) /\ chain \in Daemon!Tips /\ Filing(daemon, budget)
  BY DEF DaemonInv
<1>3. m.kind = "block" => m.tip \in {0, 1}
  BY <1>1, <1>2 DEF Filing
<1>4. /\ Alike(d, daemon) /\ Watched(d)
      /\ Unanswered(d) = Unanswered(daemon) - (IF m.kind = "block" THEN 1 ELSE 0)
      /\ \A n \in Daemon!Msgs : d.net[n] > 0 => daemon.net[n] > 0
      /\ Trying(daemon) => \/ m.kind = "template" \/ Trying(d)
                           \/ m.kind # "block" /\ daemon.req = 0 /\ daemon.prev = 0
  BY <1>1, <1>2, <1>3, Taken
<1>5. d \in Solos /\ d.results = daemon.results /\ d.req = daemon.req /\ d.prev = daemon.prev
  BY <1>4 DEF Alike
<1>6. m.kind \in Daemon!Kinds /\ m.tip \in Heights
  BY MsgFacts
<1>7. Unanswered(daemon) \in Int /\ Unanswered(d) \in Int /\ daemon.results \in Int
  <2>1. "block" \in Daemon!Kinds
    BY DEF Daemon!Kinds
  <2>2. \A r \in Solos : Unanswered(r) \in Int /\ r.results \in Int
    BY <2>1, MsgFacts DEF Unanswered, Solos, Nets
  <2> HIDE DEF d
  <2> QED
    BY <1>2, <1>5, <2>2
<1>8. daemon' = CASE m.kind = "template" -> Daemon!ParseJob(d, m.tip)
                  [] m.kind = "block" -> IF Zmq THEN Daemon!Answered(d) ELSE Daemon!Ask(Daemon!Answered(d), "template")
                  [] m.kind = "height" /\ ~HasHash -> Daemon!Ask([d EXCEPT !.api = "default"], "info")
                  [] OTHER -> Daemon!TipSeen(d, m.tip)
  BY DEF Daemon!HttpData
<1>9. m.kind # "block" => Even(d, daemon)
  <2> HIDE DEF d
  <2> QED
    BY <1>4, <1>5, <1>7 DEF Even
<1> HIDE DEF d
<1>10. CASE m.kind = "template"
  <2>1. daemon' = Daemon!ParseJob(d, m.tip)
    BY <1>8, <1>10
  <2>2. daemon' \in Solos /\ Watched(daemon') /\ Trying(daemon') /\ daemon'.results = d.results /\ daemon'.net = d.net
    BY <1>4, <1>5, <1>6, <2>1, JobParsed
  <2>3. Even(daemon', daemon)
    BY <1>9, <1>10, <2>2, SameNet DEF Even
  <2> QED
    BY <1>1, <1>2, <2>2, <2>3, EvenCarries
<1>11. CASE m.kind = "block"
  <2> DEFINE b == Daemon!Answered(d)
  <2>1. /\ b \in Solos /\ b.state = d.state /\ b.up = d.up /\ b.again = d.again /\ b.timer = d.timer /\ FeedAlike(b, d)
        /\ b.net = d.net /\ b.req = d.req /\ b.prev = d.prev
        /\ b.results = d.results - 1
    BY <1>5 DEF Daemon!Answered, Solos, FeedAlike
  <2> HIDE DEF b
  <2>2. Watched(b)
    BY <1>4, <2>1 DEF Watched, FeedAlike
  <2>3. Filing(b, budget)
    <3>1. Unanswered(b) = Unanswered(daemon) - 1
      BY <1>4, <1>11, <2>1 DEF Unanswered
    <3>2. \A n \in Daemon!Msgs : b.net[n] > 0 => daemon.net[n] > 0
      BY <1>4, <2>1
    <3>3. /\ budget.faults \in Int /\ budget.silences \in Int /\ budget.submits \in Int
          /\ Troubles \in Int /\ Unheard \in Int /\ MaxBlocks \in Int
      BY DEF DaemonInv, Budgets, Daemon!DaemonAssumption
    <3> QED
      BY <1>2, <1>5, <1>7, <2>1, <3>1, <3>2, <3>3 DEF Filing
  <2>4. Trying(daemon) => Trying(b)
    BY <1>4, <1>11, <2>1 DEF Trying, Coming, FeedAlike
  <2>5. daemon' = b \/ daemon' = Daemon!Ask(b, "template")
    BY <1>8, <1>11 DEF b
  <2>6. "template" \in Daemon!Kinds \ {"block"}
    BY DEF Daemon!Kinds
  <2> DEFINE a == Daemon!Ask(b, "template")
  <2>7. a \in Solos /\ Watched(a) /\ Even(a, b)
    BY <2>1, <2>2, <2>6, AskedEven
  <2>8. Trying(a)
    BY <2>1, <2>2, <2>6, Asked
  <2>9. Filing(a, budget)
    BY <2>3, <2>7, EvenFiles
  <2> HIDE DEF a
  <2> QED
    BY <1>1, <1>2, <2>1, <2>2, <2>3, <2>4, <2>5, <2>7, <2>8, <2>9 DEF DaemonInv, a
<1>12. CASE m.kind = "height" /\ ~HasHash
  <2> DEFINE b == [d EXCEPT !.api = "default"]
  <2>1. /\ b \in Solos /\ b.state = d.state /\ b.up = d.up /\ b.again = d.again /\ b.timer = d.timer /\ FeedAlike(b, d)
        /\ b.net = d.net /\ b.req = d.req /\ b.prev = d.prev
        /\ b.results = d.results
    BY <1>5 DEF Solos, FeedAlike
  <2> HIDE DEF b
  <2>2. Watched(b) /\ Even(b, daemon)
    BY <1>4, <1>9, <1>12, <2>1 DEF Watched, FeedAlike, Even, Unanswered
  <2>3. Trying(daemon) => Trying(b) \/ (b.req = 0 /\ b.prev = 0)
    BY <1>4, <1>5, <1>12, <2>1 DEF Trying, Coming, FeedAlike
  <2>4. "info" \in Daemon!Kinds \ {"block"}
    BY DEF Daemon!Kinds
  <2>5. daemon' = Daemon!Ask(b, "info")
    BY <1>8, <1>12 DEF b
  <2>6. daemon' \in Solos /\ Watched(daemon') /\ Even(daemon', b)
    BY <2>1, <2>2, <2>4, <2>5, AskedEven
  <2>7. Trying(daemon) => Trying(daemon')
    BY <2>1, <2>2, <2>3, <2>4, <2>5, Asked
  <2>8. Even(daemon', daemon)
    BY <2>2, <2>6 DEF Even
  <2> QED
    BY <1>1, <1>2, <2>6, <2>7, <2>8, EvenCarries
<1>13. CASE m.kind # "template" /\ m.kind # "block" /\ ~(m.kind = "height" /\ ~HasHash)
  <2>1. daemon' = Daemon!TipSeen(d, m.tip)
    BY <1>8, <1>13
  <2>2. /\ daemon' \in Solos /\ Watched(daemon') /\ Even(daemon', d)
        /\ Trying(d) \/ (d.req = 0 /\ d.prev = 0) => Trying(daemon')
    BY <1>1, <1>4, <1>5, <1>6, <2>1, TipHandled
  <2>3. Even(daemon', daemon)
    BY <1>9, <1>13, <2>2 DEF Even
  <2> QED
    BY <1>1, <1>2, <1>4, <1>5, <1>13, <2>2, <2>3, EvenCarries
<1> QED
  BY <1>10, <1>11, <1>12, <1>13

LEMMA CarryFailed ==
    ASSUME Daemon!DaemonAssumption, DaemonInv, ~daemon.broken, NEW m \in Daemon!Msgs,
           Daemon!HttpFailed(m) \/ Daemon!Silent(m)
    PROVE  DaemonInv'
<1> DEFINE d == Daemon!Take(daemon, m)
           b == Daemon!Answered(d)
<1>1. /\ daemon.net[m] > 0 /\ UNCHANGED chain
      /\ \/ daemon' = Daemon!Retry(d) /\ Daemon!Spend("faults")
         \/ m.kind = "block" /\ daemon' = Daemon!Retry(b) /\ Daemon!Spend("faults")
         \/ daemon' = d /\ Daemon!Spend("silences")
  BY DEF Daemon!HttpFailed, Daemon!Silent
<1>2. daemon \in Solos /\ Watched(daemon) /\ chain \in Daemon!Tips /\ Filing(daemon, budget)
  BY DEF DaemonInv
<1>3. m.kind = "block" => m.tip \in {0, 1}
  BY <1>1, <1>2 DEF Filing
<1>4. /\ Alike(d, daemon) /\ Watched(d)
      /\ Unanswered(d) = Unanswered(daemon) - (IF m.kind = "block" THEN 1 ELSE 0)
      /\ \A n \in Daemon!Msgs : d.net[n] > 0 => daemon.net[n] > 0
  BY <1>1, <1>2, <1>3, Taken
<1>5. d \in Solos /\ d.results = daemon.results
  BY <1>4 DEF Alike
<1> HIDE DEF d
<1>6. /\ b \in Solos /\ b.state = d.state /\ b.up = d.up /\ b.again = d.again /\ b.timer = d.timer /\ FeedAlike(b, d)
      /\ b.net = d.net /\ b.results = d.results - 1
  BY <1>5 DEF Daemon!Answered, Solos, FeedAlike
<1> HIDE DEF b
<1>7. Watched(b) /\ ~d.broken /\ ~b.broken
  BY <1>4, <1>6 DEF Watched, FeedAlike, Alike
<1>8. Unanswered(daemon) \in Int /\ Unanswered(d) \in Int /\ daemon.results \in Int
  <2>1. "block" \in Daemon!Kinds
    BY DEF Daemon!Kinds
  <2>2. \A r \in Solos : Unanswered(r) \in Int /\ r.results \in Int
    BY <2>1, MsgFacts DEF Unanswered, Solos, Nets
  <2> QED
    BY <1>2, <1>5, <2>2
<1>9. /\ \A w \in {"faults", "silences"} : Daemon!Spend(w) =>
             /\ budget' \in Budgets /\ budget'[w] = budget[w] - 1 /\ budget[w] > 0
             /\ \A v \in {"faults", "silences", "submits"} \ {w} : budget'[v] = budget[v]
      /\ budget.faults \in 0 .. Troubles /\ budget.silences \in 0 .. Unheard
      /\ budget.faults \in Int /\ budget.silences \in Int /\ budget.submits \in Int
      /\ Troubles \in Int /\ Unheard \in Int /\ MaxBlocks \in Int
  <2>1. /\ budget.faults \in 0 .. Troubles /\ budget.silences \in 0 .. Unheard
        /\ budget.faults \in Int /\ budget.silences \in Int /\ budget.submits \in Int
        /\ Troubles \in Int /\ Unheard \in Int /\ MaxBlocks \in Int
    BY DEF DaemonInv, Budgets, Daemon!DaemonAssumption
  <2> QED
    BY <2>1, Spent
<1>10. CASE daemon' = Daemon!Retry(d) /\ Daemon!Spend("faults")
  <2>1. daemon' \in Solos /\ Watched(daemon') /\ Trying(daemon') /\ daemon'.results = d.results /\ daemon'.net = d.net
    BY <1>4, <1>5, <1>7, <1>10, Retried
  <2>2. Unanswered(daemon') = Unanswered(d)
    BY <2>1 DEF Unanswered
  <2>3. Filing(daemon', budget')
    BY <1>2, <1>4, <1>5, <1>8, <1>9, <1>10, <2>1, <2>2 DEF Filing
  <2> QED
    BY <1>1, <1>2, <1>9, <1>10, <2>1, <2>3 DEF DaemonInv
<1>11. CASE m.kind = "block" /\ daemon' = Daemon!Retry(b) /\ Daemon!Spend("faults")
  <2>1. daemon' \in Solos /\ Watched(daemon') /\ Trying(daemon') /\ daemon'.results = b.results /\ daemon'.net = b.net
    BY <1>6, <1>7, <1>11, Retried
  <2>2. Unanswered(daemon') = Unanswered(d)
    BY <1>6, <2>1 DEF Unanswered
  <2>3. Filing(daemon', budget')
    BY <1>2, <1>4, <1>5, <1>6, <1>8, <1>9, <1>11, <2>1, <2>2 DEF Filing
  <2> QED
    BY <1>1, <1>2, <1>9, <1>11, <2>1, <2>3 DEF DaemonInv
<1>12. CASE daemon' = d /\ Daemon!Spend("silences")
  <2>1. Filing(daemon', budget')
    BY <1>2, <1>4, <1>5, <1>8, <1>9, <1>12 DEF Filing
  <2>2. budget'.silences # Unheard
    BY <1>9, <1>12
  <2> QED
    BY <1>1, <1>2, <1>4, <1>5, <1>9, <1>12, <2>1, <2>2 DEF DaemonInv
<1> QED
  BY <1>1, <1>10, <1>11, <1>12

LEMMA CarryTimer ==
    ASSUME Daemon!DaemonAssumption, DaemonInv, Daemon!OnTimer
    PROVE  DaemonInv'
<1> DEFINE d == [daemon EXCEPT !.timer = IF @ = "once" THEN "off" ELSE @]
           f == [d EXCEPT !.prev = 0, !.req = 0]
           e == IF d.late THEN f ELSE d
<1>1. daemon \in Solos /\ Watched(daemon) /\ chain \in Daemon!Tips /\ daemon.timer # "off"
  BY DEF DaemonInv, Daemon!OnTimer
<1>2. /\ UNCHANGED <<chain, budget>>
      /\ Zmq => daemon' = Daemon!Ask(f, "height")
      /\ ~Zmq => daemon' = CASE d.state = "connecting"  -> Daemon!Connect(e)
                            [] d.state = "connected"   -> Daemon!Ask(e, IF e.api = "monero" THEN "height" ELSE "info")
                            [] d.state = "unconnected" -> e
  BY DEF Daemon!OnTimer
<1>3. /\ d \in Solos /\ d.state = daemon.state /\ d.up = daemon.up /\ d.again = daemon.again /\ FeedAlike(d, daemon)
      /\ d.net = daemon.net /\ d.results = daemon.results
      /\ d.timer = IF daemon.timer = "once" THEN "off" ELSE daemon.timer
  BY <1>1 DEF Solos, FeedAlike
<1> HIDE DEF d
<1>4. Watched(d) /\ Even(d, daemon)
  BY <1>1, <1>3, SameNet DEF Watched, FeedAlike
<1>5. /\ f \in Solos /\ f.state = d.state /\ f.up = d.up /\ f.again = d.again /\ FeedAlike(f, d) /\ f.timer = d.timer
      /\ f.net = d.net /\ f.results = d.results
      /\ f.req = 0 /\ f.prev = 0
  <2>1. 0 \in Heights
    BY MsgFacts
  <2> QED
    BY <1>3, <2>1 DEF Solos, FeedAlike
<1> HIDE DEF f
<1>6. Watched(f) /\ Even(f, daemon)
  BY <1>1, <1>3, <1>4, <1>5, SameNet DEF Watched, FeedAlike
<1>7. e \in Solos /\ Watched(e) /\ Even(e, daemon) /\ e.state = d.state /\ e.timer = d.timer /\ e.up = d.up /\ e.again = d.again
  BY <1>3, <1>4, <1>5, <1>6
<1> HIDE DEF e
<1>8. {"height", "info", "template"} = Daemon!Kinds \ {"block"}
  BY DEF Daemon!Kinds
<1>9. CASE Zmq
  <2>1. daemon' = Daemon!Ask(f, "height") /\ "height" \in Daemon!Kinds \ {"block"}
    BY <1>2, <1>8, <1>9
  <2>2. daemon' \in Solos /\ Watched(daemon') /\ Even(daemon', f)
    BY <1>5, <1>6, <2>1, AskedEven
  <2>3. Trying(daemon')
    BY <1>5, <1>6, <2>1, Asked
  <2>4. Even(daemon', daemon)
    BY <1>6, <2>2 DEF Even
  <2> QED
    BY <1>1, <1>2, <2>2, <2>3, <2>4, EvenCarries
<1>10. CASE ~Zmq /\ d.state = "connecting"
  <2>1. daemon' = Daemon!Connect(e)
    BY <1>2, <1>10
  <2>2. daemon' \in Solos /\ Watched(daemon') /\ Trying(daemon') /\ Even(daemon', e)
    BY <1>7, <2>1, Connecting
  <2>3. Even(daemon', daemon)
    BY <1>7, <2>2 DEF Even
  <2> QED
    BY <1>1, <1>2, <2>2, <2>3, EvenCarries
<1>11. CASE ~Zmq /\ d.state = "connected"
  <2> DEFINE k == IF e.api = "monero" THEN "height" ELSE "info"
  <2>1. daemon' = Daemon!Ask(e, k) /\ k \in Daemon!Kinds \ {"block"}
    BY <1>2, <1>8, <1>11
  <2> HIDE DEF k
  <2>2. daemon' \in Solos /\ Watched(daemon') /\ Even(daemon', e)
    BY <1>7, <2>1, AskedEven
  <2>3. Alike(daemon', e)
    BY <1>7, <2>1, Asked
  <2>4. e.timer = "poll"
    BY <1>7, <1>11 DEF Watched
  <2>5. Trying(daemon')
    BY <2>3, <2>4 DEF Trying, Alike
  <2>6. Even(daemon', daemon)
    BY <1>7, <2>2 DEF Even
  <2> QED
    BY <1>1, <1>2, <2>2, <2>5, <2>6, EvenCarries
<1>12. CASE ~Zmq /\ d.state = "unconnected"
  <2>1. daemon' = e
    BY <1>2, <1>12
  <2>2. Trying(e)
    BY <1>7, <1>12 DEF Trying
  <2> QED
    BY <1>1, <1>2, <1>7, <2>1, <2>2, EvenCarries
<1>13. d.state \in {"unconnected", "connecting", "connected"}
  BY <1>3 DEF Solos, Daemon!States
<1> QED
  BY <1>9, <1>10, <1>11, <1>12, <1>13

LEMMA CarrySubmit ==
    ASSUME Daemon!DaemonAssumption, DaemonInv, Daemon!Submit
    PROVE  DaemonInv'
<1> DEFINE d == [daemon EXCEPT !.results = @ + 1]
<1>1. daemon.up /\ Daemon!Spend("submits") /\ UNCHANGED chain /\ daemon' = Daemon!Ask(d, "block")
  BY DEF Daemon!Submit
<1>2. daemon \in Solos /\ Watched(daemon) /\ chain \in Daemon!Tips /\ Filing(daemon, budget)
  BY DEF DaemonInv
<1>3. /\ d \in Solos /\ d.state = daemon.state /\ d.up = daemon.up /\ d.again = daemon.again /\ FeedAlike(d, daemon)
      /\ d.net = daemon.net
      /\ d.results = daemon.results + 1 /\ d.timer = daemon.timer
  BY <1>2 DEF Solos, FeedAlike
<1> HIDE DEF d
<1>4. Watched(d) /\ Unanswered(d) = Unanswered(daemon)
  BY <1>2, <1>3 DEF Watched, FeedAlike, Unanswered
<1>5. "block" \in Daemon!Kinds
  BY DEF Daemon!Kinds
<1>6. /\ Alike(daemon', d) /\ Watched(daemon') /\ Unanswered(daemon') = Unanswered(d) + 1
      /\ \A m \in Daemon!Msgs : daemon'.net[m] > 0 => d.net[m] > 0 \/ (m.kind = "block" /\ m.tip = 0)
  BY <1>1, <1>3, <1>4, <1>5, Asked
<1>7. Unanswered(daemon) \in Int /\ daemon.results \in Int
  BY <1>2, <1>5, MsgFacts DEF Unanswered, Solos, Nets
<1>8. /\ budget' \in Budgets /\ budget'.submits = budget.submits - 1
      /\ budget'.faults = budget.faults /\ budget'.silences = budget.silences
      /\ budget.faults \in Int /\ budget.silences \in Int /\ budget.submits \in Int
  BY <1>1, Spent
<1>9. Troubles \in Int /\ Unheard \in Int /\ MaxBlocks \in Int
  BY DEF Daemon!DaemonAssumption
<1>10. Filing(daemon', budget')
  <2>1. daemon'.results = daemon.results + 1
    BY <1>3, <1>6 DEF Alike
  <2>2. \A m \in Daemon!Msgs : daemon'.net[m] > 0 => daemon.net[m] > 0 \/ m.tip = 0
    BY <1>3, <1>6
  <2> QED
    BY <1>2, <1>4, <1>6, <1>7, <1>8, <1>9, <2>1, <2>2 DEF Filing
<1>11. Trying(daemon')
  BY <1>1, <1>2, <1>3, <1>6 DEF Trying, Alike, Watched
<1> QED
  BY <1>1, <1>2, <1>6, <1>8, <1>10, <1>11 DEF DaemonInv, Alike

LEMMA CarryStart ==
    ASSUME Daemon!DaemonAssumption, DaemonInv, ~daemon.broken, Daemon!Start
    PROVE  DaemonInv'
<1> DEFINE d == [daemon EXCEPT !.state = "connecting"]
<1>1. /\ UNCHANGED chain
      /\ \/ daemon' = Daemon!Connect(daemon) /\ UNCHANGED budget
         \/ Daemon!Spend("faults") /\ daemon' = Daemon!Retry(d)
  BY DEF Daemon!Start
<1>2. daemon \in Solos /\ Watched(daemon) /\ chain \in Daemon!Tips
  BY DEF DaemonInv
<1>3. d \in Solos /\ FeedAlike(d, daemon) /\ d.net = daemon.net /\ d.results = daemon.results
  BY <1>2 DEF Solos, Daemon!States, FeedAlike
<1> HIDE DEF d
<1>4. CASE daemon' = Daemon!Connect(daemon) /\ UNCHANGED budget
  BY <1>1, <1>2, <1>4, Connecting, EvenCarries
<1>5. CASE Daemon!Spend("faults") /\ daemon' = Daemon!Retry(d)
  <2>1. Daemon!FeedOpen(d) => daemon.feed # "none"
    BY <1>3 DEF Daemon!FeedOpen, FeedAlike
  <2>2. daemon' \in Solos /\ Watched(daemon') /\ Trying(daemon') /\ daemon'.results = d.results /\ daemon'.net = d.net
    BY <1>2, <1>3, <1>5, <2>1, RetryFields DEF Watched, FeedAlike, Trying
  <2>3. Even(daemon', daemon)
    BY <1>3, <2>2, SameNet
  <2> QED
    BY <1>1, <1>2, <1>5, <2>2, <2>3, FaultCarries
<1> QED
  BY <1>1, <1>4, <1>5

LEMMA CarryStop ==
    ASSUME Daemon!DaemonAssumption, DaemonInv, Daemon!Stop
    PROVE  DaemonInv'
<1>1. /\ Daemon!Spend("stops") /\ UNCHANGED chain
      /\ daemon' = [daemon EXCEPT !.state = "unconnected", !.failures = -1, !.timer = "off", !.up = FALSE,
                               !.again = FALSE]
  BY DEF Daemon!Stop
<1>2. daemon \in Solos /\ Watched(daemon) /\ chain \in Daemon!Tips /\ Filing(daemon, budget)
  BY DEF DaemonInv
<1>3. /\ daemon' \in Solos /\ daemon'.state = "unconnected" /\ daemon'.up = FALSE /\ daemon'.again = FALSE
      /\ FeedAlike(daemon', daemon)
      /\ daemon'.net = daemon.net
      /\ daemon'.results = daemon.results
  <2>1. -1 \in Losses
    BY DEF Losses, Daemon!DaemonAssumption
  <2> QED
    BY <1>1, <1>2, <2>1 DEF Solos, Daemon!States, FeedAlike
<1>4. Watched(daemon') /\ Trying(daemon')
  BY <1>2, <1>3 DEF Watched, FeedAlike, Trying
<1>5. /\ budget' \in Budgets /\ budget'.submits = budget.submits
      /\ budget'.faults = budget.faults /\ budget'.silences = budget.silences
  BY <1>1, Spent
<1>6. Filing(daemon', budget')
  BY <1>2, <1>3, <1>5 DEF Filing, Unanswered
<1> QED
  BY <1>1, <1>2, <1>3, <1>4, <1>5, <1>6 DEF DaemonInv

LEMMA CarryResolved ==
    ASSUME Daemon!DaemonAssumption, DaemonInv, ~daemon.broken, Daemon!Resolved
    PROVE  DaemonInv'
<1> DEFINE d == [daemon EXCEPT !.dns = FALSE]
           n == [daemon EXCEPT !.dns = FALSE, !.tcp = TRUE, !.held = TRUE, !.broken = daemon.held]
<1>1. /\ daemon.dns /\ UNCHANGED chain
      /\ \/ daemon' = n /\ UNCHANGED budget
         \/ Daemon!Spend("faults") /\ daemon' = Daemon!Retry(d)
  BY DEF Daemon!Resolved
<1>2. daemon \in Solos /\ Watched(daemon) /\ chain \in Daemon!Tips
  BY DEF DaemonInv
<1>3. Zmq /\ (~daemon.held => ~daemon.closing /\ daemon.feed = "none")
  BY <1>1, <1>2 DEF Watched
<1>4. CASE daemon' = n /\ UNCHANGED budget
  <2>1. /\ n \in Solos /\ n.up = daemon.up /\ n.again = daemon.again /\ n.state = daemon.state
        /\ n.timer = daemon.timer /\ n.results = daemon.results /\ n.net = daemon.net
        /\ n.tcp = TRUE /\ n.held = TRUE /\ n.broken = daemon.held
        /\ n.feed = daemon.feed /\ n.closing = daemon.closing
    BY <1>2 DEF Solos
  <2> HIDE DEF n
  <2>2. Watched(n) /\ Trying(n) /\ Even(n, daemon)
    BY <1>2, <1>3, <2>1, SameNet DEF Watched, Trying
  <2> QED
    BY <1>1, <1>2, <1>4, <2>1, <2>2, EvenCarries
<1>5. CASE Daemon!Spend("faults") /\ daemon' = Daemon!Retry(d)
  <2>1. /\ d \in Solos /\ d.state = daemon.state /\ d.up = daemon.up /\ d.again = daemon.again /\ d.timer = daemon.timer
        /\ d.dns = FALSE /\ d.tcp = daemon.tcp /\ d.held = daemon.held /\ d.feed = daemon.feed
        /\ d.closing = daemon.closing /\ d.broken = daemon.broken /\ d.net = daemon.net /\ d.results = daemon.results
    BY <1>2 DEF Solos
  <2> HIDE DEF d
  <2>2. Watched(d)
    BY <1>2, <2>1 DEF Watched
  <2>3. daemon' \in Solos /\ Watched(daemon') /\ Trying(daemon') /\ daemon'.results = d.results /\ daemon'.net = d.net
    BY <1>5, <2>1, <2>2, Retried
  <2>4. Even(daemon', daemon)
    BY <2>1, <2>3, SameNet
  <2> QED
    BY <1>1, <1>2, <1>5, <2>3, <2>4, FaultCarries
<1> QED
  BY <1>1, <1>4, <1>5

LEMMA CarryDialled ==
    ASSUME Daemon!DaemonAssumption, DaemonInv, ~daemon.broken, Daemon!Dialled
    PROVE  DaemonInv'
<1> DEFINE d == [daemon EXCEPT !.tcp = FALSE]
           g == [d EXCEPT !.feed = "greeting1"]
<1>1. /\ daemon.tcp /\ UNCHANGED chain
      /\ \/ daemon' = g /\ UNCHANGED budget
         \/ Daemon!Spend("faults") /\ (daemon' = Daemon!Retry(d) \/ daemon' = Daemon!ZMQClose(g))
  BY DEF Daemon!Dialled
<1>2. daemon \in Solos /\ Watched(daemon) /\ chain \in Daemon!Tips
  BY DEF DaemonInv
<1>3. daemon.feed = "none" /\ ~daemon.closing /\ daemon.held /\ Zmq
  BY <1>1, <1>2 DEF Watched
<1>4. /\ d \in Solos /\ d.state = daemon.state /\ d.up = daemon.up /\ d.again = daemon.again /\ d.timer = daemon.timer
      /\ d.dns = daemon.dns /\ d.tcp = FALSE /\ d.held = daemon.held /\ d.feed = daemon.feed
      /\ d.closing = daemon.closing /\ d.broken = daemon.broken /\ d.net = daemon.net /\ d.results = daemon.results
  BY <1>2 DEF Solos
<1> HIDE DEF d
<1>5. "greeting1" \in Daemon!Feeds /\ "greeting1" \in Daemon!Phases
  BY DEF Daemon!Feeds, Daemon!Phases
<1>6. /\ g \in Solos /\ g.state = d.state /\ g.up = d.up /\ g.again = d.again /\ g.timer = d.timer
      /\ g.dns = d.dns /\ g.tcp = d.tcp /\ g.held = d.held /\ g.feed = "greeting1"
      /\ g.closing = d.closing /\ g.broken = d.broken /\ g.net = d.net /\ g.results = d.results
  BY <1>4, <1>5 DEF Solos
<1> HIDE DEF g
<1>7. Watched(d) /\ Even(d, daemon)
  BY <1>2, <1>3, <1>4, SameNet DEF Watched
<1>8. Watched(g) /\ Trying(g) /\ Even(g, daemon)
  BY <1>2, <1>3, <1>4, <1>5, <1>6, SameNet DEF Watched, Trying
<1>9. CASE daemon' = g /\ UNCHANGED budget
  BY <1>1, <1>2, <1>6, <1>8, <1>9, EvenCarries
<1>10. CASE Daemon!Spend("faults") /\ daemon' = Daemon!Retry(d)
  <2>1. daemon' \in Solos /\ Watched(daemon') /\ Trying(daemon') /\ daemon'.results = d.results /\ daemon'.net = d.net
    BY <1>4, <1>7, <1>10, Retried
  <2>2. Even(daemon', daemon)
    BY <1>4, <2>1, SameNet
  <2> QED
    BY <1>1, <1>2, <1>10, <2>1, <2>2, FaultCarries
<1>11. CASE Daemon!Spend("faults") /\ daemon' = Daemon!ZMQClose(g)
  <2>1. Daemon!FeedOpen(g) /\ ~g.closing /\ ~g.broken
    BY <1>3, <1>4, <1>6 DEF Daemon!FeedOpen
  <2>2. daemon' \in Solos /\ Watched(daemon') /\ Trying(daemon') /\ Even(daemon', g)
    BY <1>6, <1>8, <1>11, <2>1, FeedClosed
  <2>3. Even(daemon', daemon)
    BY <1>8, <2>2 DEF Even
  <2> QED
    BY <1>1, <1>2, <1>11, <2>2, <2>3, FaultCarries
<1> QED
  BY <1>1, <1>9, <1>10, <1>11

(* One phase of the handshake.                                             *)
LEMMA PhaseDone ==
    ASSUME Daemon!DaemonAssumption, NEW r \in Solos, Watched(r), r.feed \in Daemon!Phases,
           ~r.closing \/ r.timer # "off"
    PROVE  LET a == Daemon!Phase(r) IN
           /\ a \in Solos /\ Watched(a) /\ Trying(a) /\ Even(a, r) /\ a.closing = r.closing
           /\ a.timer = r.timer /\ a.broken = r.broken /\ Daemon!FeedOpen(a)
<1> DEFINE a(f) == [r EXCEPT !.feed = f]
<1> DEFINE Fine(b) == /\ Watched(b) /\ b \in Solos /\ Even(b, r) /\ b.closing = r.closing
                      /\ b.timer = r.timer /\ b.broken = r.broken
<1>1. \A f \in Daemon!Feeds : Fine(a(f)) /\ a(f).feed = f
  <2> SUFFICES ASSUME NEW f \in Daemon!Feeds PROVE Fine(a(f)) /\ a(f).feed = f
    OBVIOUS
  <2> DEFINE d == a(f)
  <2>1. /\ d \in Solos /\ d.dns = r.dns /\ d.tcp = r.tcp /\ d.held = r.held /\ d.closing = r.closing
        /\ d.broken = r.broken /\ d.up = r.up /\ d.again = r.again /\ d.state = r.state /\ d.net = r.net
        /\ d.results = r.results /\ d.timer = r.timer /\ d.feed = f
    BY DEF Solos
  <2> HIDE DEF d
  <2>2. r.feed # "none"
    BY DEF Daemon!Phases
  <2>3. Watched(d) /\ Even(d, r)
    BY <2>1, <2>2, SameNet DEF Watched
  <2> QED
    BY <2>1, <2>3 DEF d
<1>2. \A f \in Daemon!Phases : Trying(a(f))
  BY DEF Solos, Trying
<1>3. Daemon!Phases = {"greeting1", "greeting2", "handshake"} /\ Daemon!Phases \subseteq Daemon!Feeds
      /\ "connected" \in Daemon!Feeds /\ \A b : b.feed \in Daemon!Phases \union {"connected"} => Daemon!FeedOpen(b)
  BY DEF Daemon!FeedOpen, Daemon!Phases, Daemon!Feeds
<1>4. CASE r.feed = "greeting1"
  <2>1. Daemon!Phase(r) = a("greeting2")
    BY <1>4 DEF Daemon!Phase
  <2> HIDE DEF a
  <2> QED
    BY <1>1, <1>2, <1>3, <2>1
<1>5. CASE r.feed = "greeting2"
  <2>1. Daemon!Phase(r) = a("handshake")
    BY <1>5 DEF Daemon!Phase
  <2> HIDE DEF a
  <2> QED
    BY <1>1, <1>2, <1>3, <2>1
<1>6. CASE r.feed = "handshake"
  <2>1. Daemon!Phase(r) = Daemon!Ask(a("connected"), "template")
    BY <1>6 DEF Daemon!Phase
  <2> DEFINE d == a("connected")
             p == Daemon!Ask(d, "template")
  <2>2. Fine(d) /\ d.feed = "connected"
    BY <1>1, <1>3
  <2>3. "template" \in Daemon!Kinds \ {"block"}
    BY DEF Daemon!Kinds
  <2> HIDE DEF a, d
  <2>4. p \in Solos /\ Watched(p) /\ Even(p, d) /\ Trying(p) /\ Alike(p, d)
    BY <2>2, <2>3, AskedEven, Asked
  <2> HIDE DEF p
  <2>5. Even(p, r)
    BY <2>2, <2>4 DEF Even
  <2>6. p.closing = r.closing /\ p.timer = r.timer /\ p.broken = r.broken /\ p.feed = "connected"
    BY <2>2, <2>4 DEF Alike, FeedAlike
  <2> QED
    BY <1>3, <2>1, <2>4, <2>5, <2>6 DEF p, d
<1> QED
  BY <1>3, <1>4, <1>5, <1>6

(* The daemon says on the feed that it has a new tip.                      *)
LEMMA TipAsked ==
    ASSUME Daemon!DaemonAssumption, NEW r \in Solos, Watched(r)
    PROVE  LET a == Daemon!TipCame(r) IN a \in Solos /\ Watched(a) /\ Trying(a) /\ Even(a, r)
<1> DEFINE d == [r EXCEPT !.prev = 0, !.req = 0, !.timer = "poll"]
           a == Daemon!Ask(d, "height")
<1>1. /\ d \in Solos /\ d.state = r.state /\ d.up = r.up /\ d.again = r.again /\ FeedAlike(d, r)
      /\ d.net = r.net /\ d.results = r.results /\ d.timer = "poll"
  <2>1. 0 \in Heights
    BY MsgFacts
  <2> QED
    BY <2>1 DEF Solos, FeedAlike
<1>2. Daemon!TipCame(r) = a
  BY DEF Daemon!TipCame
<1> HIDE DEF d
<1>3. Watched(d) /\ Trying(d) /\ Even(d, r)
  BY <1>1, SameNet DEF Watched, FeedAlike, Trying
<1>4. "height" \in Daemon!Kinds \ {"block"}
  BY DEF Daemon!Kinds
<1>5. a \in Solos /\ Watched(a) /\ Even(a, d) /\ Trying(a)
  BY <1>1, <1>3, <1>4, AskedEven, Asked
<1> HIDE DEF a
<1>6. Even(a, r)
  BY <1>3, <1>5 DEF Even
<1> QED
  BY <1>2, <1>5, <1>6

LEMMA CarryHandshake ==
    ASSUME Daemon!DaemonAssumption, DaemonInv, ~daemon.broken, Daemon!Handshake
    PROVE  DaemonInv'
<1> DEFINE z == Daemon!ZMQClose(daemon)
           d == [z EXCEPT !.feed = daemon.feed]
           e == Daemon!Phase(d)
           x == Daemon!ZMQClose(e)
           y == Daemon!TipCame(e)
           Good(b) == b \in Solos /\ Watched(b) /\ Trying(b) /\ Even(b, daemon)
<1>1. /\ daemon.feed \in Daemon!Phases /\ ~daemon.closing /\ UNCHANGED chain
      /\ \/ daemon' = Daemon!Phase(daemon) /\ UNCHANGED budget
         \/ Daemon!Spend("faults") /\ daemon' \in Daemon!PhaseFailed(daemon)
  BY DEF Daemon!Handshake
<1>2. daemon \in Solos /\ Watched(daemon) /\ chain \in Daemon!Tips
  BY DEF DaemonInv
<1>3. Daemon!FeedOpen(daemon) /\ daemon.feed \in Daemon!Feeds /\ daemon.feed # "none"
  BY <1>1 DEF Daemon!FeedOpen, Daemon!Phases, Daemon!Feeds
<1>4. daemon' \in Daemon!PhaseFailed(daemon) => daemon' \in {e, x, z, y}
  BY <1>1 DEF Daemon!PhaseFailed, Daemon!Phases
<1>5. daemon.held /\ ~daemon.tcp /\ Zmq
  BY <1>2, <1>3 DEF Watched
<1>6. Good(z) /\ z.timer = "once" /\ z.closing /\ ~z.broken /\ z.dns = daemon.dns /\ z.tcp = daemon.tcp /\ z.held = daemon.held
  BY <1>1, <1>2, <1>3, FeedClosed
<1> HIDE DEF z
<1>7. /\ d \in Solos /\ d.state = z.state /\ d.up = z.up /\ d.again = z.again /\ d.timer = "once"
      /\ d.net = z.net /\ d.results = z.results /\ d.feed = daemon.feed /\ d.closing = z.closing
      /\ d.dns = z.dns /\ d.tcp = z.tcp /\ d.held = z.held /\ d.broken = z.broken
  BY <1>3, <1>6 DEF Solos
<1> HIDE DEF d
<1>8. Watched(d) /\ Even(d, z)
  BY <1>5, <1>6, <1>7, SameNet DEF Watched
<1>9. /\ e \in Solos /\ Watched(e) /\ Trying(e) /\ Even(e, d) /\ e.closing = d.closing /\ e.timer = "once"
      /\ e.broken = d.broken /\ Daemon!FeedOpen(e)
  BY <1>1, <1>7, <1>8, PhaseDone
<1> HIDE DEF e
<1>10. Even(e, daemon)
  BY <1>6, <1>8, <1>9 DEF Even
<1>11. x \in Solos /\ Watched(x) /\ Even(x, e) /\ x.timer = "once"
  BY <1>6, <1>7, <1>9, FeedClosed
<1> HIDE DEF x
<1>12. Good(x)
  BY <1>10, <1>11 DEF Even, Trying
<1>13. y \in Solos /\ Watched(y) /\ Trying(y) /\ Even(y, e)
  BY <1>9, TipAsked
<1> HIDE DEF y
<1>14. Good(y)
  BY <1>10, <1>13 DEF Even
<1>15. CASE daemon' = Daemon!Phase(daemon) /\ UNCHANGED budget
  BY <1>1, <1>2, <1>15, PhaseDone, EvenCarries
<1>16. CASE Daemon!Spend("faults") /\ daemon' \in Daemon!PhaseFailed(daemon)
  <2>1. Good(daemon')
    BY <1>4, <1>6, <1>9, <1>10, <1>12, <1>14, <1>16
  <2> QED
    BY <1>1, <1>2, <1>16, <2>1, FaultCarries
<1> QED
  BY <1>1, <1>15, <1>16

LEMMA CarryParse ==
    ASSUME Daemon!DaemonAssumption, DaemonInv, Daemon!ZMQParse
    PROVE  DaemonInv'
<1>1. chain < Newest /\ chain' = chain + 1 /\ UNCHANGED budget /\ daemon' = Daemon!TipCame(daemon)
  BY DEF Daemon!ZMQParse
<1>2. daemon \in Solos /\ Watched(daemon) /\ chain \in Daemon!Tips
  BY DEF DaemonInv
<1>3. chain' \in Daemon!Tips
  BY <1>1, <1>2 DEF Daemon!Tips, Daemon!DaemonAssumption
<1> QED
  BY <1>1, <1>2, <1>3, TipAsked, EvenCarries

LEMMA CarryClosed ==
    ASSUME Daemon!DaemonAssumption, DaemonInv, ~daemon.broken, Daemon!ZMQLost \/ Daemon!ZMQClosed
    PROVE  DaemonInv'
<1>1. daemon \in Solos /\ Watched(daemon) /\ chain \in Daemon!Tips
  BY DEF DaemonInv
<1>2. CASE Daemon!ZMQLost
  <2>1. /\ Daemon!FeedOpen(daemon) /\ ~daemon.closing /\ Daemon!Spend("faults")
        /\ daemon' = Daemon!ZMQClose(daemon) /\ UNCHANGED chain
    BY <1>2 DEF Daemon!ZMQLost, Daemon!Phases, Daemon!FeedOpen
  <2>2. daemon' \in Solos /\ Watched(daemon') /\ Trying(daemon') /\ Even(daemon', daemon)
    BY <1>1, <2>1, FeedClosed
  <2> QED
    BY <1>1, <2>1, <2>2, FaultCarries
<1>3. CASE Daemon!ZMQClosed
  <2>1. /\ daemon.closing /\ UNCHANGED <<chain, budget>>
        /\ daemon' = [daemon EXCEPT !.closing = FALSE, !.feed = "none", !.held = FALSE]
    BY <1>3 DEF Daemon!ZMQClosed
  <2>2. /\ daemon' \in Solos /\ daemon'.dns = daemon.dns /\ daemon'.tcp = daemon.tcp /\ daemon'.broken = daemon.broken
        /\ daemon'.up = daemon.up /\ daemon'.again = daemon.again /\ daemon'.state = daemon.state
        /\ daemon'.feed = "none" /\ ~daemon'.closing /\ daemon'.net = daemon.net /\ daemon'.results = daemon.results
        /\ daemon'.timer = daemon.timer /\ daemon'.req = daemon.req /\ daemon'.prev = daemon.prev
    BY <1>1, <2>1 DEF Solos, Daemon!Feeds
  <2>3. Watched(daemon') /\ Even(daemon', daemon)
    BY <1>1, <2>1, <2>2, SameNet DEF Watched
  <2>4. Trying(daemon) => Trying(daemon')
    BY <2>1, <2>2 DEF Trying, Coming
  <2> QED
    BY <1>1, <2>1, <2>2, <2>3, <2>4, EvenCarries
<1> QED
  BY <1>2, <1>3

LEMMA DaemonInit ==
    ASSUME Daemon!DaemonAssumption, Daemon!Init
    PROVE  DaemonInv
<1>1. /\ daemon = Daemon!Fresh /\ chain = 1
      /\ budget = [faults |-> Troubles, silences |-> Unheard, submits |-> MaxBlocks, stops |-> Halts]
  BY DEF Daemon!Init
<1>2. budget \in Budgets /\ budget.faults = Troubles /\ budget.silences = Unheard /\ budget.submits = MaxBlocks
      /\ chain \in Daemon!Tips
  BY <1>1 DEF Budgets, Daemon!Tips, Daemon!DaemonAssumption
<1>3. /\ daemon.state = "unconnected" /\ daemon.up = FALSE /\ daemon.again = FALSE /\ daemon.results = 0
      /\ daemon.dns = FALSE /\ daemon.tcp = FALSE /\ daemon.closing = FALSE /\ daemon.feed = "none"
      /\ daemon.broken = FALSE
      /\ daemon.net = [m \in Daemon!Msgs |-> 0]
  BY <1>1 DEF Daemon!Fresh
<1>4. daemon \in Solos
  <2>1. 0 \in Losses /\ 0 \in Heights /\ [m \in Daemon!Msgs |-> 0] \in Nets
    BY MsgFacts DEF Losses, Nets, Daemon!DaemonAssumption
  <2> QED
    BY <1>1, <2>1 DEF Daemon!Fresh, Solos, Daemon!States, Daemon!Feeds
<1>5. Watched(daemon) /\ Trying(daemon)
  BY <1>3 DEF Watched, Trying
<1>6. Filing(daemon, budget)
  <2>1. "block" \in Daemon!Kinds
    BY DEF Daemon!Kinds
  <2>2. Unanswered(daemon) = 0 /\ \A m \in Daemon!Msgs : daemon.net[m] = 0
    BY <1>3, <2>1, MsgFacts DEF Unanswered
  <2> QED
    BY <1>2, <1>3, <2>2 DEF Filing, Daemon!DaemonAssumption
<1> QED
  BY <1>2, <1>4, <1>5, <1>6 DEF DaemonInv

LEMMA DaemonNext ==
    ASSUME Daemon!DaemonAssumption, DaemonInv, [Daemon!Next]_Daemon!vars
    PROVE  DaemonInv'
<1>0. Daemon!Next => ~daemon.broken
  BY DEF Daemon!Next
<1>1. CASE Daemon!NewTip
  <2>1. chain' \in Daemon!Tips /\ UNCHANGED <<daemon, budget>>
    BY <1>1 DEF Daemon!NewTip, DaemonInv, Daemon!Tips, Daemon!DaemonAssumption
  <2> QED
    BY <2>1 DEF DaemonInv
<1>2. CASE Daemon!JobTimeout
  BY <1>2, CarryTimeout
<1>3. CASE Daemon!OnTimer
  BY <1>3, CarryTimer
<1>4. CASE Daemon!Submit
  BY <1>4, CarrySubmit
<1>5. CASE ~daemon.broken /\ (Daemon!Start \/ Daemon!Stop)
  BY <1>5, CarryStart, CarryStop
<1>6. CASE ~daemon.broken /\ (Daemon!Resolved \/ Daemon!Dialled \/ Daemon!Handshake)
  BY <1>6, CarryResolved, CarryDialled, CarryHandshake
<1>7. CASE Daemon!ZMQParse
  BY <1>7, CarryParse
<1>8. CASE ~daemon.broken /\ (Daemon!ZMQLost \/ Daemon!ZMQClosed)
  BY <1>8, CarryClosed
<1>9. ASSUME NEW k \in Daemon!Kinds, Daemon!Handle(k) PROVE DaemonInv'
  BY <1>9, CarryHandle
<1>10. ASSUME NEW m \in Daemon!Msgs, ~daemon.broken,
              Daemon!HttpData(m) \/ Daemon!HttpFailed(m) \/ Daemon!Silent(m)
       PROVE  DaemonInv'
  BY <1>10, CarryData, CarryFailed
<1>11. CASE UNCHANGED Daemon!vars
  BY <1>11 DEF Daemon!vars, DaemonInv
<1> QED
  BY <1>0, <1>1, <1>2, <1>3, <1>4, <1>5, <1>6, <1>7, <1>8, <1>9, <1>10, <1>11 DEF Daemon!Next

LEMMA DaemonHolds ==
    ASSUME Daemon!DaemonAssumption, DaemonInv
    PROVE  /\ Daemon!TypeOK /\ Daemon!ViewExact /\ Daemon!SharesFiled /\ Daemon!FeedHeld
           /\ Daemon!KeepsTrying
<1>1. daemon \in Solos /\ Filing(daemon, budget) /\ Watched(daemon) /\ chain \in Daemon!Tips /\ budget \in Budgets
  BY DEF DaemonInv
<1>2. daemon.results \in 0 .. MaxBlocks
  <2>1. "block" \in Daemon!Kinds
    BY DEF Daemon!Kinds
  <2>2. Unanswered(daemon) \in Nat
    BY <1>1, <2>1, MsgFacts DEF Unanswered, Solos, Nets
  <2>3. daemon.results \in Int /\ budget.submits \in Nat /\ MaxBlocks \in Nat
    BY <1>1 DEF Solos, Budgets, Daemon!DaemonAssumption
  <2> QED
    BY <1>1, <2>2, <2>3 DEF Filing
<1>3. Daemon!TypeOK
  BY <1>1, <1>2 DEF Daemon!TypeOK, Solos, Losses, Heights, Nets
<1>4. Daemon!ViewExact /\ Daemon!SharesFiled /\ Daemon!FeedHeld
  BY <1>1 DEF Daemon!ViewExact, Daemon!SharesFiled, Daemon!FeedHeld, Filing, Watched, Unanswered
<1>5. Daemon!KeepsTrying
  <2>1. budget.silences < Unheard \/ budget.silences = Unheard
    BY <1>1 DEF Budgets, Daemon!DaemonAssumption
  <2>2. Trying(daemon) => Daemon!KeepsTrying
    BY DEF Trying, Coming, Daemon!KeepsTrying
  <2> QED
    BY <2>1, <2>2 DEF DaemonInv, Daemon!KeepsTrying
<1> QED
  BY <1>3, <1>4, <1>5

(* The owner takes a daemon for usable exactly when it is connected, or was*)
(* when connect() came again, and then it is polled; a share without an    *)
(* answer is filed, and what is filed for good is bounded by the requests  *)
(* that failed; and the feed's socket is one libuv holds up to the step in *)
(* which the code closes it twice or deletes it beside libuv.              *)
THEOREM DaemonSound ==
    ASSUME Daemon!DaemonAssumption
    PROVE  Daemon!Spec => [](Daemon!TypeOK /\ Daemon!ViewExact /\ Daemon!SharesFiled /\ Daemon!FeedHeld)
<1>1. Daemon!Init => DaemonInv
  BY DaemonInit
<1>2. DaemonInv /\ [Daemon!Next]_Daemon!vars => DaemonInv'
  BY DaemonNext
<1>3. DaemonInv => Daemon!TypeOK /\ Daemon!ViewExact /\ Daemon!SharesFiled /\ Daemon!FeedHeld
  BY DaemonHolds
<1> QED
  BY <1>1, <1>2, <1>3, PTL DEF Daemon!Spec

(* "time to pause between retries" (README.md): until a request is never   *)
(* answered, a client that was asked to connect never sits still, whatever *)
(* connects its owner asks for beside one another.                         *)
THEOREM DaemonTries ==
    ASSUME Daemon!DaemonAssumption
    PROVE  Daemon!Spec => []Daemon!KeepsTrying
<1>1. Daemon!Init => DaemonInv
  BY DaemonInit
<1>2. DaemonInv /\ [Daemon!Next]_Daemon!vars => DaemonInv'
  BY DaemonNext
<1>3. DaemonInv => Daemon!KeepsTrying
  BY DaemonHolds
<1> QED
  BY <1>1, <1>2, <1>3, PTL DEF Daemon!Spec

CONSTANTS Listeners, TTL, MaxAsks, Depth
VARIABLES lookup, rounds, kept, tries, known, forgotten, torn
Dns == INSTANCE Resolver WITH b <- lookup, loops <- rounds, holds <- kept, asks <- tries, seen <- known,
                              lost <- forgotten, broken <- torn

---------------------------------------------------------------------------
(* The lookups of one host (Resolver).  That nobody is left needs where    *)
(* each loop is: whoever waits stands in the part of the queue that the    *)
(* innermost has yet to come to, unless it was forgotten; so that nobody   *)
(* waits any more when the queue is cleared, also inside other loops.      *)
Lookups == [queue : Seq(Listeners), req : BOOLEAN, age : 0 .. TTL + 1, ok : BOOLEAN, addr : BOOLEAN]
Round   == [at : Nat \ {0}, end : Nat]
Rounds  == Seq(Round)

Waiting      == kept \ forgotten
Waits(q, r)  == {q[i] : i \in {j \in DOMAIN q : r.at <= j /\ j <= r.end}}
Stand(q)     == {q[i] : i \in DOMAIN q}

DnsInv ==
    /\ lookup \in Lookups /\ rounds \in Rounds /\ Len(rounds) <= Depth /\ kept \subseteq Listeners
    /\ forgotten \subseteq kept /\ torn \in BOOLEAN
    /\ tries \in [Listeners -> 0 .. MaxAsks] /\ known \in [Listeners -> 0 .. TTL]
    /\ Dns!Quiet => /\ Waiting \subseteq Stand(lookup.queue)
                    /\ ~lookup.req => lookup.queue = <<>>
    /\ ~Dns!Quiet => /\ lookup.ok => Dns!Fresh
                     /\ Waiting \subseteq Waits(lookup.queue, Dns!Front)

LEMMA RoundMade ==
    ASSUME NEW a \in Nat \ {0}, NEW e \in Nat
    PROVE  /\ [at |-> a, end |-> e] \in Round
           /\ [at |-> a, end |-> e].at = a /\ [at |-> a, end |-> e].end = e
BY DEF Round

LEMMA RoundMoved ==
    ASSUME NEW r \in Round
    PROVE  /\ [r EXCEPT !.at = @ + 1] \in Round
           /\ [r EXCEPT !.at = @ + 1].at = r.at + 1 /\ [r EXCEPT !.at = @ + 1].end = r.end
           /\ r.at \in Nat \ {0} /\ r.end \in Nat
BY DEF Round

LEMMA DnsInit ==
    ASSUME Dns!ResolverAssumption, Dns!Init
    PROVE  DnsInv
<1>1. /\ lookup = [queue |-> <<>>, req |-> FALSE, age |-> TTL + 1, ok |-> FALSE, addr |-> FALSE]
      /\ rounds = <<>> /\ kept = {} /\ tries = [l \in Listeners |-> 0] /\ known = [l \in Listeners |-> 0]
      /\ forgotten = {} /\ torn = FALSE
  BY DEF Dns!Init
<1>2. 0 \in 0 .. MaxAsks /\ 0 \in 0 .. TTL /\ TTL + 1 \in 0 .. TTL + 1 /\ 0 <= Depth
  BY DEF Dns!ResolverAssumption
<1>3. lookup \in Lookups /\ rounds \in Rounds /\ Len(rounds) = 0 /\ Dns!Quiet /\ lookup.queue = <<>>
  BY <1>1, <1>2 DEF Lookups, Rounds, Dns!Quiet
<1> QED
  BY <1>1, <1>2, <1>3 DEF DnsInv, Waiting

(* The queue with one more, and a loop that begins over it.                *)
LEMMA DnsBegin ==
    ASSUME DnsInv, NEW n \in Listeners, NEW K, K \subseteq Waiting \union {n}
    PROVE  LET q == Append(lookup.queue, n) IN
           /\ q \in Seq(Listeners) /\ Len(q) = Len(lookup.queue) + 1
           /\ Waiting \subseteq Stand(lookup.queue)
           /\ K \subseteq Stand(q) /\ K \subseteq Waits(q, [at |-> 1, end |-> Len(q)])
<1> DEFINE q == Append(lookup.queue, n)
<1>1. lookup.queue \in Seq(Listeners)
  BY DEF DnsInv, Lookups
<1>2. /\ q \in Seq(Listeners) /\ Len(q) = Len(lookup.queue) + 1 /\ q[Len(q)] = n
      /\ \A i \in 1 .. Len(lookup.queue) : q[i] = lookup.queue[i]
  BY <1>1
<1>3. DOMAIN q = 1 .. Len(q) /\ DOMAIN lookup.queue = 1 .. Len(lookup.queue) /\ Len(lookup.queue) \in Nat
  BY <1>1, <1>2
<1> HIDE DEF q
<1>4. Waiting \subseteq Stand(lookup.queue)
  BY DEF DnsInv, Waits, Stand
<1>5. K \subseteq Stand(q)
  <2> SUFFICES ASSUME NEW l \in K PROVE l \in Stand(q)
    OBVIOUS
  <2>1. CASE l = n
    BY <1>2, <1>3, <2>1 DEF Stand
  <2>2. CASE l \in Waiting
    <3>1. PICK i \in DOMAIN lookup.queue : l = lookup.queue[i]
      BY <1>4, <2>2 DEF Stand
    <3>2. i \in DOMAIN q /\ q[i] = l
      BY <1>2, <1>3, <3>1
    <3> QED
      BY <3>2 DEF Stand
  <2> QED
    BY <2>1, <2>2
<1>6. Stand(q) = Waits(q, [at |-> 1, end |-> Len(q)])
  <2>1. {j \in DOMAIN q : 1 <= j /\ j <= Len(q)} = DOMAIN q
    BY <1>2, <1>3
  <2> QED
    BY <2>1 DEF Stand, Waits
<1> QED
  BY <1>2, <1>4, <1>5, <1>6 DEF q

LEMMA DnsFirst ==
    ASSUME NEW e \in Nat, rounds = <<>>, rounds' = Append(rounds, [at |-> 1, end |-> e])
    PROVE  /\ rounds' \in Rounds /\ Len(rounds') = 1 /\ ~Dns!Quiet'
           /\ Dns!Front' = [at |-> 1, end |-> e]
<1>1. [at |-> 1, end |-> e] \in Round
  BY RoundMade
<1> DEFINE r == [at |-> 1, end |-> e]
<1> HIDE DEF r
<1>2. rounds' = Append(rounds, r) /\ r \in Round
  BY <1>1 DEF r
<1>3. rounds' \in Rounds /\ Len(rounds') = 1 /\ ~Dns!Quiet' /\ Dns!Front' = r
  BY <1>2 DEF Rounds, Dns!Quiet, Dns!Front
<1> QED
  BY <1>3 DEF r

LEMMA DnsAsks ==
    ASSUME Dns!ResolverAssumption, DnsInv, NEW n \in Listeners, Dns!Ask(n)
    PROVE  DnsInv'
<1> DEFINE q == Append(lookup.queue, n)
<1>1. /\ Dns!Quiet /\ rounds = <<>> /\ tries[n] < MaxAsks /\ tries' = [tries EXCEPT ![n] = @ + 1]
      /\ kept' = kept \union {n} /\ UNCHANGED <<known, forgotten, torn>>
  BY DEF Dns!Ask, Dns!Asked, Dns!Quiet
<1>2. \/ Dns!Fresh /\ lookup' = [lookup EXCEPT !.queue = q] /\ rounds' = Dns!Begin(q)
      \/ lookup' = [lookup EXCEPT !.queue = q, !.req = TRUE] /\ rounds' = rounds
      \/ lookup' = [lookup EXCEPT !.queue = q, !.ok = FALSE] /\ rounds' = Dns!Begin(q)
  BY DEF Dns!Ask, Dns!Resolve
<1>3. /\ q \in Seq(Listeners) /\ Len(q) = Len(lookup.queue) + 1
      /\ Waiting' \subseteq Stand(q) /\ Waiting' \subseteq Waits(q, [at |-> 1, end |-> Len(q)])
  <2>1. Waiting' \subseteq Waiting \union {n}
    BY <1>1 DEF Waiting
  <2> QED
    BY <2>1, DnsBegin
<1>4. lookup \in Lookups /\ kept \subseteq Listeners /\ tries \in [Listeners -> 0 .. MaxAsks]
      /\ known \in [Listeners -> 0 .. TTL] /\ Depth >= 1 /\ Depth \in Nat /\ Len(q) \in Nat
  BY <1>3, SMTT(40) DEF DnsInv, Dns!ResolverAssumption
<1>5. /\ kept' \subseteq Listeners /\ tries' \in [Listeners -> 0 .. MaxAsks] /\ known' \in [Listeners -> 0 .. TTL]
      /\ forgotten' \subseteq kept' /\ torn' \in BOOLEAN
  <2>1. forgotten \subseteq kept /\ torn \in BOOLEAN
    BY DEF DnsInv
  <2> QED
    BY <1>1, <1>4, <2>1 DEF Dns!ResolverAssumption
<1> HIDE DEF q
<1>6. CASE Dns!Fresh /\ lookup' = [lookup EXCEPT !.queue = q] /\ rounds' = Dns!Begin(q)
  <2>1. lookup' \in Lookups /\ lookup'.queue = q /\ lookup'.age = lookup.age
    BY <1>3, <1>4, <1>6 DEF Lookups
  <2>2. Dns!Fresh'
    BY <1>6, <2>1 DEF Dns!Fresh
  <2>3. rounds' \in Rounds /\ Len(rounds') = 1 /\ ~Dns!Quiet' /\ Dns!Front' = [at |-> 1, end |-> Len(q)]
    BY <1>1, <1>4, <1>6, DnsFirst DEF Dns!Begin
  <2>4. Len(rounds') <= Depth
    BY <1>4, <2>3
  <2> QED
    BY <1>3, <1>5, <2>1, <2>2, <2>3, <2>4 DEF DnsInv
<1>7. CASE lookup' = [lookup EXCEPT !.queue = q, !.req = TRUE] /\ rounds' = rounds
  <2>1. lookup' \in Lookups /\ lookup'.queue = q /\ lookup'.req
    BY <1>3, <1>4, <1>7 DEF Lookups
  <2>2. Dns!Quiet' /\ Len(rounds') <= Depth /\ rounds' \in Rounds
    BY <1>1, <1>7 DEF DnsInv, Dns!Quiet
  <2> QED
    BY <1>3, <1>5, <2>1, <2>2 DEF DnsInv
<1>8. CASE lookup' = [lookup EXCEPT !.queue = q, !.ok = FALSE] /\ rounds' = Dns!Begin(q)
  <2>1. lookup' \in Lookups /\ lookup'.queue = q /\ ~lookup'.ok
    BY <1>3, <1>4, <1>8 DEF Lookups
  <2>2. rounds' \in Rounds /\ Len(rounds') = 1 /\ ~Dns!Quiet' /\ Dns!Front' = [at |-> 1, end |-> Len(q)]
    BY <1>1, <1>4, <1>8, DnsFirst DEF Dns!Begin
  <2>3. Len(rounds') <= Depth
    BY <1>4, <2>2
  <2> QED
    BY <1>3, <1>5, <2>1, <2>2, <2>3 DEF DnsInv
<1> QED
  BY <1>2, <1>6, <1>7, <1>8

LEMMA DnsLookedUp ==
    ASSUME Dns!ResolverAssumption, DnsInv, Dns!LookedUp
    PROVE  DnsInv'
<1>1. PICK good \in BOOLEAN : lookup' = [lookup EXCEPT !.age = 0, !.ok = good, !.addr = good]
  BY DEF Dns!LookedUp
<1>2. /\ Dns!Quiet /\ rounds = <<>> /\ rounds' = Append(rounds, [at |-> 1, end |-> Len(lookup.queue)])
      /\ UNCHANGED <<kept, tries, known, forgotten, torn>>
  BY DEF Dns!LookedUp, Dns!Begin, Dns!Quiet
<1>3. lookup \in Lookups /\ kept \subseteq Listeners /\ tries \in [Listeners -> 0 .. MaxAsks]
      /\ known \in [Listeners -> 0 .. TTL] /\ Depth >= 1 /\ Depth \in Nat /\ TTL \in Nat
      /\ Waiting \subseteq Stand(lookup.queue) /\ forgotten \subseteq kept /\ torn \in BOOLEAN
  BY <1>2 DEF DnsInv, Dns!ResolverAssumption
<1>4. 0 \in 0 .. TTL + 1
  BY <1>3
<1>5. lookup' \in Lookups /\ lookup'.queue = lookup.queue /\ lookup'.age = 0
  BY <1>1, <1>3, <1>4 DEF Lookups
<1>6. Dns!Fresh'
  BY <1>3, <1>5 DEF Dns!Fresh
<1>7. lookup.queue \in Seq(Listeners) /\ Len(lookup.queue) \in Nat
  BY <1>3 DEF Lookups
<1>8. /\ rounds' \in Rounds /\ Len(rounds') = 1 /\ ~Dns!Quiet'
      /\ Dns!Front' = [at |-> 1, end |-> Len(lookup.queue)]
  BY <1>2, <1>7, DnsFirst
<1>9. Stand(lookup.queue) = Waits(lookup.queue, [at |-> 1, end |-> Len(lookup.queue)])
  <2>1. {j \in DOMAIN lookup.queue : 1 <= j /\ j <= Len(lookup.queue)} = DOMAIN lookup.queue
    BY <1>7
  <2> QED
    BY <2>1 DEF Stand, Waits
<1> QED
  BY <1>2, <1>3, <1>5, <1>6, <1>8, <1>9 DEF DnsInv, Waiting

LEMMA DnsFront ==
    ASSUME DnsInv, ~Dns!Quiet
    PROVE  /\ Len(rounds) \in Nat \ {0} /\ Len(rounds) \in DOMAIN rounds
           /\ Dns!Front.at \in Nat \ {0} /\ Dns!Front.end \in Nat /\ Dns!Front = rounds[Len(rounds)]
           /\ Dns!Front \in Round
<1>1. rounds \in Rounds /\ rounds # <<>>
  BY DEF DnsInv, Dns!Quiet
<1>2. Len(rounds) \in Nat \ {0} /\ Len(rounds) \in DOMAIN rounds
  BY <1>1 DEF Rounds
<1>3. rounds[Len(rounds)] \in Round
  BY <1>1, <1>2 DEF Rounds
<1> QED
  BY <1>2, <1>3, RoundMoved DEF Dns!Front

(* The innermost loop goes on to the next.                                 *)
LEMMA RoundStep ==
    ASSUME rounds \in Rounds, NEW n, n = Len(rounds), n \in DOMAIN rounds
    PROVE  LET o == [rounds EXCEPT ![n].at = @ + 1] IN
           /\ o \in Rounds /\ Len(o) = n
           /\ o[n].at = rounds[n].at + 1 /\ o[n].end = rounds[n].end
           /\ \A k \in 1 .. n - 1 : o[k] = rounds[k]
<1> DEFINE r == [rounds[n] EXCEPT !.at = @ + 1]
           o == [rounds EXCEPT ![n] = r]
<1>1. [rounds EXCEPT ![n].at = @ + 1] = o
  OBVIOUS
<1>2. rounds[n] \in Round
  BY DEF Rounds
<1>3. r \in Round /\ r.at = rounds[n].at + 1 /\ r.end = rounds[n].end
  BY <1>2, RoundMoved
<1> HIDE DEF r
<1>4. o \in Rounds /\ Len(o) = n /\ o[n] = r /\ \A k \in 1 .. n - 1 : o[k] = rounds[k]
  BY <1>3 DEF Rounds
<1> HIDE DEF o
<1> QED
  BY <1>1, <1>3, <1>4

LEMMA DnsTold ==
    ASSUME Dns!ResolverAssumption, DnsInv, Dns!Told
    PROVE  DnsInv'
<1> DEFINE n == Len(rounds)
           l == lookup.queue[Dns!Front.at]
<1>1. /\ ~Dns!Quiet /\ Dns!Front.at <= Dns!Front.end /\ Dns!Front.at <= Len(lookup.queue)
      /\ \/ l \in Waiting /\ Dns!Tell(l) /\ kept' = kept \ {l}
         \/ l \notin Waiting /\ UNCHANGED <<kept, known>>
      /\ rounds' = [rounds EXCEPT ![n].at = @ + 1] /\ UNCHANGED <<lookup, tries, forgotten, torn>>
  <2>1. /\ ~Dns!Quiet /\ Dns!Front.at <= Dns!Front.end /\ ~(Dns!Front.at > Len(lookup.queue))
        /\ IF l \in kept \ forgotten THEN Dns!Tell(l) /\ kept' = kept \ {l} ELSE UNCHANGED <<kept, known>>
        /\ rounds' = [rounds EXCEPT ![n].at = @ + 1] /\ UNCHANGED <<lookup, tries, forgotten, torn>>
    BY DEF Dns!Told, Dns!Cleared, Dns!Next1
  <2>2. Dns!Front.at \in Nat /\ Len(lookup.queue) \in Nat
    BY <2>1, DnsFront DEF DnsInv, Lookups
  <2> HIDE DEF n, l
  <2> QED
    BY <2>1, <2>2 DEF Waiting
<1>2. n \in Nat \ {0} /\ n \in DOMAIN rounds /\ Dns!Front.at \in Nat \ {0} /\ Dns!Front.end \in Nat
      /\ Dns!Front = rounds[n] /\ Dns!Front \in Round
  BY <1>1, DnsFront
<1>3. /\ lookup \in Lookups /\ rounds \in Rounds /\ n <= Depth /\ kept \subseteq Listeners
      /\ known \in [Listeners -> 0 .. TTL] /\ TTL \in Nat
      /\ lookup.ok => Dns!Fresh
      /\ Waiting \subseteq Waits(lookup.queue, Dns!Front) /\ forgotten \subseteq kept
  BY <1>1 DEF DnsInv, Dns!ResolverAssumption
<1>4. /\ rounds' \in Rounds /\ Len(rounds') = n
      /\ rounds'[n].at = Dns!Front.at + 1 /\ rounds'[n].end = Dns!Front.end
  BY <1>1, <1>2, <1>3, RoundStep
<1>5. ~Dns!Quiet' /\ Dns!Front'.at = Dns!Front.at + 1 /\ Dns!Front'.end = Dns!Front.end
  <2>1. rounds' # <<>>
    BY <1>2, <1>4
  <2> QED
    BY <1>4, <2>1 DEF Dns!Quiet, Dns!Front
<1>6. known' \in [Listeners -> 0 .. TTL]
  <2>1. CASE l \in Waiting /\ Dns!Tell(l)
    <3>1. (IF lookup.ok THEN lookup.age ELSE 0) \in 0 .. TTL
      BY <1>3 DEF Dns!Fresh, Lookups
    <3> QED
      BY <1>3, <2>1, <3>1 DEF Dns!Tell
  <2> QED
    BY <1>1, <1>3, <2>1
<1>7. Waiting' \subseteq Waits(lookup.queue, Dns!Front')
  <2> SUFFICES ASSUME NEW x \in Waiting' PROVE x \in Waits(lookup.queue, Dns!Front')
    OBVIOUS
  <2>1. x \in Waiting /\ x # l
    BY <1>1 DEF Waiting
  <2>2. PICK i \in DOMAIN lookup.queue : Dns!Front.at <= i /\ i <= Dns!Front.end /\ x = lookup.queue[i]
    BY <1>3, <2>1 DEF Waits
  <2>3. i \in Nat /\ i # Dns!Front.at
    BY <1>3, <2>1, <2>2 DEF Lookups
  <2>4. Dns!Front.at + 1 <= i
    BY <1>2, <2>2, <2>3
  <2> QED
    BY <1>5, <2>2, <2>4 DEF Waits
<1>8. lookup'.ok => Dns!Fresh'
  BY <1>1, <1>3 DEF Dns!Fresh
<1>9. tries' \in [Listeners -> 0 .. MaxAsks] /\ kept' \subseteq Listeners /\ torn' \in BOOLEAN
  BY <1>1, <1>3 DEF DnsInv
<1>10. forgotten' \subseteq kept'
  BY <1>1, <1>3 DEF Waiting
<1> HIDE DEF n, l
<1> QED
  BY <1>1, <1>3, <1>4, <1>5, <1>6, <1>7, <1>8, <1>9, <1>10 DEF DnsInv

(* From a fresh result: a loop inside.                                     *)
LEMMA DnsAsksInside ==
    ASSUME Dns!ResolverAssumption, DnsInv, NEW m \in Listeners, Dns!ToldAndAsks(m), Dns!Fresh
    PROVE  DnsInv'
<1> DEFINE n == Len(rounds)
           l == lookup.queue[Dns!Front.at]
           q == Append(lookup.queue, m)
           outer == [rounds EXCEPT ![n].at = @ + 1]
<1>1. /\ ~Dns!Quiet /\ n < Depth /\ Dns!Tell(l)
      /\ tries[m] < MaxAsks /\ tries' = [tries EXCEPT ![m] = @ + 1] /\ kept' = kept \union {m}
      /\ lookup' = [lookup EXCEPT !.queue = q] /\ UNCHANGED <<forgotten, torn>>
      /\ rounds' = Append(outer, [at |-> 1, end |-> Len(q)])
  BY DEF Dns!ToldAndAsks, Dns!Next1
<1>2. n \in Nat \ {0} /\ n \in DOMAIN rounds
  BY <1>1, DnsFront
<1>3. /\ lookup \in Lookups /\ rounds \in Rounds /\ kept \subseteq Listeners
      /\ known \in [Listeners -> 0 .. TTL] /\ TTL \in Nat /\ Depth \in Nat /\ MaxAsks \in Nat
      /\ tries \in [Listeners -> 0 .. MaxAsks] /\ forgotten \subseteq kept /\ torn \in BOOLEAN
  BY <1>1 DEF DnsInv, Dns!ResolverAssumption
<1>4. /\ q \in Seq(Listeners) /\ Len(q) = Len(lookup.queue) + 1
      /\ Waiting' \subseteq Waits(q, [at |-> 1, end |-> Len(q)])
  <2>1. Waiting' \subseteq Waiting \union {m}
    BY <1>1 DEF Waiting
  <2> QED
    BY <2>1, DnsBegin
<1>5. Len(q) \in Nat
  BY <1>4
<1>6. outer \in Rounds /\ Len(outer) = n
  BY <1>2, <1>3, RoundStep
<1> HIDE DEF outer, q
<1>7. rounds' \in Rounds /\ Len(rounds') = n + 1 /\ rounds'[n + 1] = [at |-> 1, end |-> Len(q)]
  <2> DEFINE r == [at |-> 1, end |-> Len(q)]
  <2>1. r \in Round
    BY <1>5, RoundMade
  <2>2. rounds' = Append(outer, r)
    BY <1>1
  <2> HIDE DEF r
  <2>3. rounds' \in Rounds /\ Len(rounds') = n + 1 /\ rounds'[n + 1] = r
    BY <1>2, <1>6, <2>1, <2>2 DEF Rounds
  <2> QED
    BY <2>3 DEF r
<1>8. ~Dns!Quiet' /\ Dns!Front' = [at |-> 1, end |-> Len(q)]
  <2>1. rounds' # <<>>
    BY <1>2, <1>7
  <2> QED
    BY <1>7, <2>1 DEF Dns!Quiet, Dns!Front
<1>9. lookup' \in Lookups /\ lookup'.queue = q /\ lookup'.age = lookup.age
  BY <1>1, <1>3, <1>4 DEF Lookups
<1>10. Dns!Fresh'
  BY <1>9 DEF Dns!Fresh
<1>11. known' \in [Listeners -> 0 .. TTL]
  <2>1. (IF lookup.ok THEN lookup.age ELSE 0) \in 0 .. TTL
    BY <1>3 DEF Dns!Fresh, Lookups
  <2> QED
    BY <1>1, <1>3, <2>1 DEF Dns!Tell
<1>12. kept' \subseteq Listeners /\ tries' \in [Listeners -> 0 .. MaxAsks] /\ Len(rounds') <= Depth
       /\ forgotten' \subseteq kept' /\ torn' \in BOOLEAN
  BY <1>1, <1>2, <1>3, <1>7, SMTT(40)
<1> HIDE DEF n, l
<1> QED
  BY <1>4, <1>7, <1>8, <1>9, <1>10, <1>11, <1>12 DEF DnsInv

(* While a refused lookup is told: behind the end of the loop, forgotten.  *)
LEMMA DnsAsksBehind ==
    ASSUME Dns!ResolverAssumption, DnsInv, NEW m \in Listeners, Dns!ToldAndAsks(m), ~Dns!Fresh
    PROVE  DnsInv'
<1> DEFINE n == Len(rounds)
           l == lookup.queue[Dns!Front.at]
           q == Append(lookup.queue, m)
<1>1. /\ ~Dns!Quiet /\ l \in Waiting /\ m \notin kept /\ Dns!Tell(l)
      /\ tries[m] < MaxAsks /\ tries' = [tries EXCEPT ![m] = @ + 1]
      /\ kept' = (kept \ {l}) \union {m} /\ forgotten' = forgotten \union {m}
      /\ lookup' = [lookup EXCEPT !.queue = q] /\ torn' = torn
      /\ rounds' = [rounds EXCEPT ![n].at = @ + 1]
  BY DEF Dns!ToldAndAsks, Dns!Next1, Waiting
<1>2. n \in Nat \ {0} /\ n \in DOMAIN rounds /\ Dns!Front.at \in Nat \ {0} /\ Dns!Front.end \in Nat
      /\ Dns!Front = rounds[n]
  BY <1>1, DnsFront
<1>3. /\ lookup \in Lookups /\ rounds \in Rounds /\ n <= Depth /\ kept \subseteq Listeners
      /\ known \in [Listeners -> 0 .. TTL] /\ TTL \in Nat /\ MaxAsks \in Nat
      /\ tries \in [Listeners -> 0 .. MaxAsks] /\ forgotten \subseteq kept /\ torn \in BOOLEAN
      /\ ~lookup.ok /\ Waiting \subseteq Waits(lookup.queue, Dns!Front)
  BY <1>1 DEF DnsInv, Dns!ResolverAssumption
<1>4. /\ rounds' \in Rounds /\ Len(rounds') = n
      /\ rounds'[n].at = Dns!Front.at + 1 /\ rounds'[n].end = Dns!Front.end
  BY <1>1, <1>2, <1>3, RoundStep
<1>5. ~Dns!Quiet' /\ Dns!Front'.at = Dns!Front.at + 1 /\ Dns!Front'.end = Dns!Front.end
  <2>1. rounds' # <<>>
    BY <1>2, <1>4
  <2> QED
    BY <1>4, <2>1 DEF Dns!Quiet, Dns!Front
<1>6. q \in Seq(Listeners) /\ \A i \in DOMAIN lookup.queue : i \in Nat /\ i \in DOMAIN q /\ q[i] = lookup.queue[i]
  <2>1. lookup.queue \in Seq(Listeners)
    BY <1>3 DEF Lookups
  <2> QED
    BY <2>1
<1> HIDE DEF q
<1>7. lookup' \in Lookups /\ lookup'.queue = q /\ ~lookup'.ok
  BY <1>1, <1>3, <1>6 DEF Lookups
<1>8. Waiting' \subseteq Waits(lookup'.queue, Dns!Front')
  <2> SUFFICES ASSUME NEW x \in Waiting' PROVE x \in Waits(q, Dns!Front')
    BY <1>7
  <2>1. x \in Waiting /\ x # l
    BY <1>1 DEF Waiting
  <2>2. PICK i \in DOMAIN lookup.queue : Dns!Front.at <= i /\ i <= Dns!Front.end /\ x = lookup.queue[i]
    BY <1>3, <2>1 DEF Waits
  <2>3. i \in Nat /\ i # Dns!Front.at /\ i \in DOMAIN q /\ q[i] = x
    BY <1>6, <2>1, <2>2
  <2>4. Dns!Front.at + 1 <= i
    BY <1>2, <2>2, <2>3
  <2> QED
    BY <1>5, <2>2, <2>3, <2>4 DEF Waits
<1>9. known' \in [Listeners -> 0 .. TTL]
  <2>1. known' = [known EXCEPT ![l] = 0] /\ 0 \in 0 .. TTL
    BY <1>1, <1>3 DEF Dns!Tell
  <2> HIDE DEF l
  <2> QED
    BY <1>3, <2>1
<1>10. kept' \subseteq Listeners /\ tries' \in [Listeners -> 0 .. MaxAsks] /\ Len(rounds') <= Depth
       /\ torn' \in BOOLEAN
  BY <1>1, <1>3, <1>4
<1>11. forgotten' \subseteq kept'
  BY <1>1, <1>3 DEF Waiting
<1> HIDE DEF n, l
<1> QED
  BY <1>4, <1>5, <1>7, <1>8, <1>9, <1>10, <1>11 DEF DnsInv

LEMMA DnsToldAll ==
    ASSUME Dns!ResolverAssumption, DnsInv, Dns!ToldAll
    PROVE  DnsInv'
<1> DEFINE n == Len(rounds)
<1>1. /\ ~Dns!Quiet /\ Dns!Front.at > Dns!Front.end
      /\ lookup' = [lookup EXCEPT !.queue = <<>>, !.req = FALSE]
      /\ rounds' = SubSeq(rounds, 1, n - 1) /\ UNCHANGED <<kept, tries, known, forgotten, torn>>
  BY DEF Dns!ToldAll
<1>2. n \in Nat \ {0} /\ n \in DOMAIN rounds /\ Dns!Front.at \in Nat \ {0} /\ Dns!Front.end \in Nat
  BY <1>1, DnsFront
<1>3. /\ lookup \in Lookups /\ rounds \in Rounds /\ n <= Depth /\ Depth \in Nat
      /\ Waiting \subseteq Waits(lookup.queue, Dns!Front) /\ (lookup.ok => Dns!Fresh)
  BY <1>1 DEF DnsInv, Dns!ResolverAssumption
<1>4. Waiting = {}
  <2> SUFFICES ASSUME NEW x \in Waiting PROVE FALSE
    OBVIOUS
  <2>1. PICK i \in DOMAIN lookup.queue : Dns!Front.at <= i /\ i <= Dns!Front.end
    BY <1>3 DEF Waits
  <2>2. i \in 1 .. Len(lookup.queue) /\ Len(lookup.queue) \in Nat
    BY <1>3 DEF Lookups
  <2> QED
    BY <1>1, <1>2, <2>1, <2>2
<1>5. rounds' \in Rounds /\ Len(rounds') = n - 1
  <2>1. \A s \in Seq(Round), k \in Nat \ {0} : k = Len(s) =>
            SubSeq(s, 1, k - 1) \in Seq(Round) /\ Len(SubSeq(s, 1, k - 1)) = k - 1
    OBVIOUS
  <2> QED
    BY <1>1, <1>2, <1>3, <2>1 DEF Rounds
<1>6. /\ lookup' \in Lookups /\ lookup'.queue = <<>> /\ lookup'.age = lookup.age /\ lookup'.ok = lookup.ok
  <2>1. <<>> \in Seq(Listeners)
    OBVIOUS
  <2> QED
    BY <1>1, <1>3, <2>1 DEF Lookups
<1>7. lookup'.ok => Dns!Fresh'
  BY <1>3, <1>6 DEF Dns!Fresh
<1>8. Len(rounds') <= Depth
  BY <1>2, <1>3, <1>5
<1>9. Waiting' = {} /\ UNCHANGED <<kept, tries, known, forgotten, torn>>
  BY <1>1, <1>4 DEF Waiting
<1> HIDE DEF n
<1> QED
  BY <1>5, <1>6, <1>7, <1>8, <1>9 DEF DnsInv

LEMMA DnsNext ==
    ASSUME Dns!ResolverAssumption, DnsInv, [Dns!Next]_Dns!vars
    PROVE  DnsInv'
<1>1. ASSUME NEW l \in Listeners, Dns!Drop(l) PROVE DnsInv'
  <2>1. Dns!Quiet /\ kept' = kept \ {l} /\ forgotten' = forgotten \ {l} /\ UNCHANGED <<lookup, rounds, tries, known, torn>>
    BY <1>1 DEF Dns!Drop
  <2>2. Dns!Quiet'
    BY <2>1 DEF Dns!Quiet
  <2> QED
    BY <2>1, <2>2 DEF DnsInv, Waiting
<1>2. CASE Dns!Age
  <2>1. /\ Dns!Quiet /\ lookup.age <= TTL /\ lookup' = [lookup EXCEPT !.age = @ + 1]
        /\ UNCHANGED <<rounds, kept, tries, known, forgotten, torn>>
    BY <1>2 DEF Dns!Age
  <2>2. lookup' \in Lookups /\ lookup'.queue = lookup.queue /\ lookup'.req = lookup.req
    <3>1. lookup \in Lookups /\ TTL \in Nat
      BY DEF DnsInv, Dns!ResolverAssumption
    <3>2. lookup.age + 1 \in 0 .. TTL + 1
      BY <2>1, <3>1 DEF Lookups
    <3> QED
      BY <2>1, <3>1, <3>2 DEF Lookups
  <2>3. Dns!Quiet'
    BY <2>1 DEF Dns!Quiet
  <2> QED
    BY <2>1, <2>2, <2>3 DEF DnsInv, Waiting
<1>3. CASE UNCHANGED Dns!vars
  BY <1>3 DEF Dns!vars, DnsInv, Waiting, Dns!Quiet, Dns!Front, Dns!Fresh
<1>4. CASE Dns!GoesOn
  BY <1>4 DEF Dns!GoesOn, DnsInv, Waiting, Dns!Quiet, Dns!Front, Dns!Fresh
<1> QED
  BY <1>1, <1>2, <1>3, <1>4, DnsAsks, DnsLookedUp, DnsTold, DnsAsksInside, DnsAsksBehind, DnsToldAll DEF Dns!Next

LEMMA DnsHolds ==
    ASSUME Dns!ResolverAssumption, DnsInv
    PROVE  Dns!TypeOK /\ Dns!WithinTTL /\ Dns!NobodyLeft
<1>1. \A n \in 0 .. TTL : n <= TTL /\ n \in 0 .. TTL + 1
  BY DEF Dns!ResolverAssumption
<1>2. Dns!TypeOK /\ Dns!WithinTTL
  BY <1>1 DEF DnsInv, Lookups, Dns!TypeOK, Dns!WithinTTL
<1>3. Waiting \subseteq Stand(lookup.queue)
  BY DEF DnsInv, Stand, Waits
<1>4. Stand(<<>>) = {} /\ forgotten \subseteq kept
  BY DEF Stand, DnsInv
<1>5. Dns!Quiet /\ ~lookup.req => kept = forgotten
  BY <1>3, <1>4 DEF DnsInv, Waiting
<1>6. Dns!NobodyLeft
  BY <1>3, <1>5 DEF Dns!NobodyLeft, Stand, Waiting
<1> QED
  BY <1>2, <1>6

(* No listener is told an address older than the TTL; whoever waits stands *)
(* in the queue, and when no lookup is under way nobody waits: who asks    *)
(* during a lookup, after it or while others are told from a fresh result  *)
(* is told too.  But not who asks while others hear that the lookup was    *)
(* refused, which the code forgets; and up to the step in which a loop goes*)
(* on over the queue that a loop inside it cleared.                        *)
THEOREM DnsSound ==
    ASSUME Dns!ResolverAssumption
    PROVE  Dns!Spec => [](Dns!TypeOK /\ Dns!WithinTTL /\ Dns!NobodyLeft)
<1>1. Dns!Init => DnsInv
  BY DnsInit
<1>2. DnsInv /\ [Dns!Next]_Dns!vars => DnsInv'
  BY DnsNext
<1>3. DnsInv => Dns!TypeOK /\ Dns!WithinTTL /\ Dns!NobodyLeft
  BY DnsHolds
<1> QED
  BY <1>1, <1>2, <1>3, PTL DEF Dns!Spec

CONSTANTS Wires, Cap, Init0, MaxBytes
VARIABLES readers, received, newlines, wired, allocs, spares
Lines == INSTANCE LineReader WITH Conns <- Wires, reader <- readers, got <- received, ends <- newlines,
                                  open <- wired, blocks <- allocs, free <- spares

---------------------------------------------------------------------------
(* The readers of lines and their pool (LineReader).  That chunks have one *)
(* owner needs that those in use are exactly those somebody holds; that    *)
(* lines are whole, what of the line that has begun is kept.               *)
Bytes   == 1 .. MaxBytes
Texts   == Seq(Bytes)
Readers == [buf : Texts, mem : Nat, out : Seq(Texts), read : Nat, at : Nat]
Pools   == [blocks : Nat, free : SUBSET Nat]
Pairs   == [p : Pools, r : Readers]

Cells(n) == 1 .. n * Init0
Used(p)  == Cells(p.blocks) \ p.free

(* A reader with the pool, where others hold O.                            *)
Holding(a, O) ==
    /\ a \in Pairs /\ a.p.free \subseteq Cells(a.p.blocks) /\ 0 \notin O
    /\ a.r.mem \notin O /\ Used(a.p) = O \union ({a.r.mem} \ {0})
    /\ a.r.buf # <<>> => a.r.mem # 0
    /\ Len(a.r.buf) <= Cap

LEMMA CellsGrow ==
    ASSUME Init0 \in Nat \ {0}, NEW n \in Nat
    PROVE  /\ n * Init0 \in Nat /\ (n + 1) * Init0 = n * Init0 + Init0
           /\ Cells(n + 1) = Cells(n) \union ((n * Init0 + 1) .. ((n + 1) * Init0))
           /\ Cells(n) \intersect ((n * Init0 + 1) .. ((n + 1) * Init0)) = {}
           /\ n * Init0 + 1 \in (n * Init0 + 1) .. ((n + 1) * Init0)
<1>1. n * Init0 \in Nat /\ (n + 1) * Init0 = n * Init0 + Init0
  OBVIOUS
<1> DEFINE k == n * Init0
           m == (n + 1) * Init0
<1>2. k \in Nat /\ m = k + Init0
  BY <1>1
<1>3. Cells(n) = 1 .. k /\ Cells(n + 1) = 1 .. m
  BY DEF Cells
<1> HIDE DEF k, m
<1>4. /\ 1 .. m = (1 .. k) \union ((k + 1) .. m) /\ (1 .. k) \intersect ((k + 1) .. m) = {}
      /\ k + 1 \in (k + 1) .. m
  BY <1>2
<1> QED
  BY <1>1, <1>3, <1>4 DEF k, m

(* allocate() gives a chunk that nobody has.                               *)
LEMMA PoolTaken ==
    ASSUME Lines!LineAssumption, NEW p \in Pools, p.free \subseteq Cells(p.blocks)
    PROVE  LET f == Lines!First(p)
               t == Lines!Taken(p)
           IN /\ t \in Pools /\ t.free \subseteq Cells(t.blocks)
              /\ f \in Nat \ {0} /\ f \notin Used(p)
              /\ Used(t) = Used(p) \union {f}
<1> DEFINE g == Lines!Grown(p)
           f == Lines!First(p)
           t == Lines!Taken(p)
<1>1. p.blocks \in Nat /\ p.free \in SUBSET Nat /\ Init0 \in Nat \ {0}
  BY DEF Pools, Lines!LineAssumption
<1>2. g \in Pools /\ g.free \subseteq Cells(g.blocks) /\ g.free # {} /\ Used(g) = Used(p)
      /\ g.free \intersect Used(p) = {}
  <2>1. CASE p.free # {}
    BY <2>1 DEF Lines!Grown, Used
  <2>2. CASE p.free = {}
    <3> DEFINE fresh == (p.blocks * Init0 + 1) .. ((p.blocks + 1) * Init0)
    <3>1. g.blocks = p.blocks + 1 /\ g.free = fresh /\ g = [blocks |-> p.blocks + 1, free |-> fresh]
      BY <2>2 DEF Lines!Grown
    <3>2. /\ Cells(p.blocks + 1) = Cells(p.blocks) \union fresh /\ Cells(p.blocks) \intersect fresh = {}
          /\ p.blocks * Init0 + 1 \in fresh
      <4> DEFINE b == p.blocks
      <4>1. b \in Nat
        BY <1>1
      <4> HIDE DEF b
      <4>2. /\ Cells(b + 1) = Cells(b) \union ((b * Init0 + 1) .. ((b + 1) * Init0))
            /\ Cells(b) \intersect ((b * Init0 + 1) .. ((b + 1) * Init0)) = {}
            /\ b * Init0 + 1 \in (b * Init0 + 1) .. ((b + 1) * Init0)
        BY ONLY <1>1, <4>1, CellsGrow
      <4> QED
        BY ONLY <4>2 DEF b, fresh
    <3>3. fresh \in SUBSET Nat
      BY <1>1, CellsGrow
    <3> HIDE DEF fresh, g
    <3>4. g \in Pools
      BY <1>1, <3>1, <3>3 DEF Pools
    <3> QED
      BY <2>2, <3>1, <3>2, <3>4 DEF Used
  <2> QED
    BY <2>1, <2>2
<1>3. f \in g.free
  <2>1. \E m \in g.free : \A k \in g.free : m <= k
    BY <1>2, LeastNat DEF Pools
  <2> QED
    BY <2>1 DEF Lines!First
<1>4. t = [g EXCEPT !.free = @ \ {f}]
  BY DEF Lines!Taken
<1> HIDE DEF g, f, t
<1>5. t \in Pools /\ t.blocks = g.blocks /\ t.free = g.free \ {f}
  BY <1>2, <1>4 DEF Pools
<1>6. f \in Nat \ {0}
  BY <1>2, <1>3, <1>5 DEF Cells, Pools
<1> QED
  BY <1>2, <1>3, <1>5, <1>6 DEF Used, f, t

LEMMA PoolReleased ==
    ASSUME NEW p \in Pools, p.free \subseteq Cells(p.blocks), NEW m, m = 0 \/ m \in Used(p)
    PROVE  LET q == Lines!Released(p, m)
           IN q \in Pools /\ q.free \subseteq Cells(q.blocks) /\ Used(q) = Used(p) \ ({m} \ {0})
<1> DEFINE q == Lines!Released(p, m)
<1>1. 0 \notin Used(p)
  BY DEF Used, Cells
<1>2. CASE m = 0
  BY <1>1, <1>2 DEF Lines!Released, Used
<1>3. CASE m # 0
  <2>1. q = [p EXCEPT !.free = @ \union {m}]
    BY <1>3 DEF Lines!Released
  <2>2. m \in Cells(p.blocks) /\ m \in Nat
    BY <1>3 DEF Used, Cells
  <2>3. q \in Pools /\ q.blocks = p.blocks /\ q.free = p.free \union {m}
    BY <2>1, <2>2 DEF Pools
  <2> HIDE DEF q
  <2>4. Used(q) = Used(p) \ {m}
    BY <2>3 DEF Used
  <2> QED
    BY <1>3, <2>2, <2>3, <2>4 DEF q
<1> QED
  BY <1>2, <1>3

(* add() of bytes: all of them or none, and nobody loses a chunk.          *)
LEMMA LineAdded ==
    ASSUME Lines!LineAssumption, NEW a, NEW O, Holding(a, O), NEW s \in Texts
    PROVE  LET b == Lines!Add(a, s) IN
           /\ Holding(b, O) /\ b.r.out = a.r.out /\ b.r.read = a.r.read /\ b.r.at = a.r.at
           /\ b.r.buf = IF Len(s) + Len(a.r.buf) > Cap THEN a.r.buf ELSE a.r.buf \o s
<1> DEFINE b == Lines!Add(a, s)
<1>1. a \in Pairs /\ a.p \in Pools /\ a.r \in Readers /\ a.p.free \subseteq Cells(a.p.blocks)
      /\ a.r.buf \in Texts /\ Len(a.r.buf) \in Nat /\ Len(s) \in Nat
  BY DEF Holding, Pairs, Readers, Texts
<1>2. CASE Len(s) + Len(a.r.buf) > Cap
  BY <1>2 DEF Lines!Add
<1>3. CASE ~(Len(s) + Len(a.r.buf) > Cap)
  <2> DEFINE d == IF a.r.mem # 0 THEN a
                  ELSE [p |-> Lines!Taken(a.p), r |-> [a.r EXCEPT !.mem = Lines!First(a.p), !.buf = <<>>]]
  <2>1. b = [d EXCEPT !.r.buf = @ \o s]
    BY <1>3 DEF Lines!Add
  <2>2. /\ Holding(d, O) /\ d.r.mem # 0 /\ d.r.buf = a.r.buf /\ d.r.out = a.r.out
        /\ d.r.read = a.r.read /\ d.r.at = a.r.at
    <3>1. CASE a.r.mem # 0
      BY <3>1
    <3>2. CASE a.r.mem = 0
      <4> DEFINE f == Lines!First(a.p)
                 t == Lines!Taken(a.p)
                 r == [a.r EXCEPT !.mem = f, !.buf = <<>>]
      <4>1. /\ t \in Pools /\ t.free \subseteq Cells(t.blocks) /\ f \in Nat \ {0} /\ f \notin Used(a.p)
            /\ Used(t) = Used(a.p) \union {f}
        BY <1>1, PoolTaken
      <4>2. d = [p |-> t, r |-> r]
        BY <3>2
      <4> HIDE DEF f, t
      <4>3. <<>> \in Texts /\ a.r.buf = <<>> /\ Used(a.p) = O /\ 0 \notin O /\ Cap \in Nat
        BY <3>2 DEF Texts, Holding, Lines!LineAssumption
      <4>4. r \in Readers /\ r.mem = f /\ r.buf = <<>> /\ r.out = a.r.out /\ r.read = a.r.read /\ r.at = a.r.at
        BY <1>1, <4>1, <4>3 DEF Readers
      <4> HIDE DEF r
      <4>5. d \in Pairs /\ d.p = t /\ d.r = r
        BY <4>1, <4>2, <4>4 DEF Pairs
      <4> HIDE DEF d
      <4>6. Len(d.r.buf) <= Cap
        BY <4>3, <4>4, <4>5
      <4> QED
        BY <4>1, <4>3, <4>4, <4>5, <4>6 DEF Holding
    <3> QED
      BY <3>1, <3>2
  <2> HIDE DEF d
  <2> DEFINE w == a.r.buf \o s
  <2>3. w \in Texts /\ Len(w) = Len(a.r.buf) + Len(s) /\ Len(w) <= Cap
    <3>1. Cap \in Nat
      BY DEF Lines!LineAssumption
    <3> QED
      BY <1>1, <1>3, <3>1 DEF Texts
  <2>4. d \in Pairs /\ d.p \in Pools /\ d.r \in Readers
    BY <2>2 DEF Holding, Pairs
  <2> DEFINE r == [d.r EXCEPT !.buf = d.r.buf \o s]
  <2>5. b = [d EXCEPT !.r = r]
    BY <2>1, <2>4 DEF Pairs
  <2>6. r \in Readers /\ r.buf = w /\ r.mem = d.r.mem /\ r.out = d.r.out /\ r.read = d.r.read /\ r.at = d.r.at
    BY <2>2, <2>3, <2>4 DEF Readers
  <2> HIDE DEF r, b
  <2>7. b \in Pairs /\ b.p = d.p /\ b.r = r
    BY <2>4, <2>5, <2>6 DEF Pairs
  <2>8. Holding(b, O)
    BY <2>2, <2>3, <2>6, <2>7 DEF Holding
  <2> QED
    BY <1>3, <2>2, <2>6, <2>7, <2>8 DEF b
<1> QED
  BY <1>2, <1>3

LEMMA LineReset ==
    ASSUME Lines!LineAssumption, NEW a, NEW O, Holding(a, O)
    PROVE  LET b == Lines!Reset(a) IN
           /\ Holding(b, O) /\ b.r.out = a.r.out /\ b.r.read = a.r.read /\ b.r.at = a.r.at
           /\ b.r.buf = <<>> /\ b.r.mem = 0
<1> DEFINE b == Lines!Reset(a)
           q == Lines!Released(a.p, a.r.mem)
           r == [a.r EXCEPT !.mem = 0, !.buf = <<>>]
<1>1. a.p \in Pools /\ a.r \in Readers /\ a.p.free \subseteq Cells(a.p.blocks) /\ a.r.mem \notin O /\ 0 \notin O
      /\ Used(a.p) = O \union ({a.r.mem} \ {0})
  BY DEF Holding, Pairs
<1>2. q \in Pools /\ q.free \subseteq Cells(q.blocks) /\ Used(q) = Used(a.p) \ ({a.r.mem} \ {0})
  BY <1>1, PoolReleased
<1>3. <<>> \in Texts /\ Len(<<>>) <= Cap
  BY DEF Texts, Lines!LineAssumption
<1>4. r \in Readers /\ r.mem = 0 /\ r.buf = <<>> /\ r.out = a.r.out /\ r.read = a.r.read /\ r.at = a.r.at
  BY <1>1, <1>3 DEF Readers
<1>5. b = [p |-> q, r |-> r]
  BY DEF Lines!Reset
<1> HIDE DEF q, r, b
<1>6. b \in Pairs /\ b.p = q /\ b.r = r
  BY <1>2, <1>4, <1>5 DEF Pairs
<1>7. Used(q) = O
  BY <1>1, <1>2
<1>8. Holding(b, O)
  BY <1>1, <1>2, <1>3, <1>4, <1>6, <1>7 DEF Holding
<1> QED
  BY <1>4, <1>6, <1>8 DEF b

LEMMA FrontText ==
    ASSUME NEW v \in Texts, v # <<>>
    PROVE  Lines!Front(v) \in Texts
<1>1. v \in Seq(Bytes) /\ Len(v) \in Nat \ {0}
  BY DEF Texts
<1> DEFINE n == Len(v) - 1
<1>2. n \in Nat /\ n <= Len(v)
  BY <1>1
<1> HIDE DEF n
<1>3. \A i \in 1 .. n : v[i] \in Bytes
  BY <1>1, <1>2
<1>4. SubSeq(v, 1, n) \in Seq(Bytes)
  BY <1>1, <1>2, <1>3
<1> QED
  BY <1>4 DEF n, Texts, Lines!Front

(* onLine(): what is told of a line.                                       *)
LEMMA LineDone ==
    ASSUME Lines!LineAssumption, NEW a, NEW O, Holding(a, O), NEW s \in Texts, s # <<>>
    PROVE  LET b == Lines!Line(a, s)
               w == IF Len(s) + Len(a.r.buf) > Cap THEN a.r.buf ELSE a.r.buf \o s
           IN /\ Holding(b, O) /\ b.r.buf = <<>> /\ b.r.read = a.r.read /\ b.r.at = a.r.at
              /\ a.r.buf # <<>> => b.r.out = Append(a.r.out, Lines!Front(w))
              /\ a.r.buf = <<>> => b.r.out = IF Len(s) > 1 THEN Append(a.r.out, Lines!Front(s)) ELSE a.r.out
<1> DEFINE b == Lines!Line(a, s)
           w == IF Len(s) + Len(a.r.buf) > Cap THEN a.r.buf ELSE a.r.buf \o s
<1>1. a \in Pairs /\ a.r \in Readers /\ a.r.out \in Seq(Texts) /\ a.r.buf \in Texts
  BY DEF Holding, Pairs, Readers
<1>2. \A v \in Texts : v # <<>> => Lines!Front(v) \in Texts
  BY FrontText
<1>3. <<>> \in Texts /\ Len(<<>>) <= Cap
  BY DEF Texts, Lines!LineAssumption
<1>4. CASE a.r.buf # <<>>
  <2> DEFINE d == Lines!Add(a, s)
             r == [d.r EXCEPT !.out = Append(@, Lines!Front(d.r.buf)), !.buf = <<>>]
  <2>1. Holding(d, O) /\ d.r.out = a.r.out /\ d.r.read = a.r.read /\ d.r.at = a.r.at /\ d.r.buf = w
    BY LineAdded
  <2>2. b = [d EXCEPT !.r.out = Append(@, Lines!Front(d.r.buf)), !.r.buf = <<>>]
    BY <1>4 DEF Lines!Line
  <2> HIDE DEF d
  <2>3. d \in Pairs /\ d.r \in Readers /\ d.p \in Pools
    BY <2>1 DEF Holding, Pairs
  <2>4. w \in Texts /\ w # <<>>
    <3>1. Len(a.r.buf) \in Nat \ {0} /\ a.r.buf \o s \in Texts /\ Len(a.r.buf \o s) = Len(a.r.buf) + Len(s)
      BY <1>1, <1>4 DEF Texts
    <3>2. Len(s) \in Nat
      BY DEF Texts
    <3>3. a.r.buf \o s # <<>>
      BY <3>1, <3>2
    <3> QED
      BY <1>1, <1>4, <3>1, <3>3
  <2>5. Append(a.r.out, Lines!Front(w)) \in Seq(Texts)
    <3>1. Lines!Front(w) \in Texts
      BY <1>2, <2>4
    <3> HIDE DEF w
    <3> QED
      BY <1>1, <3>1
  <2>6. r \in Readers /\ r.buf = <<>> /\ r.out = Append(a.r.out, Lines!Front(w)) /\ r.read = a.r.read
        /\ r.at = a.r.at /\ r.mem = d.r.mem
    BY <1>3, <2>1, <2>3, <2>5 DEF Readers
  <2>7. b = [d EXCEPT !.r = r]
    BY <2>2, <2>3 DEF Pairs
  <2> HIDE DEF r, b, w
  <2>8. b \in Pairs /\ b.p = d.p /\ b.r = r
    BY <2>3, <2>6, <2>7 DEF Pairs
  <2>9. Holding(b, O)
    BY <1>3, <2>1, <2>6, <2>8 DEF Holding
  <2> QED
    BY <1>4, <2>6, <2>8, <2>9 DEF b, w
<1>5. CASE a.r.buf = <<>> /\ Len(s) > 1
  <2> DEFINE r == [a.r EXCEPT !.out = Append(@, Lines!Front(s))]
  <2>1. b = [a EXCEPT !.r = r]
    BY <1>1, <1>5 DEF Lines!Line, Pairs
  <2>2. Append(a.r.out, Lines!Front(s)) \in Seq(Texts)
    BY <1>1, <1>2
  <2>3. r \in Readers /\ r.buf = <<>> /\ r.out = Append(a.r.out, Lines!Front(s)) /\ r.read = a.r.read
        /\ r.at = a.r.at /\ r.mem = a.r.mem
    BY <1>1, <1>5, <2>2 DEF Readers
  <2> HIDE DEF r, b
  <2>4. b \in Pairs /\ b.p = a.p /\ b.r = r
    BY <1>1, <2>1, <2>3 DEF Pairs
  <2>5. Holding(b, O)
    BY <1>3, <2>3, <2>4 DEF Holding
  <2> QED
    BY <1>5, <2>3, <2>4, <2>5 DEF b
<1>6. CASE a.r.buf = <<>> /\ ~(Len(s) > 1)
  BY <1>6 DEF Lines!Line
<1> QED
  BY <1>4, <1>5, <1>6

---------------------------------------------------------------------------
(* Who holds what.                                                         *)
InUse        == {m \in Nat \ {0} : \E d \in Wires : m = readers[d].mem \/ m = readers[d].read}
Elsewhere(k) == {m \in Nat \ {0} : \E d \in Wires \ {k} : m = readers[d].mem \/ m = readers[d].read}
Others(k)    == Elsewhere(k) \union ({readers[k].read} \ {0})

PoolInv ==
    /\ readers \in [Wires -> Readers]
    /\ Lines!Pool \in Pools /\ Lines!Pool.free \subseteq Cells(Lines!Pool.blocks) /\ Used(Lines!Pool) = InUse
    /\ \A k \in Wires : /\ readers[k].mem \notin Elsewhere(k) /\ readers[k].read \notin Elsewhere(k)
                        /\ readers[k].mem = 0 \/ readers[k].mem # readers[k].read
                        /\ readers[k].buf # <<>> => readers[k].mem # 0
                        /\ Len(readers[k].buf) <= Cap
    /\ \A k, d \in Wires : readers[k].read # 0 /\ readers[d].read # 0 => k = d

LEMMA LineOwns ==
    ASSUME PoolInv, NEW k \in Wires
    PROVE  Holding([p |-> Lines!Pool, r |-> readers[k]], Others(k))
<1> DEFINE a == [p |-> Lines!Pool, r |-> readers[k]]
<1>1. /\ Lines!Pool \in Pools /\ readers[k] \in Readers /\ Lines!Pool.free \subseteq Cells(Lines!Pool.blocks)
      /\ Used(Lines!Pool) = InUse
      /\ readers[k].buf # <<>> => readers[k].mem # 0
      /\ Len(readers[k].buf) <= Cap
  BY DEF PoolInv
<1>2. a \in Pairs /\ a.p = Lines!Pool /\ a.r = readers[k]
  BY <1>1 DEF Pairs
<1>3. readers[k].mem \in Nat /\ readers[k].read \in Nat
  BY <1>1 DEF Readers
<1>4. InUse = Others(k) \union ({readers[k].mem} \ {0})
  BY <1>3 DEF InUse, Others, Elsewhere
<1>5. readers[k].mem \notin Others(k) /\ 0 \notin Others(k)
  BY DEF PoolInv, Others, Elsewhere
<1> HIDE DEF a
<1> QED
  BY <1>1, <1>2, <1>4, <1>5 DEF Holding, a

(* A reader takes the place of another, with the pool that goes with it.   *)
LEMMA LineSwap ==
    ASSUME PoolInv, NEW k \in Wires, NEW r \in Readers, NEW p \in Pools,
           readers' = [readers EXCEPT ![k] = r], Lines!PoolNow(p),
           p.free \subseteq Cells(p.blocks), Used(p) = Elsewhere(k) \union ({r.mem, r.read} \ {0}),
           r.mem \notin Elsewhere(k), r.read \notin Elsewhere(k), r.mem = 0 \/ r.mem # r.read,
           r.buf # <<>> => r.mem # 0, Len(r.buf) <= Cap,
           r.read # 0 => \A d \in Wires \ {k} : readers[d].read = 0
    PROVE  PoolInv'
<1>1. /\ readers \in [Wires -> Readers] /\ readers' \in [Wires -> Readers] /\ readers'[k] = r
      /\ \A d \in Wires \ {k} : readers'[d] = readers[d]
  BY DEF PoolInv
<1>2. Lines!Pool' = p
  BY DEF Lines!PoolNow, Lines!Pool, Pools
<1>3. r.mem \in Nat /\ r.read \in Nat /\ \A d \in Wires : readers[d].mem \in Nat /\ readers[d].read \in Nat
  BY <1>1 DEF Readers
<1>4. InUse' = Elsewhere(k) \union ({r.mem, r.read} \ {0})
  BY <1>1, <1>3 DEF InUse, Elsewhere
<1>5. Elsewhere(k)' = Elsewhere(k)
  BY <1>1 DEF Elsewhere
<1>6. ASSUME NEW d \in Wires \ {k}
      PROVE  readers'[d].mem \notin Elsewhere(d)' /\ readers'[d].read \notin Elsewhere(d)'
  <2>1. readers[d].mem \notin Elsewhere(d) /\ readers[d].read \notin Elsewhere(d)
    BY DEF PoolInv
  <2>2. \A m \in {readers[d].mem, readers[d].read} : m # 0 => m # r.mem /\ m # r.read
    BY <1>3 DEF Elsewhere
  <2>3. \A m \in Elsewhere(d)' : m # 0 /\ (m \in Elsewhere(d) \/ m \in {r.mem, r.read})
    BY <1>1 DEF Elsewhere
  <2> QED
    BY <1>1, <2>1, <2>2, <2>3
<1>7. \A d, e \in Wires : readers'[d].read # 0 /\ readers'[e].read # 0 => d = e
  BY <1>1 DEF PoolInv
<1>8. \A d \in Wires \ {k} : /\ readers'[d].mem = 0 \/ readers'[d].mem # readers'[d].read
                             /\ readers'[d].buf # <<>> => readers'[d].mem # 0
                             /\ Len(readers'[d].buf) <= Cap
  BY <1>1 DEF PoolInv
<1> QED
  BY <1>1, <1>2, <1>4, <1>5, <1>6, <1>7, <1>8 DEF PoolInv

---------------------------------------------------------------------------
(* What has come and what is told.                                         *)
Begins(a, N)    == a = 1 \/ a - 1 \in N
Clean(a, b, N)  == \A i \in a .. b : i \notin N
Ended(n, N)     == {e \in N : e < n /\ e > 1 /\ e - 1 \notin N}

(* The line that has begun is kept: something of it, and all that fits.    *)
Begun(buf, n, N) ==
    /\ buf = <<>> <=> Begins(n, N)
    /\ \A a \in 1 .. n : Begins(a, N) /\ Clean(a, n - 1, N) /\ n - a <= Cap => buf = Lines!Span(a, n - 1)

Delivered(out, n, N) ==
    /\ Len(out) = Cardinality(Ended(n, N))
    /\ \A e \in Ended(n, N) : \A a \in 1 .. e - 1 :
           Begins(a, N) /\ Clean(a, e - 1, N) /\ e - a < Cap =>
               out[Cardinality({i \in Ended(n, N) : i <= e})] = Lines!Span(a, e - 1)

(* What is true of a connection and its reader.                            *)
LineKept(k) ==
    /\ newlines[k] \subseteq 1 .. received[k] /\ readers[k].at \in 1 .. received[k] + 1
    /\ received[k] + 1 - readers[k].at <= Cap
    /\ readers[k].read = 0 => readers[k].at = received[k] + 1
    /\ readers[k].read # 0 /\ readers[k].at = received[k] + 1 => received[k] \in newlines[k]
    /\ k \in wired => Begun(readers[k].buf, readers[k].at, newlines[k])
    /\ k \notin wired => readers[k].mem = 0 /\ readers[k].read = 0
    /\ Delivered(readers[k].out, readers[k].at, newlines[k])

LinesInv ==
    /\ PoolInv /\ received \in [Wires -> 0 .. MaxBytes] /\ newlines \in [Wires -> SUBSET Nat] /\ wired \subseteq Wires
    /\ \A k \in Wires : LineKept(k)

LEMMA SeqEqual ==
    ASSUME NEW T, NEW s \in Seq(T), NEW t \in Seq(T), Len(s) = Len(t), \A i \in 1 .. Len(s) : s[i] = t[i]
    PROVE  s = t
OBVIOUS

LEMMA SpanText ==
    ASSUME MaxBytes \in Nat, NEW a \in 1 .. MaxBytes + 1, NEW b \in 0 .. MaxBytes, a <= b + 1
    PROVE  /\ Lines!Span(a, b) \in Texts /\ Len(Lines!Span(a, b)) = b - a + 1
           /\ \A i \in 1 .. b - a + 1 : Lines!Span(a, b)[i] = a + i - 1
           /\ Lines!Span(a, b) = <<>> <=> a = b + 1
<1> DEFINE n == b - a + 1
           s == [i \in 1 .. n |-> a + i - 1]
<1>1. n \in Nat /\ Lines!Span(a, b) = s
  BY DEF Lines!Span
<1>2. \A i \in 1 .. n : a + i - 1 \in Bytes
  BY DEF Bytes
<1>3. n = 0 <=> a = b + 1
  OBVIOUS
<1> HIDE DEF n
<1>4. s \in Seq(Bytes) /\ Len(s) = n /\ \A i \in 1 .. n : s[i] = a + i - 1
  BY <1>1, <1>2
<1> HIDE DEF s
<1>5. s = <<>> <=> n = 0
  BY <1>1, <1>4
<1> QED
  BY <1>1, <1>3, <1>4, <1>5 DEF n, Texts

LEMMA SpanJoin ==
    ASSUME MaxBytes \in Nat, NEW a \in 1 .. MaxBytes, NEW b \in 1 .. MaxBytes, NEW m \in 1 .. MaxBytes + 1,
           a <= m, m <= b + 1
    PROVE  Lines!Span(a, m - 1) \o Lines!Span(m, b) = Lines!Span(a, b)
<1> DEFINE s == Lines!Span(a, m - 1)
           t == Lines!Span(m, b)
           w == Lines!Span(a, b)
<1>1. /\ s \in Seq(Bytes) /\ Len(s) = m - a /\ \A i \in 1 .. m - a : s[i] = a + i - 1
      /\ t \in Seq(Bytes) /\ Len(t) = b - m + 1 /\ \A i \in 1 .. b - m + 1 : t[i] = m + i - 1
      /\ w \in Seq(Bytes) /\ Len(w) = b - a + 1 /\ \A i \in 1 .. b - a + 1 : w[i] = a + i - 1
  <2>1. /\ m - 1 \in 0 .. MaxBytes /\ a <= (m - 1) + 1 /\ a <= b + 1 /\ (m - 1) - a + 1 = m - a
        /\ a \in 1 .. MaxBytes + 1 /\ b \in 0 .. MaxBytes
    OBVIOUS
  <2>2. s \in Texts /\ Len(s) = (m - 1) - a + 1 /\ \A i \in 1 .. (m - 1) - a + 1 : s[i] = a + i - 1
    BY <2>1, SpanText
  <2>3. t \in Texts /\ Len(t) = b - m + 1 /\ \A i \in 1 .. b - m + 1 : t[i] = m + i - 1
    BY <2>1, SpanText
  <2>4. w \in Texts /\ Len(w) = b - a + 1 /\ \A i \in 1 .. b - a + 1 : w[i] = a + i - 1
    BY <2>1, SpanText
  <2> HIDE DEF s, t, w
  <2> QED
    BY <2>1, <2>2, <2>3, <2>4 DEF Texts
<1> HIDE DEF s, t, w
<1>2. s \o t \in Seq(Bytes) /\ Len(s \o t) = Len(s) + Len(t)
  <2>1. s \in Seq(Bytes) /\ t \in Seq(Bytes)
    BY <1>1
  <2> QED
    BY <2>1
<1>3. \A i \in 1 .. b - a + 1 : (s \o t)[i] = w[i]
  <2> SUFFICES ASSUME NEW i \in 1 .. b - a + 1 PROVE (s \o t)[i] = w[i]
    OBVIOUS
  <2>1. (s \o t)[i] = IF i <= Len(s) THEN s[i] ELSE t[i - Len(s)]
    BY <1>1
  <2> QED
    BY <1>1, <2>1
<1>4. Len(s \o t) = b - a + 1 /\ Len(w) = b - a + 1 /\ w \in Seq(Bytes)
  BY <1>1, <1>2
<1>5. s \o t = w
  BY <1>2, <1>3, <1>4, SeqEqual
<1> QED
  BY <1>5 DEF s, t, w

LEMMA SpanFront ==
    ASSUME MaxBytes \in Nat, NEW a \in 1 .. MaxBytes, NEW b \in 1 .. MaxBytes, a <= b
    PROVE  Lines!Front(Lines!Span(a, b)) = Lines!Span(a, b - 1)
<1> DEFINE s == Lines!Span(a, b)
           t == Lines!Span(a, b - 1)
<1>1. /\ s \in Seq(Bytes) /\ Len(s) = b - a + 1 /\ \A i \in 1 .. b - a + 1 : s[i] = a + i - 1
      /\ t \in Seq(Bytes) /\ Len(t) = b - a /\ \A i \in 1 .. b - a : t[i] = a + i - 1
  <2>1. /\ b - 1 \in 0 .. MaxBytes /\ a <= (b - 1) + 1 /\ (b - 1) - a + 1 = b - a
        /\ a \in 1 .. MaxBytes + 1 /\ b \in 0 .. MaxBytes /\ a <= b + 1
    OBVIOUS
  <2>2. s \in Texts /\ Len(s) = b - a + 1 /\ \A i \in 1 .. b - a + 1 : s[i] = a + i - 1
    BY <2>1, SpanText
  <2>3. t \in Texts /\ Len(t) = (b - 1) - a + 1 /\ \A i \in 1 .. (b - 1) - a + 1 : t[i] = a + i - 1
    BY <2>1, SpanText
  <2> HIDE DEF s, t
  <2> QED
    BY <2>1, <2>2, <2>3 DEF Texts
<1> HIDE DEF s, t
<1> DEFINE n == Len(s) - 1
<1>2. n \in Nat /\ n <= Len(s) /\ n = b - a
  BY <1>1
<1> HIDE DEF n
<1>3. SubSeq(s, 1, n) \in Seq(Bytes) /\ Len(SubSeq(s, 1, n)) = n /\ \A i \in 1 .. n : SubSeq(s, 1, n)[i] = s[i]
  <2>1. \A i \in 1 .. n : s[i] \in Bytes
    BY <1>1, <1>2
  <2> QED
    BY <1>1, <1>2, <2>1
<1>4. SubSeq(s, 1, n) = t
  BY <1>1, <1>2, <1>3, SeqEqual
<1> QED
  BY <1>4 DEF Lines!Front, s, t, n

(* Newlines that come later change nothing of what is parsed.              *)
LEMMA LaterNewlines ==
    ASSUME NEW n \in Nat, NEW N \in SUBSET Nat, NEW M \in SUBSET Nat, \A i \in M : i >= n
    PROVE  /\ \A out : Delivered(out, n, N) => Delivered(out, n, N \union M)
           /\ \A buf : Begun(buf, n, N) => Begun(buf, n, N \union M)
<1> DEFINE K == N \union M
<1>1. \A i \in Int : i < n => (i \in K <=> i \in N)
  OBVIOUS
<1>2. K \in SUBSET Nat
  OBVIOUS
<1> HIDE DEF K
<1>3. \A a \in Nat : a <= n => (Begins(a, K) <=> Begins(a, N))
  BY <1>1 DEF Begins
<1>4. \A a \in Nat, b \in Int : b < n => (Clean(a, b, K) <=> Clean(a, b, N))
  BY <1>1 DEF Clean
<1>5. Ended(n, K) = Ended(n, N)
  <2>1. \A e \in Nat : e < n => (e \in K <=> e \in N) /\ (e - 1 \in K <=> e - 1 \in N)
    BY <1>1
  <2>2. \A e : e \in Ended(n, K) => e \in Ended(n, N)
    BY <1>2, <2>1 DEF Ended
  <2>3. \A e : e \in Ended(n, N) => e \in Ended(n, K)
    BY <2>1 DEF Ended
  <2> QED
    BY <2>2, <2>3
<1>6. ASSUME NEW out, Delivered(out, n, N) PROVE Delivered(out, n, K)
  <2> SUFFICES ASSUME NEW e \in Ended(n, N), NEW a \in 1 .. e - 1, Begins(a, K), Clean(a, e - 1, K), e - a < Cap
               PROVE  out[Cardinality({i \in Ended(n, N) : i <= e})] = Lines!Span(a, e - 1)
    BY <1>5, <1>6 DEF Delivered
  <2>1. e \in Nat /\ e < n /\ a \in Nat /\ a <= n /\ e - 1 \in Int /\ e - 1 < n
    BY DEF Ended
  <2>2. Begins(a, N) /\ Clean(a, e - 1, N)
    BY <1>3, <1>4, <2>1
  <2> QED
    BY <1>6, <2>2 DEF Delivered
<1>7. ASSUME NEW buf, Begun(buf, n, N) PROVE Begun(buf, n, K)
  <2>1. Begins(n, K) <=> Begins(n, N)
    BY <1>3
  <2>2. ASSUME NEW a \in 1 .. n, Begins(a, K), Clean(a, n - 1, K), n - a <= Cap
        PROVE  buf = Lines!Span(a, n - 1)
    <3>1. Begins(a, N) /\ Clean(a, n - 1, N)
      BY <1>3, <1>4, <2>2
    <3> QED
      BY <1>7, <2>2, <3>1 DEF Begun
  <2> QED
    BY <1>7, <2>1, <2>2 DEF Begun
<1> QED
  BY <1>6, <1>7 DEF K

LEMMA LinesFinite == \A T : Lines!IsFiniteSet(T) <=> IsFiniteSet(T)
BY DEF Lines!IsFiniteSet, IsFiniteSet

LEMMA LinesCardinality == \A T : Lines!Cardinality(T) = Cardinality(T)
BY LinesFinite DEF Lines!Cardinality, Cardinality

(* Past the next newline one line more is told, unless it is empty.        *)
LEMMA OneMore ==
    ASSUME NEW N \in SUBSET Nat, IsFiniteSet(N), NEW n \in Nat, NEW e \in N, n <= e, \A i \in N : i < n \/ i >= e,
           NEW out \in Seq(Texts), Delivered(out, n, N), NEW next \in Seq(Texts),
           IF e > 1 /\ e - 1 \notin N
           THEN \E v \in Texts :
                    /\ next = Append(out, v)
                    /\ \A a \in 1 .. e - 1 : Begins(a, N) /\ Clean(a, e - 1, N) /\ e - a < Cap => v = Lines!Span(a, e - 1)
           ELSE next = out
    PROVE  Delivered(next, e + 1, N)
<1> DEFINE E == Ended(n, N)
           F == Ended(e + 1, N)
           Upto(S, i) == {j \in S : j <= i}
<1>1. e \in Nat /\ E \in SUBSET Nat /\ \A i \in E : i < e
  <2>1. \A i \in E : i \in N /\ i < n
    BY DEF Ended
  <2> HIDE DEF E, F
  <2>2. e \in Nat
    OBVIOUS
  <2>3. ASSUME NEW i \in E PROVE i \in Nat /\ i < e
    <3>1. i \in N /\ i < n
      BY <2>1
    <3>2. i \in Nat
      BY <3>1
    <3> QED
      BY <2>2, <3>1, <3>2
  <2> QED
    BY <2>2, <2>3
<1>2. F = E \union (IF e > 1 /\ e - 1 \notin N THEN {e} ELSE {})
  <2>1. \A i \in N : i < e + 1 <=> i < n \/ i = e
    OBVIOUS
  <2>2. \A i \in F : i \in E \/ (i = e /\ e > 1 /\ e - 1 \notin N)
    BY <2>1 DEF Ended
  <2>3. \A i \in E : i \in F
    BY <2>1 DEF Ended
  <2>4. e > 1 /\ e - 1 \notin N => e \in F
    BY DEF Ended
  <2> HIDE DEF E, F
  <2> QED
    BY <2>2, <2>3, <2>4
<1>3. IsFiniteSet(E) /\ E \subseteq N
  BY FS_Subset DEF Ended
<1>4. Len(out) = Cardinality(E)
  BY DEF Delivered
<1>5. \A i \in E : \A a \in 1 .. i - 1 : Begins(a, N) /\ Clean(a, i - 1, N) /\ i - a < Cap =>
                       out[Cardinality(Upto(E, i))] = Lines!Span(a, i - 1)
  BY DEF Delivered
<1> SUFFICES /\ Len(next) = Cardinality(F)
             /\ \A i \in F : \A a \in 1 .. i - 1 : Begins(a, N) /\ Clean(a, i - 1, N) /\ i - a < Cap =>
                    next[Cardinality(Upto(F, i))] = Lines!Span(a, i - 1)
  BY DEF Delivered
<1> HIDE DEF E, F
<1>6. CASE ~(e > 1 /\ e - 1 \notin N)
  BY <1>2, <1>4, <1>5, <1>6
<1>7. CASE e > 1 /\ e - 1 \notin N
  <2>1. PICK v \in Texts :
            /\ next = Append(out, v)
            /\ \A a \in 1 .. e - 1 : Begins(a, N) /\ Clean(a, e - 1, N) /\ e - a < Cap => v = Lines!Span(a, e - 1)
    BY <1>7
  <2>2. F = E \union {e} /\ e \notin E
    BY <1>1, <1>2, <1>7
  <2>3. Cardinality(F) = Cardinality(E) + 1
    BY <1>3, <2>2, FS_AddElement
  <2>4. Cardinality(E) \in Nat
    BY <1>3, FS_CardinalityType
  <2>5. Len(next) = Len(out) + 1 /\ next[Len(out) + 1] = v /\ \A j \in 1 .. Len(out) : next[j] = out[j]
    BY <2>1
  <2>6. ASSUME NEW i \in F, NEW a \in 1 .. i - 1, Begins(a, N), Clean(a, i - 1, N), i - a < Cap
        PROVE  next[Cardinality(Upto(F, i))] = Lines!Span(a, i - 1)
    <3>1. CASE i = e
      <4>1. Upto(F, i) = F
        <5>1. \A j \in F : j <= i
          BY <1>1, <2>2, <3>1
        <5> QED
          BY <5>1
      <4> QED
        BY <1>4, <2>1, <2>3, <2>5, <2>6, <3>1, <4>1
    <3>2. CASE i \in E
      <4>1. Upto(F, i) = Upto(E, i)
        BY <1>1, <2>2, <3>2
      <4>2. i \in Upto(E, i)
        BY <1>1, <3>2
      <4>3. IsFiniteSet(Upto(E, i)) /\ Cardinality(Upto(E, i)) <= Cardinality(E)
        BY <1>3, FS_Subset
      <4>4. Cardinality(Upto(E, i)) \in Nat /\ Cardinality(Upto(E, i)) # 0
        BY <4>2, <4>3, FS_CardinalityType, FS_EmptySet
      <4>5. Cardinality(Upto(E, i)) \in 1 .. Len(out)
        BY <1>4, <2>4, <4>3, <4>4
      <4>6. next[Cardinality(Upto(E, i))] = out[Cardinality(Upto(E, i))]
        BY <2>5, <4>5
      <4> QED
        BY <1>5, <2>6, <3>2, <4>1, <4>6
    <3> QED
      BY <2>2, <3>1, <3>2
  <2> QED
    BY <1>4, <2>3, <2>5, <2>6
<1> QED
  BY <1>6, <1>7

---------------------------------------------------------------------------
(* One connection moves, the others stay as they are.                      *)
LEMMA LineMoved ==
    ASSUME LinesInv, NEW k \in Wires, PoolInv',
           received' \in [Wires -> 0 .. MaxBytes], newlines' \in [Wires -> SUBSET Nat], wired' \subseteq Wires,
           \A d \in Wires \ {k} : /\ readers'[d] = readers[d] /\ received'[d] = received[d]
                                  /\ newlines'[d] = newlines[d]
                                  /\ d \in wired' <=> d \in wired,
           LineKept(k)'
    PROVE  LinesInv'
<1>1. ASSUME NEW d \in Wires \ {k} PROVE LineKept(d)'
  <2>1. LineKept(d)
    BY DEF LinesInv
  <2> QED
    BY <2>1 DEF LineKept
<1> QED
  BY <1>1 DEF LinesInv

(* A reader that was given another text, with its pool.                    *)
LEMMA LineTurned ==
    ASSUME PoolInv, NEW k \in Wires, NEW b, Holding(b, Others(k)), b.r.read = readers[k].read,
           NEW r \in Readers, r.mem = b.r.mem, r.buf = b.r.buf, r.read = b.r.read,
           readers' = [readers EXCEPT ![k] = r], Lines!PoolNow(b.p)
    PROVE  PoolInv'
<1>1. /\ b \in Pairs /\ b.p \in Pools /\ b.p.free \subseteq Cells(b.p.blocks)
      /\ b.r.mem \notin Others(k) /\ Used(b.p) = Others(k) \union ({b.r.mem} \ {0})
      /\ b.r.buf # <<>> => b.r.mem # 0
      /\ Len(b.r.buf) <= Cap
  BY DEF Holding, Pairs
<1>2. Others(k) = Elsewhere(k) \union ({r.read} \ {0})
  BY DEF Others
<1>3. /\ Used(b.p) = Elsewhere(k) \union ({r.mem, r.read} \ {0}) /\ r.mem \notin Elsewhere(k)
      /\ r.mem = 0 \/ r.mem # r.read
  BY <1>1, <1>2
<1>4. r.read \notin Elsewhere(k) /\ (r.read # 0 => \A d \in Wires \ {k} : readers[d].read = 0)
  BY DEF PoolInv
<1> QED
  BY <1>1, <1>3, <1>4, LineSwap

(* After a newline a line begins of which nothing is kept.                 *)
LEMMA BegunNew ==
    ASSUME MaxBytes \in Nat, NEW N, NEW e \in N, e \in 0 .. MaxBytes
    PROVE  Begun(<<>>, e + 1, N)
<1>1. Begins(e + 1, N)
  BY DEF Begins
<1>2. ASSUME NEW a \in 1 .. e + 1, Clean(a, (e + 1) - 1, N)
      PROVE  <<>> = Lines!Span(a, (e + 1) - 1)
  <2>1. a = e + 1
    BY <1>2 DEF Clean
  <2> QED
    BY <2>1, SpanText
<1> QED
  BY <1>1, <1>2 DEF Begun

LEMMA LinesRead ==
    ASSUME Lines!LineAssumption, LinesInv, NEW k \in Wires, NEW n \in 1 .. Cap,
           NEW nl \in SUBSET (received[k] + 1 .. received[k] + n), Lines!OnRead(k, n, nl)
    PROVE  LinesInv'
<1> DEFINE f == Lines!First(Lines!Pool)
           p == Lines!Taken(Lines!Pool)
           r == [readers[k] EXCEPT !.read = f]
<1>1. /\ \A d \in Wires : readers[d].read = 0
      /\ k \in wired /\ received[k] + n <= MaxBytes
      /\ readers' = [readers EXCEPT ![k].read = f] /\ Lines!PoolNow(p)
      /\ received' = [received EXCEPT ![k] = @ + n]
      /\ newlines' = [newlines EXCEPT ![k] = @ \union nl]
      /\ wired' = wired
  BY DEF Lines!OnRead, Lines!Idle
<1>2. /\ PoolInv /\ received \in [Wires -> 0 .. MaxBytes] /\ newlines \in [Wires -> SUBSET Nat] /\ wired \subseteq Wires
      /\ LineKept(k) /\ MaxBytes \in Nat /\ Cap \in Nat
  BY DEF LinesInv, Lines!LineAssumption
<1>3. /\ readers \in [Wires -> Readers] /\ readers[k] \in Readers
      /\ Lines!Pool \in Pools /\ Lines!Pool.free \subseteq Cells(Lines!Pool.blocks) /\ Used(Lines!Pool) = InUse
      /\ readers[k].mem \notin Elsewhere(k) /\ readers[k].read \notin Elsewhere(k)
      /\ readers[k].buf # <<>> => readers[k].mem # 0
      /\ Len(readers[k].buf) <= Cap
  BY <1>2 DEF PoolInv
<1>4. /\ p \in Pools /\ p.free \subseteq Cells(p.blocks) /\ f \in Nat \ {0} /\ f \notin InUse
      /\ Used(p) = InUse \union {f}
  BY <1>3, PoolTaken
<1>5. readers' = [readers EXCEPT ![k] = r]
  BY <1>1, <1>3
<1> HIDE DEF f, p
<1>6. /\ r \in Readers /\ r.read = f /\ r.mem = readers[k].mem /\ r.buf = readers[k].buf /\ r.out = readers[k].out
      /\ r.at = readers[k].at
  BY <1>3, <1>4 DEF Readers
<1> HIDE DEF r
<1>7. readers[k].mem \in Nat /\ \A d \in Wires : readers[d].mem \in Nat
  BY <1>3 DEF Readers
<1>8. InUse = Elsewhere(k) \union ({readers[k].mem} \ {0})
  BY <1>1, <1>7 DEF InUse, Elsewhere
<1>9. PoolInv'
  <2>1. Used(p) = Elsewhere(k) \union ({r.mem, r.read} \ {0}) /\ r.read \notin Elsewhere(k)
    BY <1>4, <1>6, <1>8
  <2>2. r.mem = 0 \/ r.mem # r.read
    BY <1>4, <1>6, <1>7, <1>8
  <2>3. \A d \in Wires \ {k} : readers[d].read = 0
    BY <1>1
  <2>4. r.mem \notin Elsewhere(k) /\ (r.buf # <<>> => r.mem # 0) /\ Len(r.buf) <= Cap
    BY <1>3, <1>6
  <2> QED
    BY <1>1, <1>2, <1>4, <1>5, <1>6, <2>1, <2>2, <2>3, <2>4, LineSwap
<1>10. /\ readers'[k] = r /\ received'[k] = received[k] + n /\ newlines'[k] = newlines[k] \union nl
       /\ received[k] \in Nat
  BY <1>1, <1>2, <1>3, <1>5
<1>11. LineKept(k)'
  <2>1. /\ newlines[k] \subseteq 1 .. received[k] /\ readers[k].at = received[k] + 1
        /\ Begun(readers[k].buf, readers[k].at, newlines[k])
        /\ Delivered(readers[k].out, readers[k].at, newlines[k])
    BY <1>1, <1>2 DEF LineKept
  <2>2. newlines[k] \in SUBSET Nat /\ nl \in SUBSET Nat /\ readers[k].at \in Nat /\ \A i \in nl : i >= readers[k].at
    BY <1>2, <1>10, <2>1
  <2>3. /\ Begun(readers[k].buf, readers[k].at, newlines[k] \union nl)
        /\ Delivered(readers[k].out, readers[k].at, newlines[k] \union nl)
    BY <2>1, <2>2, LaterNewlines
  <2>4. newlines[k] \union nl \subseteq 1 .. received[k] + n
    <3>1. ASSUME NEW i \in newlines[k] PROVE i \in 1 .. received[k] + n
      <4>1. i \in 1 .. received[k]
        BY <2>1
      <4> QED
        BY <1>10, <4>1
    <3>2. ASSUME NEW i \in nl PROVE i \in 1 .. received[k] + n
      BY <1>10
    <3> QED
      BY <3>1, <3>2
  <2>5. /\ r.at \in 1 .. received[k] + n + 1 /\ received[k] + n + 1 - r.at <= Cap /\ r.at # received[k] + n + 1
    BY <1>2, <1>6, <1>10, <2>1
  <2> QED
    BY <1>1, <1>4, <1>6, <1>10, <2>3, <2>4, <2>5 DEF LineKept
<1>12. received' \in [Wires -> 0 .. MaxBytes]
  BY <1>1, <1>2, <1>10
<1>13. newlines' \in [Wires -> SUBSET Nat]
  <2>1. nl \in SUBSET Nat
    BY <1>2, <1>10
  <2> QED
    BY <1>1, <1>2, <2>1
<1>14. \A d \in Wires \ {k} : readers'[d] = readers[d] /\ received'[d] = received[d] /\ newlines'[d] = newlines[d]
  BY <1>1, <1>2, <1>3, <1>5
<1> QED
  BY <1>1, <1>2, <1>9, <1>11, <1>12, <1>13, <1>14, LineMoved

LEMMA LinesClosed ==
    ASSUME Lines!LineAssumption, LinesInv, NEW k \in Wires, Lines!Close(k)
    PROVE  LinesInv'
<1> DEFINE a == [p |-> Lines!Pool, r |-> readers[k]]
           b == Lines!Reset(a)
<1>1. /\ readers[k].read = 0 /\ wired' = wired \ {k} /\ received' = received /\ newlines' = newlines
      /\ readers' = [readers EXCEPT ![k] = b.r] /\ Lines!PoolNow(b.p)
  BY DEF Lines!Close, Lines!Idle
<1>2. /\ PoolInv /\ received \in [Wires -> 0 .. MaxBytes] /\ newlines \in [Wires -> SUBSET Nat] /\ wired \subseteq Wires
      /\ LineKept(k) /\ readers \in [Wires -> Readers]
  BY DEF LinesInv, PoolInv
<1>3. /\ Holding(b, Others(k)) /\ b.r.out = readers[k].out /\ b.r.read = readers[k].read /\ b.r.at = readers[k].at
      /\ b.r.buf = <<>> /\ b.r.mem = 0
  <2>1. Holding(a, Others(k))
    BY <1>2, LineOwns
  <2>2. a.r = readers[k]
    OBVIOUS
  <2> HIDE DEF a
  <2> QED
    BY <2>1, <2>2, LineReset
<1> HIDE DEF b
<1>4. b.r \in Readers
  BY <1>3 DEF Holding, Pairs
<1>5. PoolInv'
  BY <1>1, <1>2, <1>3, <1>4, LineTurned
<1>6. readers'[k] = b.r /\ \A d \in Wires \ {k} : readers'[d] = readers[d]
  BY <1>1, <1>2
<1>7. LineKept(k)'
  BY <1>1, <1>2, <1>3, <1>6 DEF LineKept
<1> QED
  BY <1>1, <1>2, <1>5, <1>6, <1>7, LineMoved

(* Of a line that has come to its newline e, what is told.                 *)
Joined(buf, s) == IF Len(s) + Len(buf) > Cap THEN buf ELSE buf \o s
OneLine(e, N)  == e > 1 /\ e - 1 \notin N
LineIs(v, e, N) ==
    \A a \in 1 .. e - 1 : Begins(a, N) /\ Clean(a, e - 1, N) /\ e - a < Cap => v = Lines!Span(a, e - 1)

LEMMA LineText ==
    ASSUME MaxBytes \in Nat, Cap \in Nat, NEW N \in SUBSET Nat, NEW m \in 1 .. MaxBytes, NEW e \in N,
           m <= e, e <= MaxBytes, \A i \in N : i < m \/ i >= e,
           NEW buf \in Texts, Begun(buf, m, N), NEW s, s = Lines!Span(m, e)
    PROVE  /\ s \in Texts /\ s # <<>>
           /\ buf # <<>> => /\ Joined(buf, s) \in Texts /\ Joined(buf, s) # <<>>
                            /\ OneLine(e, N) /\ LineIs(Lines!Front(Joined(buf, s)), e, N)
           /\ buf = <<>> /\ Len(s) > 1    => OneLine(e, N) /\ LineIs(Lines!Front(s), e, N)
           /\ buf = <<>> /\ ~(Len(s) > 1) => ~OneLine(e, N)
<1> DEFINE w == Joined(buf, s)
<1>1. e \in 1 .. MaxBytes /\ e \in Nat /\ m \in Nat
  OBVIOUS
<1>2. s \in Texts /\ Len(s) = e - m + 1 /\ s # <<>>
  <2>1. m \in 1 .. MaxBytes + 1 /\ e \in 0 .. MaxBytes /\ m <= e + 1 /\ m # e + 1
    BY <1>1
  <2> QED
    BY <2>1, SpanText
<1>3. ASSUME NEW a \in 1 .. e - 1, Begins(a, N), a > m PROVE FALSE
  <2>1. a # 1 /\ a - 1 >= m /\ a - 1 < e /\ a - 1 \in Nat
    BY <1>1, <1>3
  <2> QED
    BY <1>3, <2>1 DEF Begins
<1>4. Begins(m, N) <=> buf = <<>>
  BY DEF Begun
<1>5. CASE buf # <<>>
  <2>1. m # 1 /\ m - 1 \notin N
    BY <1>4, <1>5 DEF Begins
  <2>2. e > 1 /\ e - 1 \notin N
    <3>1. e > 1
      BY <1>1, <2>1
    <3>2. CASE e = m
      BY <2>1, <3>1, <3>2
    <3>3. CASE e # m
      <4>1. e - 1 \in Nat /\ e - 1 >= m /\ e - 1 < e
        BY <1>1, <3>3
      <4> QED
        BY <3>1, <4>1
    <3> QED
      BY <3>2, <3>3
  <2>3. w \in Texts /\ w # <<>>
    <3>1. Len(buf) \in Nat \ {0} /\ buf \o s \in Texts /\ Len(buf \o s) = Len(buf) + Len(s)
      BY <1>2, <1>5 DEF Texts
    <3>2. Len(s) \in Nat
      BY <1>2 DEF Texts
    <3>3. buf \o s # <<>>
      BY <3>1, <3>2
    <3> QED
      BY <1>5, <3>1, <3>3 DEF Joined
  <2>4. ASSUME NEW a \in 1 .. e - 1, Begins(a, N), Clean(a, e - 1, N), e - a < Cap
        PROVE  Lines!Front(w) = Lines!Span(a, e - 1)
    <3>1. a < m
      <4>1. a # m
        BY <1>4, <1>5, <2>4
      <4> QED
        BY <1>1, <1>3, <2>4, <4>1
    <3>2. Clean(a, m - 1, N)
      <4>1. \A i \in a .. m - 1 : i \in a .. e - 1
        BY <1>1
      <4> QED
        BY <2>4, <4>1 DEF Clean
    <3>3. a \in 1 .. m /\ m - a <= Cap
      BY <1>1, <2>4, <3>1
    <3>4. buf = Lines!Span(a, m - 1)
      BY <2>4, <3>2, <3>3 DEF Begun
    <3>5. Len(buf) = m - a
      <4>1. a \in 1 .. MaxBytes + 1 /\ m - 1 \in 0 .. MaxBytes /\ a <= (m - 1) + 1 /\ (m - 1) - a + 1 = m - a
        BY <1>1, <3>1
      <4> QED
        BY <3>4, <4>1, SpanText
    <3>6. w = buf \o s
      BY <1>1, <1>2, <2>4, <3>5 DEF Joined
    <3>7. a \in 1 .. MaxBytes /\ a <= m /\ a <= e /\ m \in 1 .. MaxBytes + 1 /\ m <= e + 1
      BY <1>1, <3>1
    <3>8. w = Lines!Span(a, e)
      BY <1>1, <3>4, <3>6, <3>7, SpanJoin
    <3> QED
      BY <1>1, <3>7, <3>8, SpanFront
  <2> HIDE DEF w
  <2>5. OneLine(e, N) /\ LineIs(Lines!Front(w), e, N)
    BY <2>2, <2>4 DEF OneLine, LineIs
  <2> QED
    BY <1>2, <1>5, <2>3, <2>5 DEF w
<1>6. CASE buf = <<>> /\ Len(s) > 1
  <2>1. m < e
    BY <1>1, <1>2, <1>6
  <2>2. e - 1 \in Nat /\ e - 1 >= m /\ e - 1 < e /\ e > 1
    BY <1>1, <2>1
  <2>3. e - 1 \notin N
    BY <2>2
  <2>4. ASSUME NEW a \in 1 .. e - 1, Begins(a, N), Clean(a, e - 1, N)
        PROVE  a = m
    <3>1. ~(a > m)
      BY <1>3, <2>4
    <3>2. ASSUME a < m PROVE FALSE
      <4>1. m - 1 \in a .. e - 1 /\ m # 1
        BY <1>1, <3>2
      <4> QED
        BY <1>4, <1>6, <2>4, <4>1 DEF Begins, Clean
    <3> QED
      BY <1>1, <3>1, <3>2
  <2>5. Lines!Front(s) = Lines!Span(m, e - 1)
    BY <1>1, SpanFront
  <2>6. OneLine(e, N) /\ LineIs(Lines!Front(s), e, N)
    BY <2>2, <2>3, <2>4, <2>5 DEF OneLine, LineIs
  <2> QED
    BY <1>2, <1>6, <2>6
<1>7. CASE buf = <<>> /\ ~(Len(s) > 1)
  <2>1. e = m
    BY <1>1, <1>2, <1>7
  <2>2. ~OneLine(e, N)
    BY <1>4, <1>7, <2>1 DEF Begins, OneLine
  <2> QED
    BY <1>2, <1>7, <2>2
<1> QED
  BY <1>5, <1>6, <1>7

LEMMA LinesLine ==
    ASSUME Lines!LineAssumption, LinesInv, NEW k \in Wires, Lines!NextLine(k)
    PROVE  LinesInv'
<1>1. PICK e \in Lines!Coming(k) :
          /\ readers[k].read # 0 /\ \A i \in Lines!Coming(k) : e <= i
          /\ LET x == Lines!Line([p |-> Lines!Pool, r |-> readers[k]], Lines!Span(readers[k].at, e))
             IN readers' = [readers EXCEPT ![k] = [x.r EXCEPT !.at = e + 1]] /\ Lines!PoolNow(x.p)
  BY DEF Lines!NextLine
<1>2. received' = received /\ newlines' = newlines /\ wired' = wired
  BY DEF Lines!NextLine
<1> DEFINE a == [p |-> Lines!Pool, r |-> readers[k]]
           m == readers[k].at
           s == Lines!Span(m, e)
           w == Joined(a.r.buf, s)
           N == newlines[k]
           b == Lines!Line(a, s)
           r == [b.r EXCEPT !.at = e + 1]
<1>3. readers' = [readers EXCEPT ![k] = r] /\ Lines!PoolNow(b.p)
  BY <1>1
<1>4. /\ PoolInv /\ received \in [Wires -> 0 .. MaxBytes] /\ newlines \in [Wires -> SUBSET Nat] /\ wired \subseteq Wires
      /\ LineKept(k) /\ readers \in [Wires -> Readers] /\ readers[k] \in Readers
      /\ MaxBytes \in Nat /\ Cap \in Nat
  BY DEF LinesInv, PoolInv, Lines!LineAssumption
<1>5. /\ N \subseteq 1 .. received[k] /\ m \in 1 .. received[k] + 1 /\ received[k] + 1 - m <= Cap
      /\ Begun(readers[k].buf, m, N) /\ Delivered(readers[k].out, m, N) /\ k \in wired
      /\ received[k] \in 0 .. MaxBytes /\ N \in SUBSET Nat
  BY <1>1, <1>4 DEF LineKept
<1>6. e \in N /\ e >= m /\ \A i \in N : i < m \/ i >= e
  <2>1. e \in N /\ e >= m /\ \A i \in N : i >= m => e <= i
    BY <1>1 DEF Lines!Coming
  <2>2. \A i \in N : i \in Nat
    BY <1>5
  <2>3. m \in Nat /\ e \in Nat
    BY <1>5, <2>1, <2>2
  <2> QED
    BY <2>1, <2>2, <2>3
<1>7. e \in 1 .. received[k] /\ e \in Nat /\ m \in 1 .. MaxBytes /\ m <= e /\ e <= MaxBytes /\ m \in Nat
  <2>1. e \in 1 .. received[k]
    BY <1>5, <1>6
  <2> QED
    BY <1>4, <1>5, <1>6, <2>1
<1>8. a.r = readers[k] /\ readers[k].buf \in Texts /\ readers[k].out \in Seq(Texts)
  BY <1>4 DEF Readers
<1>9. /\ s \in Texts /\ s # <<>>
      /\ a.r.buf # <<>> => w \in Texts /\ w # <<>> /\ OneLine(e, N) /\ LineIs(Lines!Front(w), e, N)
      /\ a.r.buf = <<>> /\ Len(s) > 1    => OneLine(e, N) /\ LineIs(Lines!Front(s), e, N)
      /\ a.r.buf = <<>> /\ ~(Len(s) > 1) => ~OneLine(e, N)
  <2> HIDE DEF a, m, N
  <2>1. a.r.buf \in Texts /\ Begun(a.r.buf, m, N)
    BY <1>5, <1>8
  <2>2. /\ MaxBytes \in Nat /\ Cap \in Nat /\ N \in SUBSET Nat /\ m \in 1 .. MaxBytes /\ e \in N
        /\ m <= e /\ e <= MaxBytes /\ \A i \in N : i < m \/ i >= e
    BY <1>4, <1>5, <1>6, <1>7
  <2> HIDE DEF s
  <2>3. s = Lines!Span(m, e)
    BY DEF s
  <2> QED
    BY <2>1, <2>2, <2>3, LineText
<1>10. Holding(a, Others(k))
  BY <1>4, LineOwns
<1> HIDE DEF a, m, N
<1>11. /\ Holding(b, Others(k)) /\ b.r.buf = <<>> /\ b.r.read = a.r.read /\ b.r.at = a.r.at
       /\ a.r.buf # <<>> => b.r.out = Append(a.r.out, Lines!Front(w))
       /\ a.r.buf = <<>> => b.r.out = IF Len(s) > 1 THEN Append(a.r.out, Lines!Front(s)) ELSE a.r.out
  <2> HIDE DEF b, s
  <2>1. b = Lines!Line(a, s)
    BY DEF b
  <2> QED
    BY <1>9, <1>10, <2>1, LineDone DEF Joined
<1> HIDE DEF b, s, w
<1>12. b.r \in Readers
  BY <1>11 DEF Holding, Pairs
<1>13. /\ r \in Readers /\ r.mem = b.r.mem /\ r.buf = <<>> /\ r.read = readers[k].read /\ r.out = b.r.out
       /\ r.at = e + 1
  <2>1. e + 1 \in Nat
    BY <1>7
  <2> QED
    BY <1>8, <1>11, <1>12, <2>1 DEF Readers
<1> HIDE DEF r
<1>14. PoolInv'
  BY <1>3, <1>4, <1>8, <1>11, <1>13, LineTurned
<1>15. readers'[k] = r /\ \A d \in Wires \ {k} : readers'[d] = readers[d]
  BY <1>3, <1>4
<1>16. Delivered(r.out, e + 1, N)
  <2>1. IsFiniteSet(N)
    <3>1. IsFiniteSet(1 .. received[k])
      <4>1. received[k] \in Int /\ 1 \in Int
        BY <1>5
      <4> QED
        BY <4>1, FS_Interval
    <3> QED
      BY <1>5, <3>1, FS_Subset
  <2>2. r.out \in Seq(Texts) /\ a.r.out \in Seq(Texts) /\ Delivered(a.r.out, m, N)
    BY <1>5, <1>8, <1>13 DEF Readers
  <2>3. IF OneLine(e, N) THEN \E v \in Texts : r.out = Append(a.r.out, v) /\ LineIs(v, e, N)
                         ELSE r.out = a.r.out
    <3>1. CASE a.r.buf # <<>>
      <4>1. Lines!Front(w) \in Texts
        BY <1>9, <3>1, FrontText
      <4> QED
        BY <1>9, <1>11, <1>13, <3>1, <4>1
    <3>2. CASE a.r.buf = <<>> /\ Len(s) > 1
      <4>1. Lines!Front(s) \in Texts
        BY <1>9, FrontText
      <4> QED
        BY <1>9, <1>11, <1>13, <3>2, <4>1
    <3>3. CASE a.r.buf = <<>> /\ ~(Len(s) > 1)
      <4>1. r.out = a.r.out
        BY <1>11, <1>13, <3>3
      <4>2. ~OneLine(e, N)
        BY <1>9, <3>3
      <4> QED
        BY <4>1, <4>2
    <3> QED
      BY <3>1, <3>2, <3>3
  <2> QED
    BY <1>5, <1>6, <1>7, <2>1, <2>2, <2>3, OneMore DEF OneLine, LineIs
<1>17. Begun(<<>>, e + 1, N)
  <2>1. MaxBytes \in Nat /\ e \in N /\ e \in 0 .. MaxBytes
    BY <1>4, <1>6, <1>7
  <2> QED
    BY <2>1, BegunNew
<1>18. LineKept(k)'
  <2>1. newlines'[k] = N /\ received'[k] = received[k]
    BY <1>2 DEF N
  <2>2. e + 1 \in 1 .. received[k] + 1 /\ received[k] + 1 - (e + 1) <= Cap
    <3>1. received[k] \in Nat
      BY <1>5
    <3> QED
      BY <1>4, <1>5, <1>7, <3>1
  <2>3. e + 1 = received[k] + 1 => received[k] \in N
    BY <1>5, <1>6, <1>7
  <2> QED
    BY <1>1, <1>2, <1>5, <1>13, <1>15, <1>16, <1>17, <2>1, <2>2, <2>3 DEF LineKept
<1> QED
  BY <1>2, <1>4, <1>14, <1>15, <1>18, LineMoved

(* What is kept of the line that goes on.                                  *)
LEMMA RestBegun ==
    ASSUME MaxBytes \in Nat, Cap \in Nat, NEW N \in SUBSET Nat, NEW g \in 1 .. MaxBytes, NEW m \in 1 .. g,
           g + 1 - m <= Cap, \A i \in N : i < m, NEW buf \in Texts, Len(buf) <= Cap, Begun(buf, m, N)
    PROVE  LET s == Lines!Span(m, g)
           IN s \in Texts /\ Begun(IF Len(s) + Len(buf) > Cap THEN buf ELSE buf \o s, g + 1, N)
<1> DEFINE s == Lines!Span(m, g)
           w == IF Len(s) + Len(buf) > Cap THEN buf ELSE buf \o s
<1>1. g \in Nat /\ m \in Nat /\ m \in 1 .. MaxBytes + 1 /\ m <= g /\ m <= g + 1 /\ m # g + 1
  OBVIOUS
<1>2. s \in Texts /\ Len(s) = g - m + 1 /\ s # <<>>
  <2>1. g \in 0 .. MaxBytes
    OBVIOUS
  <2> QED
    BY <1>1, <2>1, SpanText
<1>3. /\ Len(buf) \in Nat /\ (buf = <<>> <=> Len(buf) = 0)
      /\ buf \o s \in Texts /\ Len(buf \o s) = Len(buf) + Len(s)
      /\ buf = <<>> => buf \o s = s
  BY <1>2, SMTT(40) DEF Texts
<1>4. w # <<>>
  <2>1. CASE buf = <<>>
    <3>1. w = s
      BY <1>1, <1>2, <1>3, <2>1
    <3> QED
      BY <1>2, <3>1
  <2>2. CASE buf # <<>>
    <3>1. buf \o s # <<>>
      BY <1>1, <1>2, <1>3, <2>2
    <3> QED
      BY <2>2, <3>1
  <2> QED
    BY <2>1, <2>2
<1>5. ~Begins(g + 1, N)
  BY <1>1 DEF Begins
<1>6. ASSUME NEW a \in 1 .. g + 1, Begins(a, N), Clean(a, (g + 1) - 1, N), (g + 1) - a <= Cap
      PROVE  w = Lines!Span(a, (g + 1) - 1)
  <2>1. a <= m
    <3> SUFFICES ASSUME a > m PROVE FALSE
      BY <1>1
    <3>1. a # 1 /\ a - 1 >= m /\ a - 1 \in Nat
      BY <1>1
    <3> QED
      BY <1>6, <3>1 DEF Begins
  <2>2. (g + 1) - 1 = g /\ a \in 1 .. MaxBytes
    BY <1>1, <2>1
  <2>3. CASE a = m
    <3>1. buf = <<>>
      BY <1>6, <2>3 DEF Begun
    <3>2. w = s
      BY <1>1, <1>2, <1>3, <3>1
    <3> QED
      BY <2>2, <2>3, <3>2
  <2>4. CASE a < m
    <3>1. Clean(a, m - 1, N)
      <4>1. \A i \in a .. m - 1 : i \in a .. (g + 1) - 1
        BY <1>1
      <4> QED
        BY <1>6, <4>1 DEF Clean
    <3>2. a \in 1 .. m /\ m - a <= Cap
      BY <1>1, <1>6, <2>1
    <3>3. buf = Lines!Span(a, m - 1)
      BY <1>6, <3>1, <3>2 DEF Begun
    <3>4. Len(buf) = m - a
      <4>1. a \in 1 .. MaxBytes + 1 /\ m - 1 \in 0 .. MaxBytes /\ a <= (m - 1) + 1 /\ (m - 1) - a + 1 = m - a
        BY <1>1, <2>2, <2>4
      <4> QED
        BY <3>3, <4>1, SpanText
    <3>5. w = buf \o s
      BY <1>1, <1>2, <1>6, <3>4
    <3> QED
      BY <1>1, <2>1, <2>2, <3>3, <3>5, SpanJoin
  <2> QED
    BY <1>1, <2>1, <2>3, <2>4
<1>7. Begun(w, g + 1, N)
  BY <1>4, <1>5, <1>6 DEF Begun
<1> QED
  BY <1>2, <1>7

(* No newline from n on: past it nothing more is told.                     *)
LEMMA NoMore ==
    ASSUME NEW N \in SUBSET Nat, NEW n \in Nat, NEW l \in Nat, n <= l, \A i \in N : i < n,
           NEW out, Delivered(out, n, N)
    PROVE  Delivered(out, l, N)
<1>1. Ended(l, N) = Ended(n, N)
  <2>1. \A i \in N : i < l /\ i < n
    OBVIOUS
  <2> QED
    BY <2>1 DEF Ended
<1> QED
  BY <1>1 DEF Delivered

LEMMA LinesLast ==
    ASSUME Lines!LineAssumption, LinesInv, NEW k \in Wires, Lines!LastBytes(k)
    PROVE  LinesInv'
<1> DEFINE a == [p |-> Lines!Pool, r |-> readers[k]]
           m == readers[k].at
           g == received[k]
           N == newlines[k]
           x == Lines!Rest(m, g, a)
           p == Lines!Released(x.p, readers[k].read)
           r == [x.r EXCEPT !.at = g + 1, !.read = 0]
<1>1. /\ readers[k].read # 0 /\ Lines!Coming(k) = {}
      /\ readers' = [readers EXCEPT ![k] = r] /\ Lines!PoolNow(p)
      /\ received' = received /\ newlines' = newlines /\ wired' = wired
  BY DEF Lines!LastBytes
<1>2. /\ PoolInv /\ received \in [Wires -> 0 .. MaxBytes] /\ newlines \in [Wires -> SUBSET Nat] /\ wired \subseteq Wires
      /\ LineKept(k) /\ readers \in [Wires -> Readers] /\ readers[k] \in Readers
      /\ MaxBytes \in Nat /\ Cap \in Nat
  BY DEF LinesInv, PoolInv, Lines!LineAssumption
<1>3. /\ N \subseteq 1 .. g /\ m \in 1 .. g + 1 /\ g + 1 - m <= Cap
      /\ m = g + 1 => g \in N
      /\ Begun(readers[k].buf, m, N) /\ Delivered(readers[k].out, m, N) /\ k \in wired
      /\ g \in 0 .. MaxBytes /\ N \in SUBSET Nat
  BY <1>1, <1>2 DEF LineKept
<1>4. \A i \in N : i < m
  <2>1. \A i \in N : ~(i >= m)
    BY <1>1 DEF Lines!Coming
  <2>2. \A i \in N : i \in Nat
    BY <1>3
  <2>3. m \in Nat
    BY <1>3
  <2> QED
    BY <2>1, <2>2, <2>3
<1>5. /\ a.r = readers[k] /\ readers[k].buf \in Texts /\ readers[k].out \in Seq(Texts) /\ readers[k].read \in Nat
      /\ Len(readers[k].buf) <= Cap
  BY <1>2 DEF Readers, PoolInv
<1>6. Holding(a, Others(k))
  BY <1>2, LineOwns
<1>7. /\ Holding(x, Others(k)) /\ x.r.out = readers[k].out /\ x.r.read = readers[k].read
      /\ Begun(x.r.buf, g + 1, N)
  <2> HIDE DEF a
  <2>1. CASE m > g
    <3>1. m = g + 1 /\ g \in N
      BY <1>3, <2>1
    <3>2. x = Lines!Reset(a)
      BY <2>1 DEF Lines!Rest
    <3>3. /\ Holding(x, Others(k)) /\ x.r.out = a.r.out /\ x.r.read = a.r.read /\ x.r.buf = <<>>
      BY <1>6, <3>2, LineReset
    <3>4. Begun(<<>>, g + 1, N)
      <4> HIDE DEF g, N
      <4> QED
        BY <1>2, <1>3, <3>1, BegunNew
    <3> QED
      BY <1>5, <3>3, <3>4
  <2>2. CASE ~(m > g)
    <3> DEFINE s == Lines!Span(m, g)
    <3>1. x = Lines!Add(a, s)
      BY <2>2 DEF Lines!Rest
    <3>2. g \in 1 .. MaxBytes /\ m \in 1 .. g
      BY <1>2, <1>3, <2>2
    <3>3. a.r.buf \in Texts /\ Len(a.r.buf) <= Cap /\ Begun(a.r.buf, m, N)
      BY <1>3, <1>5
    <3>4. s \in Texts /\ Begun(IF Len(s) + Len(a.r.buf) > Cap THEN a.r.buf ELSE a.r.buf \o s, g + 1, N)
      <4> HIDE DEF m, g, N
      <4> QED
        BY <1>2, <1>3, <1>4, <3>2, <3>3, RestBegun
    <3> HIDE DEF s, x
    <3>5. /\ Holding(x, Others(k)) /\ x.r.out = a.r.out /\ x.r.read = a.r.read
          /\ x.r.buf = IF Len(s) + Len(a.r.buf) > Cap THEN a.r.buf ELSE a.r.buf \o s
      BY <1>6, <3>1, <3>4, LineAdded
    <3> QED
      BY <1>5, <3>4, <3>5
  <2> QED
    BY <2>1, <2>2
<1> HIDE DEF x
<1>8. /\ x \in Pairs /\ x.p \in Pools /\ x.r \in Readers /\ x.p.free \subseteq Cells(x.p.blocks)
      /\ x.r.mem \notin Others(k) /\ Used(x.p) = Others(k) \union ({x.r.mem} \ {0})
      /\ x.r.buf # <<>> => x.r.mem # 0
      /\ Len(x.r.buf) <= Cap
  BY <1>7 DEF Holding, Pairs
<1>9. /\ r \in Readers /\ r.mem = x.r.mem /\ r.buf = x.r.buf /\ r.read = 0 /\ r.out = readers[k].out
      /\ r.at = g + 1
  <2>1. g + 1 \in Nat
    BY <1>3
  <2> QED
    BY <1>7, <1>8, <2>1 DEF Readers
<1> HIDE DEF r
<1>10. Others(k) = Elsewhere(k) \union {readers[k].read} /\ readers[k].read \notin Elsewhere(k)
  BY <1>1, <1>2 DEF Others, PoolInv
<1>11. /\ p \in Pools /\ p.free \subseteq Cells(p.blocks)
       /\ Used(p) = Used(x.p) \ ({readers[k].read} \ {0})
  BY <1>8, <1>10, PoolReleased
<1> HIDE DEF p
<1>12. PoolInv'
  <2>1. Used(p) = Elsewhere(k) \union ({r.mem, r.read} \ {0}) /\ r.mem \notin Elsewhere(k)
    BY <1>1, <1>8, <1>9, <1>10, <1>11
  <2>2. 0 \notin Elsewhere(k)
    BY DEF Elsewhere
  <2>3. r.read \notin Elsewhere(k) /\ (r.mem = 0 \/ r.mem # r.read)
    BY <1>9, <2>2
  <2>4. (r.buf # <<>> => r.mem # 0) /\ Len(r.buf) <= Cap
    BY <1>8, <1>9
  <2> QED
    BY <1>1, <1>2, <1>9, <1>11, <2>1, <2>3, <2>4, LineSwap
<1>13. readers'[k] = r /\ \A d \in Wires \ {k} : readers'[d] = readers[d]
  BY <1>1, <1>2
<1>14. Delivered(r.out, g + 1, N)
  <2>1. m \in Nat /\ g + 1 \in Nat /\ m <= g + 1
    BY <1>3
  <2> HIDE DEF m, g, N
  <2> QED
    BY <1>3, <1>4, <1>9, <2>1, NoMore
<1>15. LineKept(k)'
  <2>1. newlines'[k] = N /\ received'[k] = g
    BY <1>1
  <2>2. g + 1 \in 1 .. g + 1 /\ (g + 1) - (g + 1) = 0 /\ 0 <= Cap
    BY <1>2, <1>3
  <2> QED
    BY <1>1, <1>3, <1>7, <1>9, <1>13, <1>14, <2>1, <2>2 DEF LineKept
<1> QED
  BY <1>1, <1>2, <1>12, <1>13, <1>15, LineMoved

LEMMA LinesInit == Lines!LineAssumption /\ Lines!Init => LinesInv
<1> SUFFICES ASSUME Lines!LineAssumption, Lines!Init PROVE LinesInv
  OBVIOUS
<1> DEFINE e == [buf |-> <<>>, mem |-> 0, out |-> <<>>, read |-> 0, at |-> 1]
<1>1. /\ readers = [k \in Wires |-> e] /\ received = [k \in Wires |-> 0] /\ newlines = [k \in Wires |-> {}]
      /\ wired = Wires /\ allocs = 0 /\ spares = {} /\ MaxBytes \in Nat /\ Cap \in Nat
  BY DEF Lines!Init, Lines!LineAssumption
<1>2. e \in Readers
  <2>1. <<>> \in Texts /\ <<>> \in Seq(Texts)
    BY DEF Texts
  <2> QED
    BY <2>1 DEF Readers
<1>3. /\ Lines!Pool \in Pools /\ Lines!Pool.free = {} /\ Cells(Lines!Pool.blocks) = {} /\ Used(Lines!Pool) = {}
  <2>1. Lines!Pool = [blocks |-> 0, free |-> {}]
    BY <1>1 DEF Lines!Pool
  <2>2. Cells(0) = {}
    BY DEF Cells, Lines!LineAssumption
  <2> QED
    BY <2>1, <2>2 DEF Pools, Used
<1>4. \A k \in Wires : /\ readers[k] = e /\ readers[k].mem = 0 /\ readers[k].read = 0
                       /\ readers[k].buf = <<>> /\ readers[k].out = <<>> /\ readers[k].at = 1
  BY <1>1
<1>5. InUse = {} /\ \A k \in Wires : Elsewhere(k) = {}
  BY <1>4 DEF InUse, Elsewhere
<1>6. readers \in [Wires -> Readers]
  BY <1>1, <1>2
<1>7. PoolInv
  BY <1>1, <1>3, <1>4, <1>5, <1>6 DEF PoolInv
<1>8. Begun(<<>>, 1, {})
  <2>1. Lines!Span(1, 0) = <<>>
    BY <1>1, SpanText
  <2> QED
    BY <2>1 DEF Begun, Begins
<1>9. Delivered(<<>>, 1, {})
  <2>1. Ended(1, {}) = {}
    BY DEF Ended
  <2> QED
    BY <2>1, FS_EmptySet DEF Delivered
<1>10. \A k \in Wires : LineKept(k)
  BY <1>1, <1>4, <1>8, <1>9 DEF LineKept
<1>11. received \in [Wires -> 0 .. MaxBytes] /\ newlines \in [Wires -> SUBSET Nat] /\ wired \subseteq Wires
  BY <1>1
<1> QED
  BY <1>7, <1>10, <1>11 DEF LinesInv

LEMMA LinesStep ==
    ASSUME Lines!LineAssumption, LinesInv, [Lines!Next]_Lines!vars
    PROVE  LinesInv'
<1>1. CASE Lines!Next
  <2>1. PICK k \in Wires :
            \/ \E n \in 1 .. Cap : \E nl \in SUBSET (received[k] + 1 .. received[k] + n) : Lines!OnRead(k, n, nl)
            \/ Lines!NextLine(k)
            \/ Lines!LastBytes(k)
            \/ Lines!Close(k)
    BY <1>1 DEF Lines!Next
  <2> QED
    BY <2>1, LinesRead, LinesLine, LinesLast, LinesClosed
<1>2. CASE UNCHANGED Lines!vars
  <2>1. /\ readers' = readers /\ received' = received /\ newlines' = newlines /\ wired' = wired
        /\ allocs' = allocs /\ spares' = spares
    BY <1>2 DEF Lines!vars
  <2> QED
    BY <2>1 DEF LinesInv, PoolInv, LineKept, InUse, Elsewhere, Lines!Pool
<1> QED
  BY <1>1, <1>2

(* LinesWhole is about the lines a newline has ended that are not empty.   *)
LEMMA LinesHold ==
    ASSUME Lines!LineAssumption, LinesInv
    PROVE  Lines!TypeOK /\ Lines!LinesWhole /\ Lines!ChunksOwned /\ Lines!AllBack
<1>1. /\ PoolInv /\ received \in [Wires -> 0 .. MaxBytes] /\ newlines \in [Wires -> SUBSET Nat] /\ wired \subseteq Wires
      /\ readers \in [Wires -> Readers] /\ \A k \in Wires : LineKept(k)
  BY DEF LinesInv, PoolInv
<1>2. /\ spares \subseteq Lines!Chunks /\ Lines!Chunks \ spares = InUse
  <2>1. Lines!Pool.blocks = allocs /\ Lines!Pool.free = spares
    BY DEF Lines!Pool
  <2> QED
    BY <1>1, <2>1 DEF PoolInv, Used, Cells, Lines!Chunks
<1>3. \A k \in Wires : /\ readers[k].buf \in Seq(1 .. MaxBytes) /\ readers[k].mem \in Nat /\ readers[k].read \in Nat
                       /\ readers[k].out \in Seq(Seq(1 .. MaxBytes))
  BY <1>1 DEF Readers, Texts, Bytes
<1>4. \A k \in Wires : /\ readers[k].mem # 0  => readers[k].mem \in InUse
                       /\ readers[k].read # 0 => readers[k].read \in InUse
  BY <1>3 DEF InUse
<1>5. 0 \notin spares
  BY <1>2 DEF Lines!Chunks
<1>6. Lines!TypeOK
  <2>1. ASSUME NEW k \in Wires
        PROVE  /\ readers[k].buf \in Seq(1 .. MaxBytes) /\ Len(readers[k].buf) <= Cap
               /\ {readers[k].mem, readers[k].read} \subseteq Lines!Chunks \union {0}
               /\ \A i \in DOMAIN readers[k].out : readers[k].out[i] \in Seq(1 .. MaxBytes)
               /\ readers[k].at \in 1 .. received[k] + 1
    <3>1. \A i \in DOMAIN readers[k].out : readers[k].out[i] \in Seq(1 .. MaxBytes)
      <4>1. readers[k].out \in Seq(Seq(1 .. MaxBytes))
        BY <1>3
      <4> DEFINE T == Seq(1 .. MaxBytes)
      <4> HIDE DEF T
      <4>2. readers[k].out \in Seq(T) => \A i \in DOMAIN readers[k].out : readers[k].out[i] \in T
        OBVIOUS
      <4> QED
        BY <4>1, <4>2 DEF T
    <3>2. readers[k].buf \in Seq(1 .. MaxBytes) /\ Len(readers[k].buf) <= Cap
      BY <1>1, <1>3 DEF PoolInv
    <3>3. readers[k].at \in 1 .. received[k] + 1
      BY <1>1 DEF LineKept
    <3> QED
      BY <1>2, <1>4, <3>1, <3>2, <3>3
  <2> QED
    BY <1>1, <1>2, <2>1 DEF Lines!TypeOK
<1>7. Lines!LinesWhole
  <2> SUFFICES ASSUME NEW k \in Wires
               PROVE  /\ Len(readers[k].out) = Lines!Cardinality(Lines!LineEnds(k))
                      /\ \A e \in Lines!LineEnds(k), a \in 1 .. MaxBytes :
                             Lines!IsLine(k, a, e) /\ e - a < Cap =>
                                 readers[k].out[Lines!Cardinality(Lines!Upto(k, e))] = Lines!Span(a, e - 1)
    BY DEF Lines!LinesWhole
  <2> DEFINE N == newlines[k]
             n == readers[k].at
  <2>1. Delivered(readers[k].out, n, N) /\ N \in SUBSET Nat
    BY <1>1 DEF LineKept
  <2>2. Lines!LineEnds(k) = Ended(n, N)
    BY DEF Lines!LineEnds, Ended
  <2>3. \A e : Lines!Upto(k, e) = {i \in Ended(n, N) : i <= e}
    BY <2>2 DEF Lines!Upto
  <2>4. ASSUME NEW e \in Lines!LineEnds(k), NEW a \in 1 .. MaxBytes, Lines!IsLine(k, a, e), e - a < Cap
        PROVE  readers[k].out[Lines!Cardinality(Lines!Upto(k, e))] = Lines!Span(a, e - 1)
    <3>1. e \in Ended(n, N) /\ e \in Nat
      BY <2>1, <2>2 DEF Ended
    <3>2. a \in 1 .. e - 1 /\ Begins(a, N) /\ Clean(a, e - 1, N)
      <4>1. a < e /\ (a = 1 \/ a - 1 \in N) /\ (a .. e - 1) \intersect N = {}
        BY <2>4 DEF Lines!IsLine
      <4> HIDE DEF N
      <4> QED
        BY <3>1, <4>1 DEF Begins, Clean
    <3>3. readers[k].out[Cardinality({i \in Ended(n, N) : i <= e})] = Lines!Span(a, e - 1)
      BY <2>1, <2>4, <3>1, <3>2 DEF Delivered
    <3> QED
      BY <2>3, <3>3, LinesCardinality
  <2>5. Len(readers[k].out) = Lines!Cardinality(Lines!LineEnds(k))
    BY <2>1, <2>2, LinesCardinality DEF Delivered
  <2> QED
    BY <2>4, <2>5
<1>8. Lines!ChunksOwned
  <2>1. ASSUME NEW k \in Wires, NEW d \in Wires
        PROVE  /\ readers[k].read # 0 => readers[k].read # readers[d].mem
               /\ k # d /\ readers[k].mem # 0  => readers[k].mem # readers[d].mem
               /\ k # d /\ readers[k].read # 0 => readers[k].read # readers[d].read
    <3>1. /\ readers[k].mem \notin Elsewhere(k) /\ readers[k].read \notin Elsewhere(k)
          /\ readers[k].mem = 0 \/ readers[k].mem # readers[k].read
      BY <1>1 DEF PoolInv
    <3>2. /\ k # d /\ readers[d].mem # 0  => readers[d].mem \in Elsewhere(k)
          /\ k # d /\ readers[d].read # 0 => readers[d].read \in Elsewhere(k)
      BY <1>3 DEF Elsewhere
    <3> QED
      BY <3>1, <3>2
  <2>2. \A k \in Wires : readers[k].buf # <<>> => readers[k].mem # 0
    BY <1>1 DEF PoolInv
  <2>3. \A k \in Wires : readers[k].mem \notin spares /\ readers[k].read \notin spares
    BY <1>2, <1>4, <1>5
  <2> QED
    BY <2>1, <2>2, <2>3 DEF Lines!ChunksOwned
<1>9. Lines!AllBack
  <2> SUFFICES ASSUME wired = {} PROVE spares = Lines!Chunks
    BY DEF Lines!AllBack
  <2>1. \A k \in Wires : readers[k].mem = 0 /\ readers[k].read = 0
    BY <1>1 DEF LineKept
  <2>2. InUse = {}
    BY <2>1 DEF InUse
  <2> QED
    BY <1>2, <2>2
<1> QED
  BY <1>6, <1>7, <1>8, <1>9

(* LineReader delivers each line that is not empty once, in order and byte *)
(* by byte as far as its buffer allows, and a chunk of the pool has one    *)
(* owner at most, none when the connections are gone.                      *)
THEOREM LinesSound ==
    Lines!LineAssumption => (Lines!Spec => [](Lines!LinesWhole /\ Lines!ChunksOwned /\ Lines!AllBack))
<1> SUFFICES ASSUME Lines!LineAssumption
             PROVE  Lines!Spec => [](Lines!LinesWhole /\ Lines!ChunksOwned /\ Lines!AllBack)
  OBVIOUS
<1>1. Lines!Init => LinesInv
  BY LinesInit
<1>2. LinesInv /\ [Lines!Next]_Lines!vars => LinesInv'
  BY LinesStep
<1>3. LinesInv => Lines!LinesWhole /\ Lines!ChunksOwned /\ Lines!AllBack
  BY LinesHold
<1> QED
  BY <1>1, <1>2, <1>3, PTL DEF Lines!Spec
=============================================================================
