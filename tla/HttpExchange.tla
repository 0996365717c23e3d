---------------------------- MODULE HttpExchange ----------------------------
(***************************************************************************)
(* The life of the HTTP contexts (base/net/http, base/net/https): requests *)
(* the daemon and self-select clients send (HttpClient, HttpsClient), and  *)
(* connections to the API (HttpServer, HttpsServer).  Both kinds share one *)
(* static table, HttpContext's storage, whose identifiers are never used   *)
(* twice.  A context is deleted by the callback of uv_close.  The API's    *)
(* server is destroyed when the configuration moves it, and then closes    *)
(* every context of the table.                                             *)
(***************************************************************************)
EXTENDS Naturals, FiniteSets

CONSTANTS Ids,          \* identifiers SEQUENCE gives out
          Rebinds,      \* times the API's server is destroyed
          DnsFails,     \* a host may not be found
          Peers         \* whom requests meet: "plain", or over TLS "trusted" or "wrong"

HttpAssumption == Rebinds \in Nat /\ DnsFails \in BOOLEAN /\ Peers \subseteq {"plain", "trusted", "wrong"}

VARIABLES ctx,        \* the contexts
          owners,     \* clients' requests whose IHttpListener still exists
          rebinds,
          touched     \* closeAll has used a context that was deleted

vars == <<ctx, owners, rebinds, touched>>

Stages == {"new", "resolve", "nohost", "connect", "hello", "open", "asked", "replied", "lost"}

\* kind; where the exchange stands; the handle; its entry in storage; m_listener
\* still set; times the listener was called; how the handle came to be closed;
\* who answers, and how often the request was written to him
New == [kind |-> "none", stage |-> "new", handle |-> "none", stored |-> FALSE,
        listens |-> FALSE, heard |-> 0, by |-> "none", peer |-> "plain", sent |-> 0]

Init ==
    /\ ctx = [i \in Ids |-> New]
    /\ owners = {}
    /\ rebinds = 0
    /\ touched = FALSE

Is(i, kind, stage) == ctx[i].kind = kind /\ ctx[i].stage = stage /\ ctx[i].handle # "freed"
Open(i, kind, stage) == Is(i, kind, stage) /\ ctx[i].handle = "open"
Created(i) == ctx[i].kind # "none"

\* The listener's onHttpData, if it is still there
Tell(c, i) == [c EXCEPT !.heard = @ + IF c.listens /\ (c.kind = "server" \/ i \in owners) THEN 1 ELSE 0]

\* HttpContext::close: only what is still in storage
Closed(c, i, failed, why) ==
    IF ~c.stored THEN c
    ELSE LET told == IF failed THEN Tell(c, i) ELSE c
         IN [told EXCEPT !.stored = FALSE,
                         !.handle = "closing",
                         !.by = IF c.handle = "closing" THEN @ ELSE why]

\* HttpContext's constructor
Make(i, kind, stage, peer) ==
    /\ ~Created(i)
    /\ \A j \in Ids : ~Created(j) => i <= j
    /\ ctx' = [ctx EXCEPT ![i] = [New EXCEPT !.kind = kind, !.stage = stage, !.handle = "open",
                                             !.stored = TRUE, !.listens = TRUE, !.peer = peer]]

Set(i, c) == ctx' = [ctx EXCEPT ![i] = c]
Stage(i, stage) == Set(i, [ctx[i] EXCEPT !.stage = stage])

-----------------------------------------------------------------------------
(* A request of this proxy *)

\* fetch, HttpClient::connect
Fetch(i) ==
    /\ \E peer \in Peers : Make(i, "client", "resolve", peer)
    /\ owners' = owners \cup {i}
    /\ UNCHANGED <<rebinds, touched>>

\* The client that asked is deleted, or asks no more
OwnerGone(i) ==
    /\ i \in owners
    /\ owners' = owners \ {i}
    /\ UNCHANGED <<ctx, rebinds, touched>>

\* HttpClient::onResolved.  A host that is not found ends here: nobody is told,
\* and nothing closes the handle.  Nor is anybody told where it closes already
OnResolved(i) ==
    /\ Is(i, "client", "resolve")
    /\ \/ ctx[i].handle = "open" /\ Stage(i, "connect")
       \/ ctx[i].handle = "open" /\ DnsFails /\ Stage(i, "nohost")
       \/ ctx[i].handle = "closing" /\ Stage(i, "lost")
    /\ UNCHANGED <<owners, rebinds, touched>>

\* HttpClient::handshake: headers and body, in one write
Send(c) == [c EXCEPT !.stage = "open", !.sent = @ + 1]

\* HttpsClient::handshake says hello first, and the request waits
Greet(c) == IF c.peer = "plain" THEN Send(c) ELSE [c EXCEPT !.stage = "hello"]

\* Bug: a failed attempt ends like a host that is not found
BugOnConnect(i) ==
    /\ Is(i, "client", "connect")
    /\ \/ ctx[i].handle = "open" /\ Set(i, Greet(ctx[i]))
       \/ Stage(i, "lost")
    /\ UNCHANGED <<owners, rebinds, touched>>

\* HttpClient::onConnect; closing the handle cancels the attempt
OnConnect(i) ==
    /\ Is(i, "client", "connect")
    /\ \/ ctx[i].handle = "open" /\ Set(i, Greet(ctx[i]))
       \/ Set(i, Closed([ctx[i] EXCEPT !.stage = "lost"], i, TRUE, "net"))
    /\ UNCHANGED <<owners, rebinds, touched>>

\* HttpsClient::verify: any certificate when none is pinned, else that one
Trusts(c) == c.peer = "trusted"

\* The handshake is over: the request is written to whom it is meant for, and
\* to nobody else
OnHello(i) ==
    /\ Open(i, "client", "hello")
    /\ Set(i, IF Trusts(ctx[i]) THEN Send(ctx[i]) ELSE Closed(ctx[i], i, TRUE, "net"))
    /\ UNCHANGED <<owners, rebinds, touched>>

\* on_message_complete of a response
OnAnswer(i) ==
    /\ Open(i, "client", "open")
    /\ Set(i, [Tell([ctx[i] EXCEPT !.stage = "replied"], i) EXCEPT !.listens = FALSE])
    /\ UNCHANGED <<owners, rebinds, touched>>

\* The end of the connection, an answer that does not parse, or bytes behind the
\* answer; HttpsClient::read goes on parsing what it has decrypted, and may
\* close a second time
OnEnd(i) ==
    /\ ctx[i].handle # "freed" /\ ctx[i].kind = "client"
    /\ ctx[i].stage \in {"hello", "open", "replied"}
    /\ ctx[i].handle = "open" \/ ctx[i].by = "net"
    /\ Set(i, Closed(ctx[i], i, TRUE, "net"))
    /\ UNCHANGED <<owners, rebinds, touched>>

-----------------------------------------------------------------------------
(* A request to the API *)

\* HttpServer::onConnection
OnConnection(i) ==
    /\ Make(i, "server", "open", "plain")
    /\ UNCHANGED <<owners, rebinds, touched>>

\* What Httpd::stop leaves of the contexts: closeAll closes handles only
SweptCtx(c) == IF c.stored /\ c.handle = "open" THEN [c EXCEPT !.handle = "closing", !.by = "sweep"] ELSE c
Swept == [i \in Ids |-> SweptCtx(ctx[i])]
Stale == \E i \in Ids : ctx[i].stored /\ ctx[i].handle = "freed"

\* on_message_complete of a request: Api::request replies before it returns
OnRequest(i) ==
    /\ Open(i, "server", "open")
    /\ Set(i, [Tell(ctx[i], i) EXCEPT !.listens = FALSE, !.stage = "asked"])
    /\ UNCHANGED <<owners, rebinds, touched>>

\* The same for a PUT that moves the API: its own server is destroyed before
\* the reply, and HttpResponse::isAlive finds the stream closing
OnMove(i) ==
    /\ Open(i, "server", "open")
    /\ rebinds < Rebinds /\ rebinds' = rebinds + 1
    /\ ctx' = [Swept EXCEPT ![i] = [Tell(@, i) EXCEPT !.listens = FALSE, !.stage = "lost"]]
    /\ touched' = (touched \/ Stale)
    /\ UNCHANGED owners

\* The callback of uv_write deletes the baton, and that closes the context
Written(i) ==
    /\ Is(i, "server", "asked")
    /\ Set(i, Closed([ctx[i] EXCEPT !.stage = "replied"], i, FALSE, "reply"))
    /\ UNCHANGED <<owners, rebinds, touched>>

\* The peer goes, or what it sends does not parse
PeerGone(i) ==
    /\ ctx[i].kind = "server" /\ ctx[i].handle = "open"
    /\ Set(i, Closed(ctx[i], i, FALSE, "net"))
    /\ UNCHANGED <<owners, rebinds, touched>>

\* The file moves the API, or the proxy stops
Rebind ==
    /\ rebinds < Rebinds /\ rebinds' = rebinds + 1
    /\ ctx' = Swept
    /\ touched' = (touched \/ Stale)
    /\ UNCHANGED owners

\* uv_close's callback comes after the callbacks of what it has cancelled; it
\* deletes the context, and with it the request for the host's address
Free(i) ==
    /\ ctx[i].handle = "closing"
    /\ ctx[i].stage \notin {"connect", "asked"}
    /\ Set(i, [ctx[i] EXCEPT !.handle = "freed"])
    /\ UNCHANGED <<owners, rebinds, touched>>

Next ==
    \/ Rebind
    \/ \E i \in Ids :
         \/ Fetch(i) \/ OwnerGone(i) \/ OnResolved(i) \/ OnConnect(i) \/ OnHello(i) \/ OnAnswer(i) \/ OnEnd(i)
         \/ OnConnection(i) \/ OnRequest(i) \/ OnMove(i) \/ Written(i) \/ PeerGone(i)
         \/ Free(i)

\* Callbacks come, and no connection stays open for ever: nothing here sets a
\* timeout, so the second is the peers' part
Spec ==
    /\ Init /\ [][Next]_vars
    /\ \A i \in Ids : /\ WF_vars(OnResolved(i)) /\ WF_vars(OnConnect(i)) /\ WF_vars(Free(i))
                      /\ WF_vars(OnEnd(i) /\ ctx[i].stored) /\ WF_vars(Written(i)) /\ WF_vars(PeerGone(i))

-----------------------------------------------------------------------------
TypeOK ==
    /\ ctx \in [Ids -> [kind: {"none", "client", "server"}, stage: Stages,
                        handle: {"none", "open", "closing", "freed"}, stored: BOOLEAN,
                        listens: BOOLEAN, heard: 0..2, by: {"none", "net", "reply", "sweep"},
                        peer: {"plain", "trusted", "wrong"}, sent: Nat]]
    /\ owners \subseteq Ids
    /\ rebinds \in 0..Rebinds
    /\ touched \in BOOLEAN

\* However a request ends - an answer with bytes behind it, a lost connection, a
\* cancelled one - its listener is called once at most.
HeardOnce == \A i \in Ids : ctx[i].heard <= 1

\* A request is written once at most, and over TLS to nobody before he has shown
\* the certificate that is asked of him; only whom it was written to answers.
SentWhereMeant ==
    \A i \in Ids : LET c == ctx[i] IN
        /\ c.sent <= IF c.peer = "wrong" THEN 0 ELSE 1
        /\ c.kind = "client" /\ c.stage = "replied" => c.sent = 1

\* A context that is deleted while the API stays is out of the table first: no
\* later HttpContext::get or closeAll can find it.
ForgottenFirst ==
    \A i \in Ids : ctx[i].handle = "freed" /\ ctx[i].by # "sweep" => ~ctx[i].stored

\* A connection to the API that has asked is closed by the proxy after its reply
\* was sent, unless the peer went or the server was destroyed.
ReplyFirst ==
    \A i \in Ids : ctx[i].by = "reply" => ctx[i].stage = "replied"

\* The server of the API was destroyed while the exchange was underway: closeAll
\* closes every handle of the table, and tells nobody
CutOff(i) == ctx[i].by = "sweep"

\* A request whose owner waits is answered or failed to it, in the end: unless
\* its host was not found (HttpClient::onResolved returns), or the API went.
OwnerTold(i) ==
    ctx[i].kind = "client" =>
        ctx[i].heard > 0 \/ i \notin owners \/ ctx[i].stage = "nohost" \/ CutOff(i)

\* Every context is deleted in the end, but that of a host that was not found:
\* it stays open until the API goes.
Reclaimed(i) == Created(i) => ctx[i].handle = "freed" \/ (ctx[i].stage = "nohost" /\ ~CutOff(i))
=============================================================================
