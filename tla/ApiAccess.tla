----------------------------- MODULE ApiAccess -----------------------------
(***************************************************************************)
(* What the HTTP API answers and what it lets a request do                 *)
(* (base/api/Httpd, Api, requests/HttpApiRequest, base/kernel/Base and     *)
(* api/v1/ApiRouter as its listeners).  A request is handled within one    *)
(* callback, hence in one step; between two of them the configuration the  *)
(* answers depend on may be replaced, by a request or from its file.       *)
(***************************************************************************)
EXTENDS Naturals, Sequences, Functions

CONSTANTS Configs,      \* [restricted, token, watch, usable, n]: what configurations may be
          NoToken,
          Tokens,
          SaveFails,    \* the file may be impossible to write
          Requests      \* what may be asked

VARIABLES conf,       \* the configuration in use
          file,       \* the one in the file
          watcher,    \* the file is watched, and has changed
          last        \* the last exchange, as it was, with the configuration it met

vars == <<conf, file, watcher, last>>

Methods == {"DELETE", "GET", "HEAD", "POST", "PUT", "OPTIONS", "PATCH"}
Paths == {"favicon", "summary", "workers", "miners", "config", "json_rpc", "other"}
Bodies == {"none", "broken", "call", "config"}
Auths == {"none", "malformed"} \cup Tokens
Usable == {c \in Configs : c.usable}

\* What may be in a request; a connection may be gone before it is answered
AllRequests ==
    [method: Methods, path: Paths, auth: Auths, json: BOOLEAN, alive: BOOLEAN,
     body: Bodies, config: Configs]
NoConfig == CHOOSE c \in Configs : TRUE
Makes(r) ==
    /\ r.method \in {"POST", "PUT"} \/ (r.body = "none" /\ r.json)
    /\ r.body = "config" => r.path = "config"
    /\ r.body = "call" => r.path = "json_rpc"
    /\ r.body = "config" \/ r.config = NoConfig

ApiAssumption ==
    /\ Configs \subseteq [restricted: BOOLEAN, token: Tokens \cup {NoToken},
                          watch: BOOLEAN, usable: BOOLEAN, n: Nat]
    /\ NoToken \notin Tokens
    /\ SaveFails \in BOOLEAN
    /\ Requests \subseteq {r \in AllRequests : Makes(r)}

\* status, members of the document in the order they are added, replies written
Nothing == [status |-> 0, members |-> <<>>, replies |-> 0, changes |-> FALSE, shows |-> {}]

NoRequest ==
    [method |-> "GET", path |-> "other", auth |-> "none", json |-> TRUE, alive |-> FALSE,
     body |-> "none", config |-> NoConfig]
NoExchange(c) == [req |-> NoRequest, reply |-> Nothing, met |-> c, moved |-> FALSE]

Init ==
    /\ conf \in Usable
    /\ file = conf
    /\ watcher = [up |-> conf.watch, changed |-> FALSE]
    /\ last = NoExchange(conf)

-----------------------------------------------------------------------------
(* Httpd *)

IsAuthRequired(c) == ~c.restricted \/ c.token # NoToken

\* Httpd::auth
Auth(r, c) ==
    IF r.auth = "none" THEN IF IsAuthRequired(c) THEN 401 ELSE 200
    ELSE IF c.token = NoToken THEN 401
    ELSE IF r.auth = c.token THEN 200 ELSE 403

\* Httpd::onHttpData: the status of what goes no further, else 0
Refusal(r, c) ==
    IF r.method = "OPTIONS" THEN 200
    ELSE IF r.method = "GET" /\ r.path = "favicon" THEN 404
    ELSE IF r.method = "PATCH" THEN 405
    ELSE IF Auth(r, c) # 200 THEN Auth(r, c)
    ELSE IF r.method # "GET" /\ c.restricted THEN 403
    ELSE IF r.method # "GET" /\ ~r.json THEN 415
    ELSE 0

-----------------------------------------------------------------------------
(* Api::exec, the listeners, HttpApiRequest *)

ErrorMembers(status, has) ==
    IF status < 400 THEN <<>>
    ELSE (IF "status" \in has THEN <<>> ELSE <<"status">>) \o (IF "error" \in has THEN <<>> ELSE <<"error">>)

\* HttpApiResponse::end
End(status, members) == members \o ErrorMembers(status, Range(members))

GetHashrate == <<"hashrate">>
GetWorkers == <<"mode", "workers">>
GetMiners == <<"format", "miners">>
Summary ==
    <<"id", "worker_id", "uptime", "restricted", "resources", "features">>      \* Api::exec
    \o <<"version", "kind", "algo", "mode", "ua", "donate_level", "donated">>   \* getMiner
    \o GetHashrate
    \o <<"miners", "workers", "upstreams">>                                     \* getMinersSummary
    \o <<"results">>                                                            \* getResults

\* done for a JSON-RPC call.  No listener takes one, so each fails: setRpcError
\* ends the response, and done ends it again
Rpc(r) == [Nothing EXCEPT !.status = 200, !.members = <<"error", "jsonrpc", "id">>, !.replies = 2]

Reply(status, members, shows) ==
    [Nothing EXCEPT !.status = status, !.members = End(status, members), !.replies = 1, !.shows = shows]

\* accept: a body that cannot be parsed leaves its error in the reply
Accepted(r) == IF r.body = "broken" THEN <<"error">> ELSE <<>>

\* Base::onRequest and ApiRouter::onRequest for GET
Get(r, c) ==
    CASE r.path = "summary" -> Reply(200, Summary, {})
      [] r.path = "workers" -> Reply(200, GetHashrate \o GetWorkers, {})
      [] r.path = "miners" -> Reply(200, GetMiners, {})
      [] r.path = "config" /\ c.restricted -> Reply(403, <<>>, {})
      [] r.path = "config" /\ ~c.restricted -> Reply(200, <<"config">>, {c})
      [] OTHER -> Reply(404, <<>>, {})

\* Base::onRequest for the others: reload wants a configuration it can use
Other(r) ==
    CASE r.path = "json_rpc" /\ r.method = "POST" -> Rpc(r)
      [] r.path = "config" /\ r.method \in {"POST", "PUT"} ->
            IF r.body = "config" /\ r.config.usable THEN [Reply(204, <<>>, {}) EXCEPT !.changes = TRUE]
            ELSE Reply(400, Accepted(r), {})
      [] OTHER -> Reply(404, <<>>, {})

Answer(r, c) ==
    IF Refusal(r, c) # 0 THEN Reply(Refusal(r, c), <<>>, {})
    ELSE IF r.method = "GET" THEN Get(r, c) ELSE Other(r)

-----------------------------------------------------------------------------
(* Http::isEqual: whether the API's server must be made anew *)
SameHttp(c, d) == c.restricted = d.restricted /\ c.token = d.token

\* HttpResponse::end: only on a connection that is there.  One the server closed
\* when the configuration moved it is not
Sent(r, reply, moved) ==
    [reply EXCEPT !.replies = IF r.alive /\ ~moved THEN @ ELSE 0]

\* Base::reload: what is in the file is left to the watcher
Deferred(c, saved) == c.watch /\ watcher.up /\ saved

\* One exchange is remembered at a time
Idle == last.reply.status = 0
Forget ==
    /\ ~Idle
    /\ last' = NoExchange(conf)
    /\ UNCHANGED <<conf, file, watcher>>

Exchange(r, reply, moved) ==
    last' = [req |-> r, reply |-> Sent(r, reply, moved), met |-> conf, moved |-> moved]

\* Httpd::onHttpData
Ask(r) ==
    /\ ~Answer(r, conf).changes
    /\ Exchange(r, Answer(r, conf), FALSE)
    /\ UNCHANGED <<conf, file, watcher>>

\* Httpd::onHttpData, Base::reload
Change(r, saved) ==
    /\ Answer(r, conf).changes
    /\ file' = IF saved THEN r.config ELSE file
    /\ watcher' = [watcher EXCEPT !.changed = @ \/ (watcher.up /\ saved)]
    /\ conf' = IF Deferred(r.config, saved) THEN conf ELSE r.config
    /\ Exchange(r, Answer(r, conf), ~SameHttp(conf, conf'))

\* Base::onFileChanged
OnFileChanged ==
    /\ watcher.changed
    /\ watcher' = [watcher EXCEPT !.changed = FALSE]
    /\ conf' = IF file.usable THEN file ELSE conf
    /\ last' = NoExchange(conf)
    /\ UNCHANGED file

\* The owner of the proxy edits its file
Edit(c) ==
    /\ file' = c
    /\ watcher' = [watcher EXCEPT !.changed = watcher.up]
    /\ last' = NoExchange(conf)
    /\ UNCHANGED conf

Next ==
    \/ Idle /\ \E r \in Requests :
        \/ Ask(r)
        \/ \E saved \in {TRUE, ~SaveFails} : Change(r, saved)
    \/ Forget
    \/ OnFileChanged
    \/ \E c \in Configs : Edit(c)

Spec == Init /\ [][Next]_vars /\ WF_vars(OnFileChanged)

-----------------------------------------------------------------------------
TypeOK ==
    /\ conf \in Usable
    /\ file \in Configs
    /\ watcher \in [up: BOOLEAN, changed: BOOLEAN]
    /\ last.reply.status \in {0, 200, 204, 400, 401, 403, 404, 405, 415}
    /\ last.reply.replies \in 0..2

Is(status) == last.reply.status = status
HasToken(c) == last.req.auth = c.token

\* "enable full remote access to HTTP API (only if access token set)": whoever
\* is shown the configuration, or changes it, gave the token of the one in use,
\* and that one was not restricted
OnlyWithToken ==
    last.reply.shows # {} \/ last.reply.changes
        => ~last.met.restricted /\ last.met.token # NoToken /\ HasToken(last.met)

\* Every request whose connection stays is answered exactly once, whatever it
\* asks, JSON-RPC calls apart; no answer goes to a connection that was closed
OneReply ==
    ~Is(0) =>
        IF last.req.alive /\ ~last.moved
        THEN last.reply.replies = 1 \/ "jsonrpc" \in Range(last.reply.members)
        ELSE last.reply.replies = 0

\* No member is added twice to a reply, although several listeners and the
\* response itself add to it
MembersOnce == IsInjective(last.reply.members)

\* A configuration that was accepted (204) is in use, or in the file the watcher
\* is about to read
AcceptedStays ==
    Is(204) => conf = last.req.config \/ (file = last.req.config /\ watcher.changed)

\* What the file holds comes into use in the end, if it can, as long as it is
\* watched
FileInUse == ~watcher.changed \/ ~file.usable \/ conf = file
=============================================================================
