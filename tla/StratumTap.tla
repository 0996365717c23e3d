----------------------------- MODULE StratumTap -----------------------------
(***************************************************************************)
(* The Python proxy of the unencrypted port (python/proxy.py): one loop    *)
(* over select, a pair of blocking sockets per miner, whatever one of them *)
(* reads is sent on through the other.  It reads along: it keeps what a    *)
(* miner has submitted and records a share when the pool says OK.  An      *)
(* exception of reading along, of a socket or of Redis ends the proxy, for *)
(* all its miners: two handlers catch a text that is no JSON and Redis'    *)
(* word that a key is missing, and no other.  Miners log in with an        *)
(* address; the shares of others are counted and recorded nowhere.         *)
(***************************************************************************)
EXTENDS Naturals, SequencesExt

CONSTANTS Miners,
          MaxSubmits,     \* shares of a miner
          LastJob,        \* jobs the pool gives; the first comes with the login
          Answers,        \* what a pool answers: "ok", "refused" (a status), "error" (no result)
          Pieces,         \* a read may end within a message, or hold two
          Waits,          \* miners wait for an answer before the next share
          Hellos,         \* somebody tries TLS
          Resets,         \* connections may be reset
          Oddities,       \* each end may send one JSON text that is not as the proxy takes it to be
          StoreFails,     \* Redis may be away, or refuse
          MaxSockets      \* that the process may have open, and select take

TapAssumption ==
    /\ MaxSubmits \in Nat /\ LastJob \in Nat \ {0}
    /\ Answers \subseteq {"ok", "refused", "error"}
    /\ {Pieces, Waits, Hellos, Resets, Oddities, StoreFails} \subseteq BOOLEAN
    /\ MaxSockets \in Nat

VARIABLES link,       \* "none", "asks", "open", "closed"
          list,       \* input_list
          ready,      \* inputready, what is left of this round
          user,       \* usermap
          inbox,      \* what can be read from a socket
          pool,       \* what the pool has of a miner: shares to answer, those it took, its job
          peer,       \* the miner: shares sent, the job it has, whether it waits for an answer;
                      \* of both ends, who is gone and who has sent an oddity
          credit,     \* how often each share was recorded
          death       \* the exception that ended the proxy

vars == <<link, list, ready, user, inbox, pool, peer, credit, death>>

Sides == {"miner", "pool"}
Sockets == Miners \X Sides
Server == <<"server", "server">>
Other(s) == <<s[1], IF s[2] = "miner" THEN "pool" ELSE "miner">>
Msg(kind, job, n) == [kind |-> kind, job |-> job, n |-> n]
Plain(kind) == Msg(kind, 0, 0)
Shares == 1..MaxSubmits
\* An entry of usermap; submitted has the job of each share in the list, 0 of one that is not;
\* odd says that something is kept of an oddity
NoUser == [in |-> FALSE, login |-> FALSE, job |-> 0, submitted |-> [n \in Shares |-> 0], odd |-> FALSE,
           accepted |-> 0, rejected |-> 0]

Init ==
    /\ link = [m \in Miners |-> "none"]
    /\ list = <<Server>>
    /\ ready = <<>>
    /\ user = [m \in Miners |-> NoUser]
    /\ inbox = [s \in Sockets |-> <<>>]
    /\ pool = [m \in Miners |-> [due |-> <<>>, took |-> {}, job |-> 0]]
    /\ peer = [m \in Miners |-> [sent |-> 0, job |-> 0, waits |-> FALSE, gone |-> {}, odd |-> {}]]
    /\ credit = [m \in Miners |-> [n \in Shares |-> 0]]
    /\ death = "none"

Alive == death = "none"
Puts(s, msg) == inbox' = [inbox EXCEPT ![s] = Append(@, msg)]

-----------------------------------------------------------------------------
(* Both ends: the sockets' other sides *)
Connect(m) ==
    /\ link[m] = "none"
    /\ link' = [link EXCEPT ![m] = "asks"]
    /\ UNCHANGED <<list, ready, user, inbox, pool, peer, credit, death>>

Speaks(m, side) == link[m] = "open" /\ side \notin peer[m].gone

\* A login, or a TLS client's first record
Login(m) ==
    /\ Speaks(m, "miner") /\ peer[m].job = 0 /\ ~peer[m].waits
    /\ \E kind \in {"login"} \cup (IF Hellos THEN {"hello"} ELSE {}) : Puts(<<m, "miner">>, Plain(kind))
    /\ peer' = [peer EXCEPT ![m].waits = TRUE]
    /\ UNCHANGED <<link, list, ready, user, pool, credit, death>>

Submit(m) ==
    /\ Speaks(m, "miner") /\ peer[m].job > 0 /\ peer[m].sent < MaxSubmits
    /\ Waits => ~peer[m].waits
    /\ peer' = [peer EXCEPT ![m].sent = @ + 1, ![m].waits = TRUE]
    /\ Puts(<<m, "miner">>, Msg("submit", peer[m].job, peer[m].sent + 1))
    /\ UNCHANGED <<link, list, ready, user, pool, credit, death>>

NewJob(m) ==
    /\ Speaks(m, "pool") /\ pool[m].job \in 1..(LastJob - 1)
    /\ pool' = [pool EXCEPT ![m].job = @ + 1]
    /\ Puts(<<m, "pool">>, Msg("job", pool[m].job + 1, 0))
    /\ UNCHANGED <<link, list, ready, user, peer, credit, death>>

\* The pool answers in order: the login with its first job
Settle(m) ==
    /\ Speaks(m, "pool") /\ pool[m].due # <<>>
    /\ LET n == Head(pool[m].due)
       IN IF n = 0
          THEN /\ pool' = [pool EXCEPT ![m].due = Tail(@), ![m].job = 1]
               /\ Puts(<<m, "pool">>, Msg("welcome", 1, 0))
          ELSE \E kind \in Answers :
                 /\ pool' = [pool EXCEPT ![m].due = Tail(@),
                                         ![m].took = IF kind = "ok" THEN @ \cup {n} ELSE @]
                 /\ Puts(<<m, "pool">>, Msg(kind, 0, n))
    /\ UNCHANGED <<link, list, ready, user, peer, credit, death>>

\* A text that is no object; a message without params, or with a result that is null
\* or a target of eight bytes; a submission without its job
Babble(s) ==
    /\ Oddities /\ Speaks(s[1], s[2]) /\ s[2] \notin peer[s[1]].odd
    /\ peer' = [peer EXCEPT ![s[1]].odd = @ \cup {s[2]}]
    /\ Puts(s, Plain("odd"))
    /\ UNCHANGED <<link, list, ready, user, pool, credit, death>>

\* An end closes, or its connection breaks
Leave(s) ==
    /\ Speaks(s[1], s[2])
    /\ peer' = [peer EXCEPT ![s[1]].gone = @ \cup {s[2]}]
    /\ \E kind \in {"eof"} \cup (IF Resets THEN {"reset"} ELSE {}) : Puts(s, Plain(kind))
    /\ UNCHANGED <<link, list, ready, user, pool, credit, death>>

-----------------------------------------------------------------------------
(* The proxy *)
Readable(s) == IF s = Server THEN \E m \in Miners : link[m] = "asks" ELSE inbox[s] # <<>>

\* select: what is readable, in the order of input_list
Select ==
    /\ Alive /\ ready = <<>>
    /\ LET found == {i \in DOMAIN list : Readable(list[i])}
       IN /\ found # {}
          /\ \E pick \in [1..Cardinality(found) -> found] :
                /\ \A i, j \in DOMAIN pick : i < j => pick[i] < pick[j]
                /\ ready' = [i \in DOMAIN pick |-> list[pick[i]]]
    /\ UNCHANGED <<link, list, user, inbox, pool, peer, credit, death>>

Full == Len(list) + 2 > MaxSockets

\* on_accept; whatever else was ready waits for the next round
OnAccept(m) ==
    /\ Alive /\ ready # <<>> /\ Head(ready) = Server
    /\ link[m] = "asks" /\ ~Full
    /\ ready' = <<>>
    /\ \/ /\ link' = [link EXCEPT ![m] = "open"]
          /\ list' = list \o <<<<m, "miner">>, <<m, "pool">>>>
          /\ user' = [user EXCEPT ![m] = [NoUser EXCEPT !.in = TRUE]]
       \/ /\ link' = [link EXCEPT ![m] = "closed"]      \* the pool cannot be reached
          /\ UNCHANGED <<list, user>>
    /\ UNCHANGED <<inbox, pool, peer, credit, death>>

\* on_accept without a socket to be had
AcceptFails ==
    /\ Alive /\ ready # <<>> /\ Head(ready) = Server /\ Full
    /\ death' = "full"
    /\ UNCHANGED <<link, list, ready, user, inbox, pool, peer, credit>>

\* list.remove
Without(seq, s) == RemoveAt(seq, CHOOSE i \in DOMAIN seq : seq[i] = s)

\* on_close: the entry is found by the address of the peer that was read, which
\* for the pool is the pool's
Closes(s) ==
    /\ user' = IF s[2] = "miner" THEN [user EXCEPT ![s[1]] = NoUser] ELSE user
    /\ list' = Without(Without(list, s), Other(s))
    /\ link' = [link EXCEPT ![s[1]] = "closed"]

\* main_loop, an empty read: on_close, and this round is over
OnClose(s) ==
    /\ Alive /\ ready # <<>> /\ Head(ready) = s /\ s \in Range(list) \ {Server}
    /\ inbox[s] # <<>> /\ Head(inbox[s]).kind = "eof"
    /\ Closes(s)
    /\ ready' = <<>>
    /\ UNCHANGED <<inbox, pool, peer, credit, death>>

\* on_recv, a TLS hello: on_close, and the round goes on
OnHello(s) ==
    /\ Alive /\ ready # <<>> /\ Head(ready) = s /\ s \in Range(list) \ {Server}
    /\ inbox[s] # <<>> /\ Head(inbox[s]).kind = "hello"
    /\ Closes(s)
    /\ ready' = Tail(ready)
    /\ UNCHANGED <<inbox, pool, peer, credit, death>>

\* recv on a socket closed earlier in this round, or one that was reset; getpeername
\* on one that was reset after what is read of it
Dies(s) ==
    /\ Alive /\ ready # <<>> /\ Head(ready) = s /\ s # Server
    /\ death' = IF s \notin Range(list) THEN "closed" ELSE "reset"
    /\ \/ s \notin Range(list)
       \/ Resets /\ inbox[s] # <<>> /\ Head(inbox[s]).kind \in {"reset", "eof", "hello"}
    /\ UNCHANGED <<link, list, ready, user, inbox, pool, peer, credit>>

Held(u) == {n \in Shares : u.submitted[n] # 0}
Matching(u) == {n \in Held(u) : u.submitted[n] = u.job}

\* Bug: the shares that were answered stay
BugAnswered(u, ok, done) == IF ok THEN [u EXCEPT !.accepted = @ + Cardinality(done)]
                            ELSE [u EXCEPT !.rejected = @ + Cardinality(done)]

\* A status answers the shares submitted for the present job: of those done
Answered(u, ok, done) ==
    LET rest == [u EXCEPT !.submitted = [n \in Shares |-> IF n \in done THEN 0 ELSE @[n]]]
    IN IF ok THEN [rest EXCEPT !.accepted = @ + Cardinality(done)]
       ELSE [rest EXCEPT !.rejected = @ + Cardinality(done)]

\* Of an OK, the shares that Redis gets, in their order: those of an address.  An
\* error of Redis that is not that the key is missing is not seen where resp still
\* has the value of a share before
Unseen(k, got) == StoreFails /\ \E j \in got : j < k

\* got when all are done, and when an exception ends it before
Recorded(u) == {got \in SUBSET Matching(u) :
                  IF u.login THEN \A k \in Matching(u) : k \in got \/ Unseen(k, got) ELSE got = {}}
Begun(u)    == {got \in SUBSET Matching(u) :
                  /\ got # {} => u.login
                  /\ \A n \in got : \A k \in Matching(u) : k < n => k \in got \/ Unseen(k, got)}

Credits(m, got) == credit' = [credit EXCEPT ![m] = [n \in Shares |-> IF n \in got THEN @[n] + 1 ELSE @[n]]]

\* on_recv: what is kept of any other message that could be parsed.  The job that
\* comes with a login is not
ReadsAlong(u, msg) ==
    CASE msg.kind = "login" -> [u EXCEPT !.login = TRUE]
      [] msg.kind = "job" -> [u EXCEPT !.job = msg.job]
      [] msg.kind = "submit" -> [u EXCEPT !.submitted[msg.n] = msg.job]
      [] msg.kind = "odd" -> [u EXCEPT !.odd = TRUE]
      [] OTHER -> u

Statuses == {"ok", "refused"}
Speech == {"login", "submit", "welcome", "job", "error", "odd"} \cup Statuses

\* What the other end has of it; of an oddity, nothing
Delivered(s, msg) ==
    CASE msg.kind = "odd" -> UNCHANGED <<pool, peer>>
      [] msg.kind # "odd" /\ s[2] = "miner" ->
           /\ pool' = [pool EXCEPT ![s[1]].due = Append(@, msg.n)]
           /\ peer' = peer
      [] OTHER ->
           /\ peer' = [peer EXCEPT ![s[1]].job = IF msg.kind \in {"welcome", "job"} THEN msg.job ELSE @,
                                   ![s[1]].waits = IF msg.kind = "job" THEN @ ELSE FALSE]
           /\ pool' = pool

Reading(s) ==
    /\ Alive /\ ready # <<>> /\ Head(ready) = s /\ s \in Range(list) \ {Server}
    /\ inbox[s] # <<>> /\ Head(inbox[s]).kind \in Speech

\* A share was submitted and there is no job yet: its params are missing
NoJob(u, msg) == msg.kind \in Statuses /\ Held(u) # {} /\ u.job = 0

\* on_recv: read along, then send on
OnRecv(s, whole) ==
    /\ Reading(s)
    /\ LET msg == Head(inbox[s])
           u == user[s[1]]
           reads == whole /\ u.in
       IN /\ ~(reads /\ NoJob(u, msg))
          /\ IF reads /\ msg.kind \in Statuses
             THEN /\ user' = [user EXCEPT ![s[1]] = Answered(u, msg.kind = "ok", Matching(u))]
                  /\ \E got \in IF msg.kind = "ok" THEN Recorded(u) ELSE {{}} : Credits(s[1], got)
             ELSE /\ user' = IF reads THEN [user EXCEPT ![s[1]] = ReadsAlong(u, msg)] ELSE user
                  /\ credit' = credit
          /\ Delivered(s, msg)
    /\ ready' = Tail(ready)
    /\ inbox' = [inbox EXCEPT ![s] = Tail(@)]
    /\ death' \in {"none"} \cup (IF Other(s)[2] \in peer[s[1]].gone /\ Resets THEN {"pipe"} ELSE {})
    /\ UNCHANGED <<link, list>>

\* on_recv: an exception while it reads along, at once or at the status that comes to
\* what is kept of an oddity.  What was recorded before is; the entry dies too
RecvFails(s) ==
    /\ Reading(s) /\ user[s[1]].in
    /\ LET msg == Head(inbox[s])
           u == user[s[1]]
       IN \/ /\ \/ NoJob(u, msg) /\ death' = "no job"
                \/ msg.kind = "odd" /\ death' = "message"
             /\ UNCHANGED <<user, credit>>
          \/ /\ \/ msg.kind \in Statuses /\ u.odd /\ death' = "message"
                \/ msg.kind = "ok" /\ u.login /\ Matching(u) # {} /\ StoreFails /\ death' = "store"
             /\ \E got \in IF msg.kind = "ok" THEN Begun(u) ELSE {{}} :
                  /\ user' = [user EXCEPT ![s[1]] = Answered(u, TRUE, got)]
                  /\ Credits(s[1], got)
    /\ UNCHANGED <<link, list, ready, inbox, pool, peer>>

Loop ==
    \/ Select \/ AcceptFails
    \/ \E m \in Miners : OnAccept(m)
    \/ \E s \in Sockets :
        OnClose(s) \/ OnHello(s) \/ Dies(s) \/ RecvFails(s) \/ \E whole \in {TRUE, ~Pieces} : OnRecv(s, whole)
Ends ==
    \/ \E m \in Miners : Connect(m) \/ Login(m) \/ Submit(m) \/ NewJob(m) \/ Settle(m)
    \/ \E s \in Sockets : Babble(s) \/ Leave(s)
Next == Loop \/ Ends
Spec == Init /\ [][Next]_vars /\ WF_vars(Loop)

-----------------------------------------------------------------------------
TypeOK ==
    /\ link \in [Miners -> {"none", "asks", "open", "closed"}]
    /\ IsInjective(list) /\ Range(list) \subseteq Sockets \cup {Server}
    /\ IsInjective(ready) /\ Range(ready) \subseteq Sockets \cup {Server}
    /\ \A m \in Miners : user[m].in \in BOOLEAN /\ user[m].job \in 0..LastJob
    /\ death \in {"none", "closed", "reset", "no job", "pipe", "message", "store", "full"}

\* Both sockets of a miner are in the list while it is connected, none afterwards,
\* whichever end closed and whatever else the round held
Paired ==
    \A m \in Miners :
        {s \in Sockets : s[1] = m} \cap Range(list) =
            IF link[m] = "open" THEN {m} \X Sides ELSE {}

\* What the proxy ends of: a status before the first new job, a TLS hello whose round
\* also had the pool's end, a reset or a broken pipe, a message that is not as it takes
\* it to be, Redis away or refusing, and no socket left.  Without these it goes on,
\* whatever comes in pieces, closes or is answered with an error
DiesOnly ==
    /\ death = "closed" => Hellos
    /\ death \in {"reset", "pipe"} => Resets
    /\ death = "no job" => \E m \in Miners : user[m].job = 0 /\ Held(user[m]) # {}
    /\ death = "message" => Oddities
    /\ death = "store" => StoreFails
    /\ death = "full" => Full

\* No share is recorded twice, none that was not submitted; accepted counts them, and
\* none else unless the login was missed or Redis refused
CreditedOnce ==
    \A m \in Miners :
        LET recorded == Cardinality({n \in Shares : credit[m][n] > 0})
        IN /\ \A n \in Shares : credit[m][n] <= IF n <= peer[m].sent THEN 1 ELSE 0
           /\ user[m].in => /\ recorded <= user[m].accepted
                            /\ Pieces \/ StoreFails \/ recorded = user[m].accepted

\* Where miners wait and pools answer with a status, a recorded share is one the
\* pool has taken
CreditTrue ==
    \A m \in Miners : \A n \in Shares : credit[m][n] > 0 => n \in pool[m].took

\* What is sent is sent on in the end, unless that miner's connection closes or
\* the proxy ends
SentOn(m) == inbox[<<m, "miner">>] = <<>> \/ link[m] = "closed" \/ ~Alive
=============================================================================
