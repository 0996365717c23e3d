---------------------------- MODULE DonateRoute ----------------------------
(***************************************************************************)
(* Donation over the proxy: a miner that names a pool in its login gets a  *)
(* route of its own, a DonateMapper with a client, beside the splitter     *)
(* that serves everyone else.  DonateSplitter keeps the mappers by id, the *)
(* miner keeps the id, the mapper a bare pointer to the miner, and the     *)
(* client a pointer to the mapper: the four come and go by callbacks of    *)
(* two sockets that nobody orders.                                         *)
(***************************************************************************)
EXTENDS Integers, FiniteSets

CONSTANTS Miners, Requests

RouteAssumption == Miners # {} /\ IsFiniteSet(Miners) /\ Requests # {}

Ids == 0..(Cardinality(Miners) - 1)      \* m_sequence; a connection logs in once

VARIABLES up,       \* App::close() has not run
          over,     \* Config::isDonateOverProxy()
          miner,    \* "login", "waiting", "ready", "closing", "gone"
          owner,    \* who serves the miner: a subset of {"main", "donate"}
          mapperId, \* Miner::m_mapperId of a route, or -1
          mappers,  \* the ids in m_mappers
          seq,      \* DonateSplitter::m_sequence
          of,       \* DonateMapper::m_miner of each id
          active,   \* ids with DonateMapper::m_active
          client,   \* "none", "lookup", "connecting", "open", "logged", "closing", "failed"
          heard,    \* ids whose client still has its listener
          pending,  \* m_results: requests at the pool, by id
          sent,     \* requests a miner made
          replies   \* replies a miner got, by request

vars == <<up, over, miner, owner, mapperId, mappers, seq, of, active, client, heard, pending, sent, replies>>
routes == <<owner, mapperId, mappers, seq, of>>

Init == /\ up = TRUE /\ over \in BOOLEAN
        /\ miner = [m \in Miners |-> "login"] /\ owner = [m \in Miners |-> {}]
        /\ mapperId = [m \in Miners |-> -1] /\ mappers = {} /\ seq = 0
        /\ of = [i \in Ids |-> CHOOSE m \in Miners : TRUE] /\ active = {}
        /\ client = [i \in Ids |-> "none"] /\ heard = {}
        /\ pending = [i \in Ids |-> {}] /\ sent = [m \in Miners |-> {}]
        /\ replies = [m \in Miners |-> [r \in Requests |-> 0]]

Live(m)     == miner[m] \in {"login", "waiting", "ready"}
Reply(m, r) == replies' = IF Live(m) THEN [replies EXCEPT ![m][r] = @ + 1] ELSE replies

---------------------------------------------------------------------------

(* Whether the main splitter, later in the same event, takes the miner.    *)
OfMain(id) == id = -1

(* DonateSplitter::login() and the splitter after it.                      *)
LoginMain(m) == /\ miner' = [miner EXCEPT ![m] = "waiting"]
                /\ owner' = [owner EXCEPT ![m] = {"main"}]
                /\ UNCHANGED <<mapperId, mappers, seq, of, active, client, heard>>

(* The login names a pool that is not one, or not one of theirs.           *)
LoginRefused(m) == /\ over /\ miner' = [miner EXCEPT ![m] = "closing"]
                   /\ UNCHANGED <<owner, mapperId, mappers, seq, of, active, client, heard>>

NextId == seq + 1

(* The mapper: connect() may already have failed, and closed the miner.    *)
LoginRoute(m) == \E st \in {"lookup", "connecting", "failed"} :
    /\ over
    /\ mappers' = mappers \union {seq} /\ seq' = NextId
    /\ of' = [of EXCEPT ![seq] = m] /\ mapperId' = [mapperId EXCEPT ![m] = seq]
    /\ owner' = [owner EXCEPT ![m] = {"donate"} \union (IF OfMain(seq) THEN {"main"} ELSE {})]
    /\ client' = [client EXCEPT ![seq] = st] /\ heard' = heard \union {seq}
    /\ active' = IF st = "failed" THEN active ELSE active \union {seq}
    /\ miner' = [miner EXCEPT ![m] = IF st = "failed" THEN "closing" ELSE "waiting"]

Login(m) == /\ up /\ miner[m] = "login"
            /\ LoginMain(m) \/ LoginRefused(m) \/ LoginRoute(m)
            /\ UNCHANGED <<up, over, pending, sent, replies>>

---------------------------------------------------------------------------

(* DonateMapper::onClose() closes the miner, from whatever state.          *)
Closes(i) == {of[i]}

(* Client::reconnect() tells the listener; the mapper disconnects it, so   *)
(* nothing brings it back.                                                 *)
Fail(i) == /\ client' = [client EXCEPT ![i] = "failed"]
           /\ active' = active \ {i} /\ pending' = [pending EXCEPT ![i] = {}]
           /\ miner' = [m \in Miners |-> IF m \in Closes(i) /\ Live(m) THEN "closing" ELSE miner[m]]

Resolved(i) == /\ client[i] = "lookup"
               /\ \/ /\ client' = [client EXCEPT ![i] = "connecting"]
                     /\ UNCHANGED <<active, pending, miner>>
                  \/ Fail(i)
               /\ UNCHANGED <<up, over, routes, heard, sent, replies>>

Connected(i) == /\ client[i] = "connecting" /\ client' = [client EXCEPT ![i] = "open"]
                /\ UNCHANGED <<up, over, miner, routes, active, heard, pending, sent, replies>>

(* The reply to the login, and every later job.                            *)
Job(i) == /\ client[i] \in {"open", "logged"} /\ i \in heard
          /\ client' = [client EXCEPT ![i] = "logged"]
          /\ miner' = [miner EXCEPT ![of[i]] = IF @ = "waiting" THEN "ready" ELSE @]
          /\ UNCHANGED <<up, over, routes, active, heard, pending, sent, replies>>

(* The connection fails, the pool ends it, or sends what ends it.          *)
ClientCloses(i) == /\ client[i] \in {"connecting", "open", "logged"}
                   /\ client' = [client EXCEPT ![i] = "closing"]
                   /\ UNCHANGED <<up, over, miner, routes, active, heard, pending, sent, replies>>

ClientClosed(i) == /\ client[i] = "closing"
                   /\ IF i \in heard THEN Fail(i)
                      ELSE /\ client' = [client EXCEPT ![i] = "none"] /\ UNCHANGED <<active, pending, miner>>
                   /\ UNCHANGED <<up, over, routes, heard, sent, replies>>

---------------------------------------------------------------------------
(* The mapper ended: BadGateway.  A client that is closing takes the share *)
(* and its result is forgotten.                                            *)
Given(i, m, r) ==
    IF i \in active THEN pending' = [pending EXCEPT ![i] = @ \union {r}] /\ UNCHANGED replies
    ELSE Reply(m, r) /\ UNCHANGED pending

(* The splitter hands it to the mapper that the miner names.               *)
Submit(m, r) ==
    /\ up /\ miner[m] = "ready" /\ r \notin sent[m]
    /\ \E i \in mappers : i = mapperId[m] /\ Given(i, m, r)
    /\ sent' = [sent EXCEPT ![m] = @ \union {r}]
    /\ UNCHANGED <<up, over, miner, routes, active, client, heard>>

PendingAfter(i, r) == pending[i] \ {r}

Answer(i, r) == /\ client[i] = "logged" /\ i \in heard /\ r \in pending[i]
                /\ pending' = [pending EXCEPT ![i] = PendingAfter(i, r)]
                /\ Reply(of[i], r)
                /\ UNCHANGED <<up, over, miner, routes, active, client, heard, sent>>

---------------------------------------------------------------------------
MinerCloses(m) == /\ Live(m) /\ miner' = [miner EXCEPT ![m] = "closing"]
                  /\ UNCHANGED <<up, over, routes, active, client, heard, pending, sent, replies>>

(* DonateSplitter::remove(): the mapper that the miner names.              *)
RouteOf(m) == {i \in mappers : i = mapperId[m]}

(* Client::deleteLater(): a socket is closed first, without a listener.    *)
DeletedState(st) == IF st \in {"connecting", "open", "logged", "closing"} THEN "closing" ELSE "none"

(* The miner's socket is closed: CloseEvent, then the miner is deleted.    *)
MinerClosed(m) ==
    /\ up /\ miner[m] = "closing"
    /\ miner' = [miner EXCEPT ![m] = "gone"] /\ owner' = [owner EXCEPT ![m] = {}]
    /\ mappers' = mappers \ RouteOf(m) /\ active' = active \ RouteOf(m) /\ heard' = heard \ RouteOf(m)
    /\ client' = [i \in Ids |-> IF i \in RouteOf(m) THEN DeletedState(client[i]) ELSE client[i]]
    /\ pending' = [i \in Ids |-> IF i \in RouteOf(m) THEN {} ELSE pending[i]]
    /\ UNCHANGED <<up, over, mapperId, seq, of, sent, replies>>

(* DonateSplitter::onEvent(): the bus tells it of a miner.                 *)
OnEvent(m) == Login(m) \/ MinerClosed(m) \/ \E r \in Requests : Submit(m, r)

(* A reload changes donate-level, the mode stays.                          *)
Reload == /\ up /\ over' = ~over
          /\ UNCHANGED <<up, miner, routes, active, client, heard, pending, sent, replies>>

(* App::close(): ~Miners deletes the miners, DonateSplitter has no         *)
(* destructor, and its mappers and their clients stay in the loop.         *)
CloseApp == /\ up /\ up' = FALSE
            /\ miner' = [m \in Miners |-> "gone"] /\ owner' = [m \in Miners |-> {}]
            /\ UNCHANGED <<over, mapperId, mappers, seq, of, active, client, heard, pending, sent, replies>>

Next == \/ \E m \in Miners : OnEvent(m) \/ MinerCloses(m)
        \/ \E i \in Ids : \/ Resolved(i) \/ Connected(i) \/ Job(i) \/ ClientCloses(i) \/ ClientClosed(i)
                          \/ \E r \in Requests : Answer(i, r)
        \/ Reload \/ CloseApp
Spec == Init /\ [][Next]_vars

(* The loop runs its callbacks.  The pool answers what it was asked or     *)
(* ends the connection: nobody calls Client::tick() for these clients, and *)
(* no timeout would do it in its place.                                    *)
FairSpec == /\ Spec
            /\ \A m \in Miners : WF_vars(MinerClosed(m))
            /\ \A i \in Ids : /\ WF_vars(Resolved(i)) /\ WF_vars(ClientClosed(i))
                              /\ WF_vars(Connected(i) \/ ClientCloses(i))
                              /\ \A r \in Requests : WF_vars(Answer(i, r) \/ ClientCloses(i))

---------------------------------------------------------------------------
ClientStates == {"none", "lookup", "connecting", "open", "logged", "closing", "failed"}
TypeOK == /\ up \in BOOLEAN /\ over \in BOOLEAN
          /\ miner \in [Miners -> {"login", "waiting", "ready", "closing", "gone"}]
          /\ owner \in [Miners -> SUBSET {"main", "donate"}] /\ mapperId \in [Miners -> Ids \union {-1}]
          /\ mappers \subseteq Ids /\ seq \in 0..Cardinality(Miners) /\ of \in [Ids -> Miners]
          /\ active \subseteq mappers /\ client \in [Ids -> ClientStates] /\ heard \subseteq Ids
          /\ pending \in [Ids -> SUBSET Requests] /\ sent \in [Miners -> SUBSET Requests]
          /\ replies \in [Miners -> [Requests -> Nat]]

(* What a client may still call is there: its mapper is in m_mappers and   *)
(* the miner of that mapper is not deleted.                                *)
PointersLive == up => \A i \in heard : i \in mappers /\ miner[of[i]] # "gone" /\ mapperId[of[i]] = i

(* Every miner that was let in has one splitter, a reload between login    *)
(* and end changes nothing about which, and a route is never left behind.  *)
OneOwner == up => /\ \A m \in Miners : Cardinality(owner[m]) <= 1
                  /\ \A m \in Miners : "donate" \in owner[m] <=> mapperId[m] \in mappers
                  /\ \A i \in mappers : of[i] \in Miners /\ mapperId[of[i]] = i

(* A share is answered at most once, and only one that was sent.           *)
AnsweredOnce == \A m \in Miners : \A r \in Requests : replies[m][r] <= IF r \in sent[m] THEN 1 ELSE 0

(* A share that a miner sent is answered in the end, or its connection     *)
(* ends: nobody mines on with shares that nothing will ever answer.        *)
ShareSettled(m, r) == r \in sent[m] => replies[m][r] = 1 \/ miner[m] = "gone" \/ ~up

(* A route does not outlive its pool, nor a client its miner.              *)
RouteEnded(i) == (i \in heard /\ client[i] = "failed") => (i \notin mappers \/ ~up)
ClientEnded(m) == miner[m] = "gone" => (\A i \in Ids : i = mapperId[m] => client[i] = "none") \/ ~up
=============================================================================
