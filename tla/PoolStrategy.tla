---------------------------- MODULE PoolStrategy ----------------------------
(***************************************************************************)
(* FailoverStrategy and SinglePoolStrategy (base/net/stratum/strategies):  *)
(* which of the configured pools is connected and which one is active, the *)
(* one whose jobs and logins the upstream sees.  Each client is a PoolLink *)
(* (StratumClient implements it); the calls between client and strategy    *)
(* are synchronous, so a client's event and the strategy's handler are one *)
(* action.  A single pool uses SinglePoolStrategy, as Pools::createStrategy *)
(* does.                                                                   *)
(*                                                                         *)
(* active is m_active (m_active / isActive() of the single pool), told the *)
(* pool of the last onActive that no onPause followed: what the listener   *)
(* believes.  Nothing keeps a strategy from connecting a client that still *)
(* has a socket: such a client is astray from then on, as one whose pool   *)
(* sent client.reconnect is, and may tell its strategy anything at any     *)
(* time.  twice holds the phases in which it was done.                     *)
(***************************************************************************)
EXTENDS Integers

CONSTANTS NumPools,  \* configured pools
          Retries,   \* m_retries
          MaxFails,  \* bound of the count of failures
          Steady,    \* pools that, once calm, log in when tried and do not drop
          MayStop,   \* the upstream may be suspended and come back
          LateLogins,    \* a login may be read behind a line that closed the client
          PoolReconnects \* the pools may send client.reconnect

NumPoolsAssumption == NumPools \in Nat \ {0}
RetriesAssumption  == Retries \in 1 .. MaxFails
SteadyAssumption   == Steady \subseteq 0 .. NumPools - 1 
SwitchAssumption   == {MayStop, LateLogins, PoolReconnects} \subseteq BOOLEAN

VARIABLES links, index, active, told, wanted, twice,
          calm  \* the steady pools have become reliable
vars == <<links, index, active, told, wanted, twice, calm>>
outside == <<wanted, calm>>

P == INSTANCE PoolLink WITH link <- links[0]

Pools  == 0 .. NumPools - 1
Single == NumPools = 1
NoPool == -1

Init == /\ links = [i \in Pools |-> P!NewLink]
        /\ index = 0 /\ active = NoPool /\ told = NoPool
        /\ wanted = FALSE /\ twice = {} /\ calm = FALSE

(* connect() of client i.                                                  *)
ConnectClient(ls, i) ==
    /\ links' = [ls EXCEPT ![i] = P!Started(@)]
    /\ twice' = IF P!HasSocket(ls[i]) THEN twice \union {ls[i].phase} ELSE twice

(* connect() and stop() of the strategies, called by the upstream.         *)
Connect ==
    /\ ~wanted /\ wanted' = TRUE
    /\ ConnectClient(links, index)
    /\ UNCHANGED <<index, active, told>>

(* A single pool only has its client disconnected; whether it was active   *)
(* is corrected by its onClose().                                          *)
SingleStop ==
    links' = [i \in Pools |-> P!Disconnected(links[i])] /\ UNCHANGED <<index, active, told>>

FailoverStop ==
    /\ links' = [i \in Pools |-> P!Disconnected(links[i])]
    /\ index' = 0 /\ active' = NoPool /\ told' = NoPool

Stop == /\ wanted /\ MayStop /\ wanted' = FALSE
        /\ IF Single THEN SingleStop ELSE FailoverStop
        /\ UNCHANGED twice

---------------------------------------------------------------------------

(* SinglePoolStrategy::onClose().                                          *)
SingleOnClose(ls) ==
    /\ active' = NoPool /\ told' = NoPool
    /\ links' = ls /\ UNCHANGED <<index, twice>>

\* bug: the chain ends with the first backup
OnCloseOneBackup(i, n, ls) ==
    /\ active' = IF active = i /\ n # -1 THEN NoPool ELSE active
    /\ told'   = active'
    /\ links' = ls /\ UNCHANGED <<index, twice>>

(* onClose(client i, failures n): a loss of the active pool is passed on;    *)
(* the first pool has m_retries attempts, a backup one, and then the next  *)
(* in the list is connected as well.                                       *)
OnClose(i, n, ls) ==
    IF Single THEN SingleOnClose(ls)
    ELSE /\ active' = IF active = i /\ n # -1 THEN NoPool ELSE active
         /\ told'   = IF active = i /\ n # -1 THEN NoPool ELSE told
         /\ IF /\ n # -1 /\ ~(index = 0 /\ n < Retries)
               /\ index = i /\ index < NumPools - 1
            THEN index' = index + 1 /\ ConnectClient(ls, index + 1)
            ELSE links' = ls /\ UNCHANGED <<index, twice>>

\* bug: the pool that logs in becomes active and the others stay
OnLoginKeepsOthers(i, ls) ==
    LET a == IF Single \/ i = 0 \/ active = NoPool THEN i ELSE active IN
    /\ links' = ls /\ active' = a /\ told' = a
    /\ index' = IF active # a THEN a ELSE index
    /\ UNCHANGED twice

(* SinglePoolStrategy::onLoginSuccess().                                   *)
SingleLogin(ls) == links' = ls /\ active' = 0 /\ told' = 0 /\ UNCHANGED <<index, twice>>

(* onLoginSuccess(client i): the first pool always becomes active, another *)
(* one if none is; every backup that is not active is disconnected, also   *)
(* the one that has just logged in.                                        *)
OnLoginSuccess(i, ls) ==
    LET a == IF i = 0 \/ active = NoPool THEN i ELSE active IN
    IF Single THEN SingleLogin(ls) ELSE
    /\ links'  = [j \in Pools |-> IF j >= 1 /\ j # a THEN P!Disconnected(ls[j]) ELSE ls[j]]
    /\ active' = a /\ told' = a
    /\ index'  = IF active # a THEN a ELSE index
    /\ UNCHANGED twice

---------------------------------------------------------------------------
(* Whether the host, the network or the pool of client i may fail it.      *)
Fails(i) == ~calm \/ i \notin Steady

(* The clients.  tick() starts the next attempt of a waiting one.          *)
Becomes(i, l) == [links EXCEPT ![i] = l]

Retry(i)    == links[i].phase = "waiting"
               /\ links' = Becomes(i, P!Started(links[i])) /\ UNCHANGED <<index, active, told, twice>>
Found(i)    == links[i].phase = "lookup"
               /\ links' = Becomes(i, [links[i] EXCEPT !.phase = "trying"])
               /\ UNCHANGED <<index, active, told, twice>>
Loses(i, l) == OnClose(i, P!Lost(links[i]).fails, Becomes(i, l))
NotFound(i) == links[i].phase = "lookup" /\ Fails(i) /\ Loses(i, P!Lost(links[i]))
Login(i)    == /\ \/ links[i].phase = "trying"
                  \/ LateLogins /\ links[i].phase = "closing" /\ links[i].fails # -1
               /\ OnLoginSuccess(i, Becomes(i, P!LoggedIn(links[i])))
Shut(i)     == links[i].phase \in {"trying", "up"} /\ Fails(i)
               /\ links' = Becomes(i, [links[i] EXCEPT !.phase = "closing"])
               /\ UNCHANGED <<index, active, told, twice>>
Closed(i)   == links[i].phase = "closing"
               /\ Loses(i, P!Lost(links[i]))

(* The pool sends client.reconnect; and what a client that is astray may   *)
(* tell.                                                                   *)
Redirect(i) == PoolReconnects /\ P!HasSocket(links[i]) /\ Fails(i) /\ Loses(i, P!Astray)
Strange(i)  == links[i] = P!Astray
               /\ \/ \E n \in -1 .. MaxFails : OnClose(i, n, links)
                  \/ OnLoginSuccess(i, links)

Going(i) == Retry(i) \/ Found(i) \/ NotFound(i) \/ Closed(i)
Tried(i) == links[i].phase = "trying" /\ (Login(i) \/ Shut(i))
Client(A) == A /\ UNCHANGED outside
CalmDown  == calm' = TRUE /\ UNCHANGED <<links, index, active, told, wanted, twice>>

Acts(i)   == \/ Retry(i) \/ Found(i) \/ NotFound(i) \/ Login(i) \/ Shut(i) \/ Closed(i)
             \/ Redirect(i) \/ Strange(i)

Next == \/ (Connect \/ Stop) /\ UNCHANGED calm
        \/ CalmDown
        \/ \E i \in Pools : Client(Acts(i))
Spec == Init /\ [][Next]_vars

(* The upstream ticks its strategy, hosts are resolved, close callbacks    *)
(* run, and an attempt ends: by the answer of the pool or a deadline of    *)
(* the client.  Steady pools answer.                                       *)
FairSpec == Spec /\ \A i \in Pools : /\ WF_vars(Client(Going(i)))
                                     /\ WF_vars(Client(Tried(i)))

---------------------------------------------------------------------------
TypeOK ==
    /\ links \in [Pools -> P!Links] /\ index \in Pools
    /\ {active, told} \subseteq Pools \union {NoPool}
    /\ {wanted, calm} \subseteq BOOLEAN /\ twice \subseteq P!Phases

Intact == \A i \in Pools : links[i] # P!Astray

(* At most one pool is logged in of those that are not astray, and it is   *)
(* the one the upstream was told of: a backup that logs in late, or while  *)
(* the first pool returns, does not stay connected beside it.              *)
OneUp == \A i \in Pools : links[i].phase = "up" => active = i /\ told = i

(* What is called active has a connection: its loss is passed on to the    *)
(* upstream in the step in which it is noticed.                            *)
ActiveConnected == active # NoPool =>
                       links[active].phase \in {"up", "closing", "astray"} /\ told = active

(* An upstream that is never stopped may connect a client beside a socket  *)
(* that closes, or that a lookup led to which outlived disconnect(), but   *)
(* never one that is logged in.  (A lookup that outlives stop() leads to a *)
(* login, and the next connect() is made beside that.)                     *)
UpLeftAlone == ~MayStop => "up" \notin twice

(* An upstream that was never stopped never gives up the first pool, and   *)
(* when no pool is active the last one of the chain is tried as well.      *)
ChainAlive ==
    wanted /\ ~MayStop => /\ links[0].fails # -1
                           /\ (active = NoPool => links[index].fails # -1)

(* An upstream that wants to be served is, again and again once some pool  *)
(* is steady: the chain of backups reaches that pool, in whatever state    *)
(* the failures before have left it.                                       *)
Served == active # NoPool \/ ~wanted \/ ~Intact \/ ~calm

(* ... and a steady first pool is returned to, whatever the backups do.    *)
ByFirst == active = 0 \/ ~wanted \/ ~Intact \/ ~calm
=============================================================================
