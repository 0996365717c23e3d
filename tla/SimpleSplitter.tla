--------------------------- MODULE SimpleSplitter ---------------------------
(***************************************************************************)
(* Simple mode: every miner has an upstream of its own (SimpleMapper).     *)
(* When the miner leaves, the upstream stays connected for reuse-timeout   *)
(* seconds and may serve another one.                                      *)
(*                                                                         *)
(* up[i] is the mapper with id i; ids are given in order and never again.  *)
(* Its fields are the members of the class, with active = m_active and job *)
(* telling that its miner has been sent one.  Of the strategy only link is *)
(* kept: idle, trying or up (PoolStrategy shows what it does).  The pool   *)
(* answers shares of a connection in any order, or never.                  *)
(***************************************************************************)
EXTENDS Integers, FiniteSets

CONSTANTS Miners,       \* sessions, each logs in once
          MaxMappers,   \* bound of the upstreams ever made
          Timeouts      \* values reuse-timeout is set to

TimeoutAssumption == Timeouts \subseteq Nat /\ IsFiniteSet(Timeouts)

VARIABLES up, upstreams, idles, released,   \* m_upstreams, m_idles, m_released
          timeout,                          \* m_reuseTimeout
          at,                               \* the mapperId of a miner, 0 none, -1 left
          shares,                           \* <<miner, mapper>> of the shares on their way
          answered                          \* <<miner, who was answered>>

vars == <<up, upstreams, idles, released, timeout, at, shares, answered>>

Ids    == 1 .. MaxMappers
Nobody == "nobody"

MappersAssumption == MaxMappers \in Nat /\ Nobody \notin Miners

MaxIdle == CHOOSE n \in {t + 1 : t \in Timeouts} : \A t \in Timeouts : n > t

NewMapper == [link |-> "idle", active |-> FALSE, dirty |-> FALSE, miner |-> Nobody,
              job |-> FALSE, idle |-> 0, pending |-> FALSE]

Init == /\ up = [i \in Ids |-> NewMapper]
        /\ upstreams = {} /\ idles = {} /\ released = {}
        /\ timeout \in Timeouts
        /\ at = [m \in Miners |-> 0] /\ shares = {} /\ answered = {}

Created == upstreams \union released \union {i \in Ids : up[i] # NewMapper}
\* bug: it is not asked whether the job of the last miner was replaced
ReusableDirty(i) == up[i].active /\ up[i].miner = Nobody

Reusable(i) == up[i].active /\ up[i].miner = Nobody /\ ~up[i].dirty
Least(S) == CHOOSE i \in S : \A j \in S : i <= j

(* SimpleMapper::add() of a new one, with its connect(), and reuse(): the  *)
(* miner waits for the next job.                                           *)
Connect(x, m) == [x EXCEPT !.miner = m, !.link = "trying"]

Reuse(x, m) == [x EXCEPT !.miner = m, !.job = FALSE, !.idle = 0]

(* SimpleMapper::remove(), stop(), setJob().                               *)
Remove(x) == [x EXCEPT !.miner = Nobody, !.dirty = TRUE]
Stop(x)   == [x EXCEPT !.link = "idle", !.pending = FALSE, !.active = FALSE]

SetJob(x) == [x EXCEPT !.dirty = FALSE, !.job = (x.miner # Nobody)]

---------------------------------------------------------------------------

(* login(): the first idle upstream that can be reused, or a new one.      *)
Login(m) ==
    /\ at[m] = 0
    /\ LET free == {i \in idles : Reusable(i)}
           new  == Cardinality(Created) + 1
       IN  /\ free # {} \/ new <= MaxMappers
           /\ LET i == IF free # {} THEN Least(free) ELSE new IN
              /\ at' = [at EXCEPT ![m] = i]
              /\ up' = [up EXCEPT ![i] = IF free # {} THEN Reuse(@, m)
                                         ELSE Connect(@, m)]
              /\ idles' = idles \ {i} /\ upstreams' = upstreams \union {i}
    /\ UNCHANGED <<released, timeout, shares, answered>>

(* stop(), with removeIdle() and removeUpstream().                         *)
Removed(i) == idles' = idles \ {i} /\ upstreams' = upstreams \ {i}

StopUpstream(i, x) == Removed(i) /\ up' = [up EXCEPT ![i] = Stop(x)]

(* remove(): without a timeout the upstream is stopped at once.            *)
Close(m) ==
    /\ at[m] > 0
    /\ at' = [at EXCEPT ![m] = -1]
    /\ LET i == at[m] IN
       IF timeout = 0
       THEN /\ StopUpstream(i, Remove(up[i]))
            /\ released' = released \union {i} /\ shares' = {s \in shares : s[2] # i}
       ELSE /\ up' = [up EXCEPT ![i] = Remove(@)] /\ idles' = idles \union {i}
            /\ UNCHANGED <<upstreams, released, shares>>
    /\ UNCHANGED <<timeout, answered>>

(* The splitter's submit() looks the upstream of a miner up, the mapper's  *)
(* takes a share for a job its miner was sent.                             *)
Upstream(m) == IF at[m] > 0 THEN {up[at[m]]} ELSE {}

IsValidJobId(x) == x.job

(* submit() and onResultAccepted(): the answer goes to the miner that the  *)
(* upstream has when it comes.                                             *)
Submit(m) ==
    /\ \E x \in Upstream(m) : x.active /\ IsValidJobId(x)
    /\ \A a \in answered \union shares : a[1] # m
    /\ shares' = shares \union {<<m, at[m]>>}
    /\ UNCHANGED <<up, upstreams, idles, released, timeout, at, answered>>
Answer ==
    \E s \in shares :
        /\ shares' = shares \ {s}
        /\ answered' = answered \union {<<s[1], up[s[2]].miner>>}
        /\ UNCHANGED <<up, upstreams, idles, released, timeout, at>>

(* What a strategy reports: onActive() with the first job, onJob(),        *)
(* onPause(), after which it keeps trying.                                 *)
Link(i, x) == /\ up' = [up EXCEPT ![i] = x]
              /\ UNCHANGED <<upstreams, idles, released, timeout, at, answered>>
LinkUp(i)   == /\ i \in upstreams /\ up[i].link = "trying" /\ UNCHANGED shares
               /\ Link(i, SetJob([up[i] EXCEPT !.link = "up", !.active = TRUE]))
LinkJob(i)  == i \in upstreams /\ up[i].link = "up" /\ Link(i, SetJob(up[i])) /\ UNCHANGED shares
LinkDown(i) == /\ i \in upstreams /\ up[i].link = "up" /\ shares' = {s \in shares : s[2] # i}
               /\ Link(i, [up[i] EXCEPT !.link = "trying", !.active = FALSE])
Reload(i)   == i \in upstreams /\ Link(i, [up[i] EXCEPT !.pending = TRUE]) /\ UNCHANGED shares
PendingUp(i) == /\ i \in upstreams /\ up[i].pending /\ shares' = {s \in shares : s[2] # i}
                /\ Link(i, SetJob([up[i] EXCEPT !.link = "up", !.active = TRUE, !.pending = FALSE]))

Expired == {i \in upstreams : up[i].idle > timeout}

(* tick(): what was released before is deleted, what has been idle too     *)
(* long is released.                                                       *)
Tick ==
    /\ released' = Expired
    /\ up' = [i \in Ids |->
                CASE i \in Expired -> Stop(up[i])
                  [] i \in upstreams \ Expired /\ up[i].miner = Nobody /\ up[i].idle < MaxIdle ->
                         [up[i] EXCEPT !.idle = @ + 1]
                  [] OTHER -> up[i]]
    /\ upstreams' = upstreams \ Expired /\ idles' = idles \ Expired
    /\ shares' = {s \in shares : s[2] \notin Expired}
    /\ UNCHANGED <<timeout, at, answered>>

(* onConfigChanged().                                                      *)
Configure == /\ timeout' \in Timeouts \ {timeout}
             /\ UNCHANGED <<up, upstreams, idles, released, at, shares, answered>>

(* onEvent(): the bus tells the splitter of a miner.                       *)
OnEvent(m) == Login(m) \/ Close(m) \/ Submit(m)

Next == \/ \E m \in Miners : OnEvent(m)
        \/ \E i \in Ids : LinkUp(i) \/ LinkJob(i) \/ LinkDown(i) \/ Reload(i) \/ PendingUp(i)
        \/ Answer \/ Tick \/ Configure
Spec == Init /\ [][Next]_vars

---------------------------------------------------------------------------
TypeOK ==
    /\ up \in [Ids -> [link : {"idle", "trying", "up"}, active : BOOLEAN, dirty : BOOLEAN,
                       miner : Miners \union {Nobody}, job : BOOLEAN, idle : 0 .. MaxIdle,
                       pending : BOOLEAN]]
    /\ released \subseteq Ids /\ upstreams \subseteq Ids \ released /\ idles \subseteq Ids
    /\ timeout \in Timeouts /\ at \in [Miners -> {-1, 0} \union Ids]
    /\ shares \subseteq Miners \X Ids /\ answered \subseteq Miners \X (Miners \union {Nobody})

(* Every miner has an upstream to itself, and it is not taken away while   *)
(* the miner is there: submit() and tick() use the table without a check.  *)
OwnUpstream == \A m \in Miners : at[m] > 0 => at[m] \in upstreams /\ up[at[m]].miner = m

(* The idle upstreams are those without a miner.                           *)
IdlesExact == idles = {i \in upstreams : up[i].miner = Nobody}

(* An upstream is handed on only after its last miner's job was replaced,  *)
(* so no two miners have hashed the same job when one is reused.           *)
HandedOnFresh == \A i \in upstreams : up[i].miner = Nobody /\ up'[i].miner # Nobody
                                          => ~up[i].dirty /\ up[i].active
=============================================================================
