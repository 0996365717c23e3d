---------------------------- MODULE NonceSplitter ----------------------------
(***************************************************************************)
(* The nicehash splitter: NonceSplitter and its NonceMappers (one mapper   *)
(* per upstream pool connection) under the events of the miners, the pool  *)
(* connections, the garbage collector and configuration reloads.           *)
(*                                                                         *)
(* Everything runs on one libuv thread, so each callback is one action.    *)
(* The IStrategy behind a mapper is reduced to what the mapper can see of  *)
(* it: not connecting, trying to connect, or logged in.  Donation is left  *)
(* to another module (the donate level is 0 by default).                   *)
(***************************************************************************)
EXTENDS NonceStorage, FiniteSets

CONSTANTS MaxUps,     \* bound: upstreams
          MaxLogins,  \* bound: pool logins per upstream
          MaxJobs,    \* bound: jobs per upstream
          MaxReqs,    \* bound: submit requests of all miners together
          MaxReloads  \* bound: configuration reloads

ASSUME MaxUpsAssumption  == MaxUps \in Nat \ {0}
ASSUME BoundsAssumption  == /\ MaxJobs \in Nat /\ MaxLogins \in Nat
                            /\ MaxReqs \in Nat /\ MaxReloads \in Nat
ASSUME SessionsAreLogins == Sessions = 1 .. MaxLogins

VARIABLES
    num,        \* m_upstreams.size(); mapper u exists iff u < num
    storage,    \* m_storage of mapper u
    suspended,  \* m_suspended: 0, or 1 + number of gc rounds, capped at 2
    link,       \* state of m_strategy of mapper u
    pending,    \* mapper u has a m_pending strategy, still connecting
    results,    \* m_results of mapper u
    phase,      \* Miner::m_state, and "gone" once the object is deleted
    mapperId,   \* Miner::m_mapperId
    fixedByte,  \* Miner::m_fixedByte, or NoByte before the login
    inflight,   \* requests the strategy of mapper u sent and may see answered
    logins,     \* pool logins on upstream u; the n-th has session id n
    issued,     \* jobs received on upstream u; the n-th has id n
    reloads,    \* configuration reloads so far
    given,      \* history: what upstream u handed out, see NonceLease
    reqs,       \* history: the requests sent, with the miner they come from
    answers     \* history: [seq, miner] |-> number of replies

upVars   == <<num, storage, suspended, link, pending, logins, issued, given>>
ctxVars  == <<results, inflight>>
minVars  == <<phase, mapperId, fixedByte>>
histVars == <<reqs, answers>>
vars     == <<upVars, ctxVars, minVars, histVars, reloads>>

Ups      == 0 .. MaxUps - 1
Existing == 0 .. num - 1
Seqs     == 1 .. MaxReqs
NoByte   == -1
NoMapper == -1
Failed   == -1   \* what IStrategy::submit returns when nothing was sent

IsSuspended(u) == suspended[u] > 0
Live           == {m \in MinerIds : phase[m] \in {"wait", "ready", "closing"}}

Handed(j, s, R) == {[job |-> j.id, slot |-> i, miner |-> s.used[i]] : i \in R}

(* Miner::sendJob moves a miner that waits for its first job to "ready".   *)
ReadyWith(M) == [m \in MinerIds |-> IF m \in M /\ phase[m] = "wait"
                                    THEN "ready" ELSE phase[m]]

Init ==
    /\ num = 1
    /\ storage \in [Ups -> {NewStorage(i) : i \in Slots}]
    /\ suspended = [u \in Ups |-> 0]
    /\ link = [u \in Ups |-> IF u = 0 THEN "trying" ELSE "idle"]
    /\ pending = [u \in Ups |-> FALSE]
    /\ results = [u \in Ups |-> {}]
    /\ inflight = [u \in Ups |-> {}]
    /\ phase = [m \in MinerIds |-> "login"]
    /\ mapperId = [m \in MinerIds |-> NoMapper]
    /\ fixedByte = [m \in MinerIds |-> NoByte]
    /\ logins = [u \in Ups |-> 0]
    /\ issued = [u \in Ups |-> 0]
    /\ given = [u \in Ups |-> {}]
    /\ reloads = 0
    /\ reqs = {}
    /\ answers = [r \in Seqs \X MinerIds |-> 0]
-----------------------------------------------------------------------------
(* Miner m sends "login".  The splitter tries the upstreams that are not   *)
(* suspended, in order, then the suspended ones, and opens a new upstream  *)
(* when all their slots are taken.                                         *)

Candidates == LET awake == {u \in Existing : ~IsSuspended(u) /\ HasFree(storage[u])}
              IN  IF awake # {} THEN awake
                  ELSE {u \in Existing : HasFree(storage[u])}

FirstOf(U) == CHOOSE u \in U : \A v \in U : u <= v

(* NonceMapper::add on upstream u.                                         *)
AddTo(m, u) ==
    \E i \in Slots :
        LET s == Add(storage[u], m, i)
        IN  /\ IsNextIndex(storage[u], i)
            /\ storage' = [storage EXCEPT ![u] = s]
            /\ fixedByte' = [fixedByte EXCEPT ![m] = i]
            /\ mapperId' = [mapperId EXCEPT ![m] = u]
            /\ phase' = [phase EXCEPT ![m] = IF s.active THEN "ready" ELSE "wait"]
            /\ given' = IF s.active
                        THEN [given EXCEPT ![u] = @ \union Handed(s.job, s, {i})]
                        ELSE given

LoginReuse(m) ==
    /\ phase[m] = "login"
    /\ Candidates # {}
    /\ LET u == FirstOf(Candidates)
       IN  /\ AddTo(m, u)
           /\ suspended' = [suspended EXCEPT ![u] = 0]
           \* connect() of a suspended mapper
           /\ link' = [link EXCEPT ![u] =
                         IF IsSuspended(u) /\ @ = "idle" THEN "trying" ELSE @]
    /\ UNCHANGED <<num, pending, logins, issued, reloads, ctxVars, histVars>>

LoginConnect(m) ==
    /\ phase[m] = "login"
    /\ Candidates = {}
    /\ num < MaxUps
    /\ num' = num + 1
    /\ AddTo(m, num)
    /\ link' = [link EXCEPT ![num] = "trying"]
    /\ UNCHANGED <<suspended, pending, logins, issued, reloads, ctxVars, histVars>>

Login(m) == LoginReuse(m) \/ LoginConnect(m)

(* Miner::shutdown, whatever the cause: the peer closed, a write failed, a *)
(* bad request.  The close callback runs later.                            *)
Shutdown(m) ==
    /\ phase[m] \in {"login", "wait", "ready"}
    /\ phase' = [phase EXCEPT ![m] = "closing"]
    /\ UNCHANGED <<upVars, ctxVars, mapperId, fixedByte, reloads, histVars>>

(* The close callback: CloseEvent, then the object is deleted.             *)
Closed(m) ==
    /\ phase[m] = "closing"
    /\ phase' = [phase EXCEPT ![m] = "gone"]
    /\ storage' = IF mapperId[m] = NoMapper THEN storage
                  ELSE [storage EXCEPT ![mapperId[m]] =
                          Remove(@, m, fixedByte[m])]
    /\ UNCHANGED <<num, suspended, link, pending, logins, issued, given,
                   ctxVars, mapperId, fixedByte, reloads, histVars>>
-----------------------------------------------------------------------------
\* bug: the contexts are kept per miner
PutByMiner(R, key, seq, m) ==
    {c \in R : c.miner # m} \union {[key |-> key, seq |-> seq, miner |-> m]}

(* m_results[key] = SubmitCtx(seq, m)                                      *)
Put(R, key, seq, m) ==
    {c \in R : c.key # key} \union {[key |-> key, seq |-> seq, miner |-> m]}

\* bug: the context is not looked up by the sequence of the answer
AnyContext(u, seq) == {c \in results[u] : c.miner \in storage[u].miners}

(* submitCtx(): the request an answer belongs to, while its miner is there.*)
SubmitCtx(u, seq) ==
    {c \in results[u] : c.key = seq /\ c.miner \in storage[u].miners}

(* Miner m, ready, submits a share for job j; the request gets the number  *)
(* seq that a sent request gets as its sequence.                           *)

Reply(seq, m) == IF phase[m] = "closing" THEN answers
                 ELSE [answers EXCEPT ![<<seq, m>>] = @ + 1]

Submitted(m, seq) ==
    /\ phase[m] = "ready"
    /\ seq = Cardinality(reqs) + 1
    /\ seq \in Seqs
    /\ reqs' = reqs \union {[seq |-> seq, miner |-> m]}

(* Refused: by Miner::parseRequest (low difficulty, foreign nonce byte) or *)
(* by NonceMapper::submit (no active pool, unknown job).                   *)
(* A foreign nonce byte also ends the connection.                          *)
SubmitRefused(m, seq) ==
    /\ Submitted(m, seq)
    /\ answers' = Reply(seq, m)
    /\ \/ UNCHANGED phase
       \/ phase' = [phase EXCEPT ![m] = "closing"]
    /\ UNCHANGED <<upVars, ctxVars, mapperId, fixedByte, reloads>>

SubmitForwarded(m, seq, j) ==
    /\ Submitted(m, seq)
    /\ storage[mapperId[m]].active
    /\ IsValidJobId(storage[mapperId[m]], j)
    /\ LET u == mapperId[m]
       IN  \/ /\ link[u] = "up"
              /\ inflight' = [inflight EXCEPT ![u] = @ \union {seq}]
              /\ results' = [results EXCEPT ![u] = Put(@, seq, seq, m)]
           \* the strategy could not send it
           \/ /\ results' = [results EXCEPT ![u] = Put(@, Failed, seq, m)]
              /\ UNCHANGED inflight
    /\ UNCHANGED <<upVars, minVars, reloads, answers>>

(* The pool answers request seq, accepting or refusing it.                 *)
PoolAnswer(u, seq) ==
    /\ u \in Existing
    /\ seq \in inflight[u]
    /\ inflight' = [inflight EXCEPT ![u] = @ \ {seq}]
    /\ results' = [results EXCEPT ![u] = {c \in @ : c.key # seq}]
    /\ answers' = LET C == SubmitCtx(u, seq)
                  IN  IF C = {} THEN answers
                      ELSE LET c == CHOOSE c \in C : TRUE
                           IN  Reply(c.seq, c.miner)
    /\ UNCHANGED <<upVars, minVars, reqs, reloads>>
-----------------------------------------------------------------------------
(* What the strategies of mapper u report.                                 *)

(* setJob() of job number issued[u] + 1 of session c.                      *)
ReceiveJob(u, c, b) ==
    /\ issued[u] < MaxJobs
    /\ issued' = [issued EXCEPT ![u] = @ + 1]
    /\ LET j == [id |-> issued[u] + 1, clientId |-> c]
           s == SetJob(SetActive(storage[u], b), j)
       IN  /\ storage' = [storage EXCEPT ![u] = s]
           /\ given' = [given EXCEPT ![u] = @ \union Handed(j, s, Receivers(s))]
           /\ phase' = ReadyWith({s.used[i] : i \in Receivers(s)})
    /\ UNCHANGED <<num, suspended, mapperId, fixedByte, reqs, answers, reloads>>

NewSession(u) ==
    /\ logins[u] < MaxLogins
    /\ logins' = [logins EXCEPT ![u] = @ + 1]
    /\ inflight' = [inflight EXCEPT ![u] = {}]
    /\ ReceiveJob(u, logins[u] + 1, TRUE)
    /\ UNCHANGED results

(* A pool of the strategy logs in: the first one, one that was away, or a  *)
(* better one than the one in use; onActive and the first job follow.      *)
LinkUp(u) ==
    /\ u \in Existing
    /\ link[u] \in {"trying", "up"}
    /\ NewSession(u)
    /\ link' = [link EXCEPT ![u] = "up"]
    /\ UNCHANGED pending

(* The reloaded strategy logs in and replaces the old one.                 *)
PendingUp(u) ==
    /\ u \in Existing
    /\ pending[u]
    /\ NewSession(u)
    /\ link' = [link EXCEPT ![u] = "up"]
    /\ pending' = [pending EXCEPT ![u] = FALSE]

LinkJob(u) ==
    /\ u \in Existing
    /\ link[u] = "up"
    /\ ReceiveJob(u, logins[u], storage[u].active)
    /\ UNCHANGED <<link, pending, logins, ctxVars>>

(* onPause: the pool in use is lost.                                       *)
LinkDown(u) ==
    /\ u \in Existing
    /\ link[u] = "up"
    /\ link' = [link EXCEPT ![u] = "trying"]
    /\ storage' = [storage EXCEPT ![u] = SetActive(@, FALSE)]
    /\ inflight' = [inflight EXCEPT ![u] = {}]
    /\ UNCHANGED <<num, suspended, pending, logins, issued, given, results,
                   minVars, histVars, reloads>>
-----------------------------------------------------------------------------
\* bug: the miners are not looked at
DozesAlways(u) == u # 0 /\ ~IsSuspended(u)

(* NonceMapper::gc goes to sleep.                                          *)
Dozes(u) == u # 0 /\ ~IsSuspended(u) /\ ~IsUsed(storage[u])

(* NonceSplitter::gc: NonceMapper::gc of every mapper, then the trailing   *)
(* mappers that were suspended in an earlier round are deleted.  Only "1"  *)
(* and ">= 2" of m_suspended are told apart.                               *)
GC ==
    LET doze == {u \in Existing : Dozes(u)}
        next == [u \in Ups |-> IF u \in doze THEN 1
                               ELSE IF u \in Existing /\ IsSuspended(u) THEN 2
                               ELSE suspended[u]]
        keep == CHOOSE n \in 1 .. num :
                    /\ next[n - 1] < 2
                    /\ \A u \in n .. num - 1 : next[u] >= 2
        gone == keep .. num - 1
    IN  /\ num' = keep
        /\ suspended' = [u \in Ups |-> IF u \in gone THEN 0 ELSE next[u]]
        \* suspend() does not reach a client that is still looking up a host
        /\ \E late \in SUBSET {u \in doze : link[u] = "trying"} :
             link' = [u \in Ups |-> IF u \in gone \/ u \in doze \ late
                                    THEN "idle" ELSE link[u]]
        \* what a mapper made here later starts with
        /\ \E i \in Slots :
             storage' = [u \in Ups |->
                           IF u \in gone THEN NewStorage(i)
                           ELSE IF u \in doze
                                THEN Reset(SetActive(storage[u], FALSE))
                                ELSE storage[u]]
        /\ pending' = [u \in Ups |-> pending[u] /\ u \notin gone]
        /\ results' = [u \in Ups |-> IF u \in gone THEN {} ELSE results[u]]
        /\ inflight' = [u \in Ups |-> IF u \in gone \/ u \in doze
                                      THEN {} ELSE inflight[u]]
    /\ UNCHANGED <<logins, issued, given, minVars, histVars, reloads>>

(* onConfigChanged with other pools: every mapper, suspended or not, gets  *)
(* a new strategy to connect.                                              *)
Reload ==
    /\ reloads < MaxReloads
    /\ reloads' = reloads + 1
    /\ pending' = [u \in Ups |-> u \in Existing]
    /\ UNCHANGED <<num, storage, suspended, link, logins, issued, given,
                   ctxVars, minVars, histVars>>

MinerStep == \E m \in MinerIds :
                \/ Login(m) \/ Shutdown(m) \/ Closed(m)
                \/ \E seq \in Seqs :
                     \/ SubmitRefused(m, seq)
                     \/ \E j \in 1 .. MaxJobs : SubmitForwarded(m, seq, j)
PoolStep  == \E u \in Ups :
                \/ LinkUp(u) \/ PendingUp(u) \/ LinkJob(u) \/ LinkDown(u)
                \/ \E seq \in Seqs : PoolAnswer(u, seq)

Next == MinerStep \/ PoolStep \/ GC \/ Reload

(* The close callback of a socket and the gc timer always run again.       *)
Fairness == /\ WF_vars(GC)
            /\ \A m \in MinerIds : WF_vars(Closed(m))

Spec     == Init /\ [][Next]_vars
FairSpec == Spec /\ Fairness
-----------------------------------------------------------------------------
(* Every variable keeps its type.                                          *)
TypeOK ==
    /\ num \in 1 .. MaxUps
    /\ storage \in [Ups -> Storage]
    /\ suspended \in [Ups -> 0 .. 2]
    /\ link \in [Ups -> {"idle", "trying", "up"}]
    /\ pending \in [Ups -> BOOLEAN]
    /\ results \in [Ups -> SUBSET [key : Seqs \union {Failed}, seq : Seqs,
                                  miner : MinerIds]]
    /\ inflight \in [Ups -> SUBSET Seqs]
    /\ phase \in [MinerIds -> {"login", "wait", "ready", "closing", "gone"}]
    /\ mapperId \in [MinerIds -> Ups \union {NoMapper}]
    /\ fixedByte \in [MinerIds -> Slots \union {NoByte}]
    /\ logins \in [Ups -> 0 .. MaxLogins] /\ issued \in [Ups -> 0 .. MaxJobs]
    /\ given \in [Ups -> SUBSET [job : Nat, slot : Slots, miner : Int]]
    /\ reloads \in Nat
    /\ reqs \subseteq [seq : Seqs, miner : MinerIds]
    /\ answers \in [Seqs \X MinerIds -> Nat]

(* A logged-in miner always has its slot in the upstream it points to, and *)
(* that upstream exists and is awake: gc never takes it away from under a  *)
(* miner, so remove() and submit() never index a deleted mapper.           *)
MinersPlaced ==
    /\ \A m \in Live : mapperId[m] # NoMapper =>
         /\ mapperId[m] \in Existing
         /\ ~IsSuspended(mapperId[m])
         /\ storage[mapperId[m]].used[fixedByte[m]] = m
    /\ \A u \in Ups : \A m \in storage[u].miners : m \in Live /\ mapperId[m] = u

(* A miner does not wait for a job on an upstream that has one.            *)
NobodyWaitsOnActive ==
    \A m \in MinerIds :
        phase[m] = "wait" => ~storage[mapperId[m]].active

(* Shares are accepted from miners only for jobs of the pool session the   *)
(* share will be sent to.                                                  *)
SharesMatchSession ==
    \A u \in Existing : storage[u].active =>
        /\ storage[u].job.clientId = logins[u]
        /\ storage[u].prevJob # NoJob => storage[u].prevJob.clientId = logins[u]

(* A request is answered at most once, and only to the miner that sent it. *)
AnsweredOnceToSender ==
    \A seq \in Seqs, m \in MinerIds :
        /\ answers[<<seq, m>>] <= 1
        /\ answers[<<seq, m>>] > 0 => [seq |-> seq, miner |-> m] \in reqs

(* Whatever answer the pool still owes can be matched to its request.      *)
AnswersAttributed ==
    \A u \in Existing : \A seq \in inflight[u] :
        \E c \in results[u] : /\ c.key = seq
                              /\ [seq |-> seq, miner |-> c.miner] \in reqs

(* doc/STRATUM.md:84-106 promises each "submit" a reply: while its miner   *)
(* is connected, a request is answered or the pool still owes the answer.  *)
SubmitGetsReply ==
    \A r \in reqs : phase[r.miner] = "ready" =>
        \/ answers[<<r.seq, r.miner>>] = 1
        \/ r.seq \in inflight[mapperId[r.miner]]

(* Every upstream uses its storage as NonceStorageSpec assumes, so what is *)
(* proved there holds for each of them.                                    *)
ByteOn(u) == [m \in MinerIds |-> IF mapperId[m] = u THEN fixedByte[m] ELSE NoByte]

Upstream(u) == INSTANCE NonceStorageSpec WITH
                   storage <- storage[u], fixedByte <- ByteOn(u),
                   issued <- issued[u], given <- given[u]

UpstreamStep(u) == UNCHANGED Upstream(u)!vars \/ Upstream(u)!Next

(* The same as a property of every upstream, also over gc and reconnects.  *)
StoragesRefined == /\ \A u \in Ups : Upstream(u)!Init
                   /\ [][\A u \in Ups : UpstreamStep(u)]_vars

(* Once no miner is connected any more, gc brings the proxy back to one    *)
(* upstream connection: from the first of these on to the second.          *)
NobodyConnected == \A m \in MinerIds : phase[m] \notin {"wait", "ready"}
OneUpstream     == num = 1
=============================================================================
