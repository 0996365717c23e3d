----------------------------- MODULE SelfSelect -----------------------------
(***************************************************************************)
(* SelfSelectClient: a pool whose jobs leave the block to the miner.  Every *)
(* job of the pool is completed with a template of a daemon (over HTTP),   *)
(* the template is offered to the pool, and once the pool has taken it the *)
(* job goes to the miners.                                                 *)
(*                                                                         *)
(* Pool jobs are numbered, 0 is none; a template is known by the job whose *)
(* extra nonce it was asked with.  The pool connection is m_client, as     *)
(* PoolLink has it: it logs in, brings jobs and answers in order, closes.  *)
(* s is the client: active, state, failures (Retries + 2 stands for more), *)
(* job and blob (the template in it) of m_job; ask, the job of the newest  *)
(* template request, 0 when it is answered; old, the older requests still  *)
(* under way; block, a submitblock request: it shares its number with the  *)
(* template request made next; offers, the templates the pool has not      *)
(* answered; handed, the job and blob the miners have; up, what the owner  *)
(* was told last.                                                          *)
(***************************************************************************)
EXTENDS Integers, Sequences

CONSTANTS MaxJobs,  \* bound of the pool's jobs
          Retries,  \* m_retries
          MaxOld,   \* bound of the old requests under way
          Faults,   \* bound of what goes wrong
          Silences, \* bound of the requests that are never answered
          Shares,   \* bound of the shares
          Origin    \* submit-to-origin is on

SelfSelectAssumption ==
    {MaxJobs, Retries, MaxOld, Faults, Silences, Shares} \subseteq Nat /\ Origin \in BOOLEAN

VARIABLES s, left

vars == <<s, left>>

Init == /\ s = [active |-> FALSE, state |-> "idle", failures |-> 0, job |-> 0, blob |-> 0,
                ask |-> 0, old |-> 0, block |-> "none", offers |-> <<>>,
                handed |-> [job |-> 0, blob |-> 0], up |-> FALSE]
        /\ left = [faults |-> Faults, silences |-> Silences, shares |-> Shares]

Spend(what) == left[what] > 0 /\ left' = [left EXCEPT ![what] = @ - 1]

(* setState(IdleState) does nothing in that state already.                 *)
Idle(c) == IF c.state = "idle" THEN c ELSE [c EXCEPT !.state = "idle", !.failures = 0]

(* retry(): the owner hears onClose when the retries are used up.          *)
Retry(c) ==
    IF c.state = "retry" THEN c
    ELSE [c EXCEPT !.state = "retry", !.failures = IF @ < Retries + 2 THEN @ + 1 ELSE @,
                   !.up = @ /\ c.failures <= Retries]

(* getBlockTemplate(): whatever was asked before is old now.               *)
GetBlockTemplate(c) ==
    [c EXCEPT !.state = "wait", !.ask = c.job, !.old = IF c.ask = 0 THEN @ ELSE @ + 1,
              !.block = IF @ = "newest" THEN "old" ELSE @]

RoomToAsk == s.old < MaxOld

---------------------------------------------------------------------------
(* onJobReceived(): the job replaces the one in hand, also one that is     *)
(* being offered.                                                          *)
WithJob(c) == GetBlockTemplate([c EXCEPT !.job = @ + 1, !.blob = 0])

(* onLoginSuccess(); the login's reply holds a job.                        *)
Login == /\ ~s.active /\ s.job < MaxJobs /\ RoomToAsk
         /\ s' = WithJob([Idle(s) EXCEPT !.active = TRUE, !.up = TRUE]) /\ UNCHANGED left
Close == /\ s.active /\ Spend("faults")
         /\ s' = [Idle(s) EXCEPT !.active = FALSE, !.up = FALSE, !.offers = <<>>]

Job == s.active /\ s.job < MaxJobs /\ RoomToAsk /\ s' = WithJob(s) /\ UNCHANGED left

(* onHttpData() of an answer to an old request.                            *)
OldIgnored == s.old > 0 /\ s' = [s EXCEPT !.old = @ - 1] /\ UNCHANGED left

(* ... and to the newest: the template goes into the job and is offered,   *)
(* which a closed connection swallows.                                     *)
Template ==
    /\ s.ask # 0
    /\ s' = [s EXCEPT !.ask = 0, !.blob = s.ask,
                      !.offers = IF s.active THEN Append(@, [job |-> s.job, blob |-> s.ask]) ELSE @]
    /\ UNCHANGED left

(* A request fails, or the daemon answers with an error: old or not.       *)
TemplateFailed ==
    /\ Spend("faults")
    /\ \/ s.ask # 0 /\ s' = Retry([s EXCEPT !.ask = 0])
       \/ s.old > 0 /\ s' = Retry([s EXCEPT !.old = @ - 1])

(* HttpClient::onResolved(), the host is not found: nobody hears of it.    *)
Silent == /\ Spend("silences")
          /\ \/ s.ask # 0 /\ s' = [s EXCEPT !.ask = 0]
             \/ s.old > 0 /\ s' = [s EXCEPT !.old = @ - 1]

(* The answer to submitblock is taken for that of the newest template, and *)
(* misses the fields of one; an old one is ignored.                        *)
BlockAnswer ==
    /\ s.block # "none"
    /\ LET c == [s EXCEPT !.block = "none"] IN s' = IF s.block = "newest" THEN Retry(c) ELSE c
    /\ UNCHANGED left

(* submitBlockTemplate(), its callback: the pool has taken the template it *)
(* was offered first, and the job in hand goes to the miners.              *)
Taken(c) ==
    LET d == [c EXCEPT !.offers = Tail(@)] IN
    IF ~c.active THEN d
    ELSE [Idle(d) EXCEPT !.up = @ \/ c.failures > Retries,
                         !.handed = [job |-> c.job, blob |-> c.blob]]

Offered ==
    /\ s.offers # <<>>
    /\ \/ s' = Taken(s) /\ UNCHANGED left
       \/ Spend("faults") /\ s' = Retry([s EXCEPT !.offers = Tail(@)])

(* tick(), the retry pause over.                                           *)
Tick == s.state = "retry" /\ RoomToAsk /\ s' = GetBlockTemplate(s) /\ UNCHANGED left

(* submit() of a share of a job the miners have; with submit-to-origin the *)
(* daemon gets it when it makes a block, and in any case the daemon is     *)
(* asked for a template.                                                   *)
Submit ==
    /\ Origin /\ s.handed.job # 0 /\ s.active /\ RoomToAsk /\ s.block = "none" /\ Spend("shares")
    /\ \/ s' = [GetBlockTemplate(s) EXCEPT !.block = "newest"]
       \/ s' = GetBlockTemplate(s)

Next == \/ Login \/ Close \/ Job \/ OldIgnored \/ Template \/ TemplateFailed
        \/ Silent \/ BlockAnswer \/ Offered \/ Tick \/ Submit
Spec == Init /\ [][Next]_vars

(* Requests and offers are answered, the ticker runs.                      *)
FairSpec == /\ Spec /\ WF_vars(OldIgnored) /\ WF_vars(Template) /\ WF_vars(BlockAnswer)
            /\ WF_vars(Offered) /\ WF_vars(Tick)

---------------------------------------------------------------------------
Blobs == [job : 0 .. MaxJobs, blob : 0 .. MaxJobs]

TypeOK ==
    /\ s \in [active : BOOLEAN, state : {"idle", "wait", "retry"}, failures : 0 .. Retries + 2,
              job : 0 .. MaxJobs, blob : 0 .. MaxJobs, ask : 0 .. MaxJobs, old : 0 .. MaxOld,
              block : {"none", "newest", "old"}, offers : Seq(Blobs), handed : Blobs, up : BOOLEAN]

(* What the pool is offered for a job is a template with the extra nonce   *)
(* of that job: a template that comes late is not offered for another job. *)
TemplateOfJob == \A i \in DOMAIN s.offers : s.offers[i].job = s.offers[i].blob

(* A client that is logged in and waits for nothing is one the owner       *)
(* counts on; the owner gave it up only while the daemon failed it.        *)
IdleIsUp == s.active /\ s.state = "idle" => s.up

(* The miners have heard of the newest job of the pool: a failing daemon   *)
(* or a refused template delays it, but does not lose it.                  *)
NewestHanded == s.active => s.up /\ s.handed.job = s.job
=============================================================================
