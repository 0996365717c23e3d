------------------------------ MODULE Resolver ------------------------------
(***************************************************************************)
(* Dns and DnsUvBackend: the lookups of one host.  Listeners queue up for  *)
(* one lookup; its result, a failure too, is kept for the TTL.             *)
(*                                                                         *)
(* While a listener is told another may ask (a strategy connects the next  *)
(* pool, which may have the same host).  From a fresh result that one is   *)
(* told inside the loop that tells the queue, in a loop that begins at the *)
(* first and clears the queue when it ends; who asks while a refused       *)
(* lookup is told is put into a queue that is cleared, and forgotten.      *)
(* loops holds the loops that run, innermost last: the place each has come *)
(* to and where the queue ended when it began.                             *)
(*                                                                         *)
(* A loop whose queue was cleared inside it is over when it was at its     *)
(* last listener: by the standard it holds invalid iterators then, but the *)
(* libraries compare them as before.  With more to come it goes on over    *)
(* entries that are destroyed.  broken says so, and the model ends there.  *)
(* Ages are counted in whole lifetimes: TTL steps pass before a result is  *)
(* too old.                                                                *)
(***************************************************************************)
EXTENDS Integers, Sequences

CONSTANTS Listeners,
          TTL,      \* config.ttl(), in steps
          MaxAsks,  \* bound of what one listener asks
          Depth     \* bound of the loops inside each other

ResolverAssumption == {TTL, MaxAsks} \subseteq Nat /\ Depth \in Nat \ {0}

VARIABLES b,      \* queue (m_queue), req (m_req is under way), age (of m_ts), ok (m_status), addr (m_records is not empty)
          loops,
          holds,  \* the listeners whose request lives: by m_dns, or by the loop that tells them
          asks,   \* what each has asked
          seen,   \* the age of the addresses it was told last
          lost,   \* the listeners that were forgotten
          broken  \* a loop went on over a queue that was cleared

vars == <<b, loops, holds, asks, seen, lost, broken>>

Init == /\ b = [queue |-> <<>>, req |-> FALSE, age |-> TTL + 1, ok |-> FALSE, addr |-> FALSE]
        /\ loops = <<>> /\ holds = {}
        /\ asks = [l \in Listeners |-> 0]
        /\ seen = [l \in Listeners |-> 0]
        /\ lost = {} /\ broken = FALSE

Quiet == loops = <<>>
Front == loops[Len(loops)]
Next1 == [loops EXCEPT ![Len(loops)].at = @ + 1]
Begin(q) == Append(loops, [at |-> 1, end |-> Len(q)])

Fresh == b.age <= TTL

\* bug: who comes while a lookup is under way is not queued
ResolveLate(l) ==
    LET q == IF b.req THEN b.queue ELSE Append(b.queue, l) IN
    IF Fresh THEN b' = [b EXCEPT !.queue = q] /\ loops' = Begin(q)
    ELSE b' = [b EXCEPT !.queue = q, !.req = TRUE] /\ UNCHANGED loops

(* resolve(): told at once from a fresh result, else by the lookup, which  *)
(* is begun when none is under way.  When uv_getaddrinfo refuses, all are  *)
(* told that, with the addresses of the last lookup.                       *)
Resolve(l) ==
    LET q == Append(b.queue, l) IN
    \/ Fresh /\ b' = [b EXCEPT !.queue = q] /\ loops' = Begin(q)
    \/ ~Fresh /\ b' = [b EXCEPT !.queue = q, !.req = TRUE] /\ UNCHANGED loops
    \/ ~Fresh /\ ~b.req /\ b' = [b EXCEPT !.queue = q, !.ok = FALSE] /\ loops' = Begin(q)

Asked(l) == /\ asks[l] < MaxAsks /\ asks' = [asks EXCEPT ![l] = @ + 1]
            /\ holds' = holds \union {l}

Ask(l) == Quiet /\ l \notin holds /\ Asked(l) /\ Resolve(l) /\ UNCHANGED <<seen, lost, broken>>

(* The owner lets its request go: the queue keeps a dead entry.            *)
Drop(l) == Quiet /\ l \in holds /\ holds' = holds \ {l} /\ lost' = lost \ {l}
           /\ UNCHANGED <<b, loops, asks, seen, broken>>

(* onResolved() of the lookup; without addresses it has failed.            *)
LookedUp == /\ Quiet /\ b.req
            /\ \E good \in BOOLEAN :
                   b' = [b EXCEPT !.age = 0, !.ok = good, !.addr = good]
            /\ loops' = Begin(b.queue)
            /\ UNCHANGED <<holds, asks, seen, lost, broken>>

Age == /\ Quiet /\ b.age <= TTL /\ b' = [b EXCEPT !.age = @ + 1]
       /\ UNCHANGED <<loops, holds, asks, seen, lost, broken>>

Tell(l) == seen' = [seen EXCEPT ![l] = IF b.ok THEN b.age ELSE 0]

(* notify(), one listener: it lets its request go (m_dns.reset()) and      *)
(* returns.  The loop keeps it alive while it is being told.  An entry that *)
(* the loop comes to is never that of who was forgotten.                   *)
Cleared == Front.at > Len(b.queue)

Told == /\ ~Quiet /\ ~broken /\ Front.at <= Front.end /\ ~Cleared
        /\ LET l == b.queue[Front.at] IN
           IF l \in holds \ lost THEN Tell(l) /\ holds' = holds \ {l} ELSE UNCHANGED <<holds, seen>>
        /\ loops' = Next1
        /\ UNCHANGED <<b, asks, lost, broken>>

(* ... or has another one ask before it returns.  Its own request lives on *)
(* in the loop that tells it, so that the loop inside tells it once more.  *)
(* Where the result is not fresh the lookup that was refused counts as     *)
(* under way: the other one is queued behind the end of the loop.          *)
ToldAndAsks(n) ==
    /\ ~Quiet /\ ~broken /\ Front.at <= Front.end /\ ~Cleared
    /\ b.queue[Front.at] \in holds \ lost /\ n \notin holds
    /\ asks[n] < MaxAsks /\ asks' = [asks EXCEPT ![n] = @ + 1]
    /\ LET l == b.queue[Front.at]
           q == Append(b.queue, n)
       IN /\ Tell(l) /\ b' = [b EXCEPT !.queue = q]
          /\ IF Fresh THEN /\ Len(loops) < Depth
                           /\ loops' = Append(Next1, [at |-> 1, end |-> Len(q)])
                           /\ holds' = holds \union {n} /\ UNCHANGED lost
             ELSE /\ loops' = Next1
                  /\ holds' = (holds \ {l}) \union {n} /\ lost' = lost \union {n}
    /\ UNCHANGED broken

(* The end of notify(); and the loop that goes on when it is not the end.  *)
ToldAll == /\ ~Quiet /\ ~broken /\ Front.at > Front.end
           /\ b' = [b EXCEPT !.queue = <<>>, !.req = FALSE]
           /\ loops' = SubSeq(loops, 1, Len(loops) - 1)
           /\ UNCHANGED <<holds, asks, seen, lost, broken>>

GoesOn == /\ ~Quiet /\ ~broken /\ Front.at <= Front.end /\ Cleared /\ broken' = TRUE
          /\ UNCHANGED <<b, loops, holds, asks, seen, lost>>

Next == \/ \E l \in Listeners : Ask(l) \/ Drop(l) \/ ToldAndAsks(l)
        \/ LookedUp \/ Age \/ Told \/ ToldAll \/ GoesOn
Spec == Init /\ [][Next]_vars

(* The lookup ends, loops run to their end.                                *)
FairSpec == Spec /\ WF_vars(LookedUp) /\ WF_vars(Told) /\ WF_vars(ToldAll) /\ WF_vars(GoesOn)

---------------------------------------------------------------------------
TypeOK ==
    /\ b.queue \in Seq(Listeners) /\ b.req \in BOOLEAN /\ b.age \in 0 .. TTL + 1
    /\ Len(loops) <= Depth /\ holds \subseteq Listeners
    /\ asks \in [Listeners -> 0 .. MaxAsks] /\ seen \in [Listeners -> 0 .. TTL + 1]
    /\ (Quiet /\ ~b.req => b.queue = <<>>)
    /\ lost \subseteq holds /\ broken \in BOOLEAN

(* "TTL for internal DNS cache" (README.md): addresses that a listener is  *)
(* told as good are no older than the TTL.                                 *)
WithinTTL == \A l \in Listeners : seen[l] <= TTL

(* A listener that keeps its request is told in the end: whoever comes     *)
(* during the lookup, after it, or while others are being told.  But not   *)
(* who comes while others are told that the lookup was refused; and until  *)
(* a loop goes on over the queue that was cleared inside it.               *)
ListenerTold(l) == l \notin holds \/ l \in lost \/ broken

(* Whenever nothing is under way, nobody is left waiting, and in no queue, *)
(* but those; and while something is, whoever waits is still in the queue. *)
NobodyLeft ==
    /\ holds \ lost \subseteq {b.queue[i] : i \in DOMAIN b.queue}
    /\ Quiet /\ ~b.req => holds = lost
=============================================================================
