------------------------------ MODULE Donation ------------------------------
(***************************************************************************)
(* One upstream (NonceMapper) with what decides which pool its miners work *)
(* for: the strategy of the user's pools, a pending strategy after a       *)
(* reload, and DonateStrategy, which takes the upstream over for a while.  *)
(* All three report to the same listener and share the same storage.       *)
(*                                                                         *)
(* The upstream is a record u.  until is m_target - m_ticks, -1 once the   *)
(* target has been passed.  The jobs of the user's pool are numbered       *)
(* modulo Jobs; newest is the last one it has sent, saved is               *)
(* m_pending.job of the donation, None if there is none.  level is         *)
(* donateLevel() in ticks, and Period the ticks for which a donation of    *)
(* that length pays.                                                       *)
(***************************************************************************)
EXTENDS Integers

CONSTANTS Jobs, Level, Period, MaxTicks,
          DonateFails, Sleeps, Reloads    \* what may happen in a run

TickAssumption == {Jobs, Level, Period, MaxTicks} \subseteq Nat \ {0} /\ Level <= MaxTicks

VARIABLE u

None   == -1
JobIds == 0 .. Jobs - 1

Init == u = [active |-> FALSE, owner |-> "main", job |-> None, main |-> "trying", newest |-> None,
             donating |-> FALSE, conn |-> "off", ticks |-> 0, until |-> Period, saved |-> None,
             asleep |-> FALSE, pending |-> "none"]

SetJob(x, owner, j) == [x EXCEPT !.owner = owner, !.job = j]

(* onPause() of whichever strategy.                                        *)
OnPause(x) == [x EXCEPT !.active = FALSE]

(* DonateStrategy::stop(): the client closes, onClose comes later.         *)
Stop(x) == [x EXCEPT !.ticks = 0, !.conn = IF @ = "up" THEN "closing" ELSE "off"]

(* reschedule(): the donation lasted long enough; the next one is put off  *)
(* in proportion.                                                          *)
Reschedule(x) == Stop([x EXCEPT !.until = (Period * x.ticks) \div Level, !.donating = FALSE])
Enough(x)     == x.ticks >= Level

\* bug: they go to the miners
OnMainJobPasses(x, j) == SetJob(IF x.donating /\ Enough(x) THEN Reschedule(x) ELSE x, "main", j)

(* onJob() of the user's pool: kept aside while the donation lasts.        *)
OnMainJob(x, j) ==
    CASE x.donating /\ ~Enough(x) -> [x EXCEPT !.saved = j]
      [] x.donating /\ Enough(x)  -> SetJob(Reschedule(x), "main", j)
      [] OTHER                    -> SetJob(x, "main", j)

NextJob == (u.newest + 1) % Jobs
Fresh(x) == OnMainJob([x EXCEPT !.newest = NextJob], NextJob)

---------------------------------------------------------------------------
(* The user's pools.  A closing socket is reported at the end of the same  *)
(* turn of the loop, before anything new can connect or a timer runs.      *)
MainUp   == /\ u.main = "trying" /\ u.conn # "closing"
            /\ u' = Fresh([u EXCEPT !.main = "up", !.active = TRUE])
MainJob  == u.main = "up" /\ u' = Fresh(u)
MainDown == u.main = "up" /\ u' = OnPause([u EXCEPT !.main = "trying"])

(* reload(): a strategy of its own, which replaces the present one when it *)
(* becomes active.  Nobody ticks it before: if its attempt fails it stays  *)
(* where it is.                                                            *)
Reload       == Reloads /\ u' = [u EXCEPT !.pending = "trying"]
PendingFails == u.pending = "trying" /\ u' = [u EXCEPT !.pending = "stuck"]
PendingUp    == /\ u.pending = "trying"
                /\ u' = Fresh([u EXCEPT !.pending = "none", !.main = "up", !.active = TRUE])

(* The donation pool: the first job makes the donation active.  onClose()  *)
(* pauses the upstream, and the client tries again.                        *)
DonateJob  == /\ u.conn \in {"trying", "up"}
              /\ u' = SetJob([u EXCEPT !.conn = "up", !.donating = TRUE,
                                       !.active = u.active \/ ~u.donating], "donate", None)
OnClose(x) == IF x.donating THEN OnPause([x EXCEPT !.donating = FALSE]) ELSE x
DonateLost == DonateFails /\ u.conn = "up" /\ u' = OnClose([u EXCEPT !.conn = "trying"])
DonateClosed == u.conn = "closing" /\ u' = OnClose([u EXCEPT !.conn = "off"])

(* DonateStrategy::tick(): at the target it connects.                      *)
DonateTick(x) ==
    [x EXCEPT !.until = IF @ > -1 THEN @ - 1 ELSE @,
              !.saved = IF x.until = 1 THEN None ELSE @,
              !.conn  = IF x.until = 1 /\ x.conn = "off" THEN "trying" ELSE @,
              !.ticks = IF x.donating /\ @ < MaxTicks THEN @ + 1 ELSE @]

(* NonceMapper::tick(), asleep or not.                                     *)
Tick == /\ u.conn # "closing"
        /\ LET x == DonateTick(u)
           IN  u' = IF x.donating /\ x.saved # None /\ Enough(x)
                    THEN SetJob(Reschedule(x), "main", x.saved) ELSE x

(* suspend() by gc, and connect() by the next miner added.  A client that  *)
(* looks up its host is not stopped by disconnect().                       *)
Suspend == /\ Sleeps /\ ~u.asleep /\ u.conn # "closing"
           /\ \E lookup \in BOOLEAN :
                 LET x == Stop([u EXCEPT !.asleep = TRUE, !.active = FALSE, !.main = "off"])
                 IN  u' = IF lookup /\ u.conn = "trying" THEN [x EXCEPT !.conn = "trying"] ELSE x
Resume  == u.asleep /\ u' = [u EXCEPT !.asleep = FALSE, !.main = "trying"]

(* submit(): the strategy a share is handed to, if it is taken at all.     *)
Target == IF u.donating THEN "donate" ELSE "main"

Next == \/ MainUp \/ MainJob \/ MainDown \/ Reload \/ PendingFails \/ PendingUp
        \/ DonateJob \/ DonateLost \/ DonateClosed \/ Tick \/ Suspend \/ Resume
Spec == Init /\ [][Next]_u

---------------------------------------------------------------------------
TypeOK ==
    /\ {u.active, u.donating, u.asleep} \subseteq BOOLEAN
    /\ u.owner \in {"main", "donate"} /\ {u.job, u.newest, u.saved} \subseteq JobIds \union {None}
    /\ u.main \in {"off", "trying", "up"} /\ u.conn \in {"off", "trying", "up", "closing"}
    /\ u.pending \in {"none", "trying", "stuck"}
    /\ u.ticks \in 0 .. MaxTicks /\ u.until \in -1 .. (Period * MaxTicks) \div Level

(* A share that is taken goes to the pool whose job the miners have, in    *)
(* every order of logins, losses, donations, reloads and sleep.            *)
ShareToOwner == u.active => u.owner = Target

(* When a donation ends in time, the miners get the newest job of the      *)
(* user's pool.                                                            *)
NewestAfter == u.donating /\ ~u'.donating /\ u'.active /\ u'.main = "up"
                   => u'.owner = "main" /\ u'.job = u'.newest
=============================================================================
