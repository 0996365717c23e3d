------------------------------ MODULE TaskLoop ------------------------------
(***************************************************************************)
(* The loop of aterxdaemon.py and the script that starts and stops it.     *)
(* The daemon runs its enabled tasks, sleeps what is left of the interval  *)
(* and looks at its flag; a signal clears the flag and wakes nobody.  The  *)
(* tasks are coroutines that never wait, so that they run one after the    *)
(* other.  The script knows the daemon by a file with its process id, and  *)
(* kills it when it has not ended in time.                                 *)
(*                                                                         *)
(* A tick is ten seconds.  What a task does is the subject of ShareTrail,  *)
(* PplnsLedger, StatsFiles and HashrateBook.                               *)
(***************************************************************************)
EXTENDS Integers, Sequences

CONSTANTS Enabled,   \* the tasks no option has disabled
          Interval,  \* task_interval, in ticks: 6
          Grace,     \* how long stop_daemon waits, in ticks: 1
          MaxTask    \* bound: ticks that the tasks of a cycle take together

Tasks == <<"cleaner", "exporter", "hashrate">>

LoopAssumption == /\ Enabled \subseteq {Tasks[i] : i \in DOMAIN Tasks}
                  /\ {Interval, Grace, MaxTask} \subseteq Nat /\ Interval > 0

VARIABLES pc,       \* "off", "tasks", "sleep"
          at,       \* the next task of the cycle
          running,  \* self.running
          since,    \* ticks since cycle_start
          left,     \* what is left of the sleep
          pidFile,  \* the file exists; "stale" when its process is gone
          script,   \* "idle", "stopping"
          waited,   \* ticks stop_daemon has waited
          needs,    \* /1/needreward names a block
          splits,   \* _run_reward_splitter() was called
          ran,      \* the tasks that have run in this cycle
          killed    \* what the daemon was doing when it was killed

vars == <<pc, at, running, since, left, pidFile, script, waited, needs, splits, ran, killed>>
cycle == <<at, since, left, ran>>

Init == /\ pc = "off" /\ at = 1 /\ running = FALSE /\ since = 0 /\ left = 0
        /\ pidFile = "none" /\ script = "idle" /\ waited = 0
        /\ needs \in BOOLEAN /\ splits = FALSE /\ ran = {} /\ killed = "none"

Begin == at' = 1 /\ since' = 0 /\ left' = 0 /\ ran' = {}

(* The process is gone; its file is not.                                   *)
Gone == /\ pc' = "off" /\ running' = FALSE /\ Begin
        /\ pidFile' = IF pidFile = "none" THEN "none" ELSE "stale"

---------------------------------------------------------------------------
(* start_daemon: refused while the process of the file lives.              *)
Start == /\ script = "idle" /\ pc = "off"
         /\ \/ /\ pc' = "tasks" /\ running' = TRUE /\ Begin /\ pidFile' = "live"
            \/ pidFile' = "none" /\ UNCHANGED <<pc, running, cycle>>
         /\ UNCHANGED <<script, waited, needs, splits, killed>>

Blocks == needs' = ~needs /\ UNCHANGED <<pc, running, cycle, pidFile, script, waited, splits, killed>>

(* gather(return_exceptions): a failure is the task's own.                 *)
NextTask(i, failed) == i + 1

Runs(t) == t \in Enabled

Task == /\ pc = "tasks" /\ at <= Len(Tasks)
        /\ LET t == Tasks[at]
           IN  /\ ran' = IF Runs(t) THEN ran \union {t} ELSE ran
               /\ splits' = (splits \/ (t = "cleaner" /\ Runs(t) /\ needs))
               /\ \E failed \in BOOLEAN : at' = NextTask(at, failed)
        /\ UNCHANGED <<pc, running, since, left, pidFile, script, waited, needs, killed>>

(* while self.running                                                      *)
Loop == IF running THEN pc' = "tasks" /\ Begin /\ UNCHANGED <<running, pidFile>> ELSE Gone

SleepTime(spent) == IF spent >= Interval THEN 0 ELSE Interval - spent

CycleEnds == /\ pc = "tasks" /\ at > Len(Tasks)
             /\ IF SleepTime(since) > 0
                THEN pc' = "sleep" /\ left' = SleepTime(since) /\ UNCHANGED <<running, at, since, ran, pidFile>>
                ELSE Loop
             /\ UNCHANGED <<script, waited, needs, splits, killed>>
Wakes == /\ pc = "sleep" /\ left = 0 /\ Loop
         /\ UNCHANGED <<script, waited, needs, splits, killed>>

(* Time passes for the daemon and for the script that waits for it.        *)
Tick == /\ pc # "off"
        /\ IF pc = "tasks" THEN since < MaxTask /\ left' = left ELSE left > 0 /\ left' = left - 1
        /\ since' = since + 1
        /\ script = "stopping" => waited < Grace
        /\ waited' = IF script = "stopping" THEN waited + 1 ELSE waited
        /\ UNCHANGED <<pc, at, running, pidFile, script, needs, splits, ran, killed>>

---------------------------------------------------------------------------
(* stop_daemon sends SIGTERM; Ctrl+C reaches the same handler.             *)
Stop == /\ script = "idle" /\ pidFile # "none"
        /\ IF pc = "off" THEN pidFile' = "none" /\ UNCHANGED <<running, script, waited>>
           ELSE running' = FALSE /\ script' = "stopping" /\ waited' = 0 /\ UNCHANGED pidFile
        /\ UNCHANGED <<pc, cycle, needs, splits, killed>>
Interrupt == /\ pc # "off" /\ running' = FALSE
             /\ UNCHANGED <<pc, cycle, pidFile, script, waited, needs, splits, killed>>

Stopped == /\ script = "stopping" /\ pc = "off"
           /\ script' = "idle" /\ pidFile' = "none"
           /\ UNCHANGED <<pc, running, cycle, waited, needs, splits, killed>>
Kill == /\ script = "stopping" /\ pc # "off" /\ waited >= Grace
        /\ killed' = (IF pc = "tasks" THEN "task" ELSE killed)
        /\ Gone /\ UNCHANGED <<script, waited, needs, splits>>

Forgets == pc = "off"

Status == /\ script = "idle" /\ pidFile # "none" /\ Forgets /\ pidFile' = "none"
          /\ UNCHANGED <<pc, running, cycle, script, waited, needs, splits, killed>>

(* The daemon dies: a fatal error, the machine's memory.                   *)
Crash == pc # "off" /\ Gone /\ UNCHANGED <<script, waited, needs, splits, killed>>

Next == \/ Start \/ Blocks \/ Task \/ CycleEnds \/ Wakes \/ Tick \/ Stop \/ Interrupt \/ Stopped \/ Kill
        \/ Status \/ Crash
Spec == Init /\ [][Next]_vars

(* Tasks end, time passes, the script goes on with what it does.           *)
FairSpec == /\ Spec /\ WF_vars(Task) /\ WF_vars(CycleEnds) /\ WF_vars(Wakes) /\ WF_vars(Stopped) /\ WF_vars(Kill)
            /\ WF_vars(Tick)

---------------------------------------------------------------------------
TypeOK == /\ pc \in {"off", "tasks", "sleep"} /\ at \in 1..(Len(Tasks) + 1) /\ running \in BOOLEAN
          /\ since \in 0..(Interval + MaxTask) /\ left \in 0..Interval
          /\ pidFile \in {"none", "live", "stale"} /\ script \in {"idle", "stopping"} /\ waited \in 0..Grace
          /\ {needs, splits} \subseteq BOOLEAN /\ ran \subseteq Enabled /\ killed \in {"none", "task"}

(* A daemon that lives can be found and stopped, and no second one is      *)
(* started beside it: the file names it from start to end.                 *)
FileNamesDaemon == pc # "off" => pidFile = "live"

(* Cycles keep their distance: the next one begins no sooner than the      *)
(* interval after the last began, and at once when the tasks took longer.  *)
Paced == pc # "off" /\ pc' = "tasks" /\ at' = 1 /\ at # 1
         => since >= Interval /\ (since > Interval => pc = "tasks")

(* Every enabled task has its turn in every cycle whatever becomes of the  *)
(* others.                                                                 *)
AllTurns == pc = "sleep" => ran = Enabled

(* A daemon that is told to stop stops, and the script ends.               *)
ScriptDone == script # "stopping"
Obeyed     == pc = "off" \/ running

(* ... and as long as nobody stops it, no task waits for ever.             *)
HadTurn(t) == pc = "off" \/ t \in ran
=============================================================================
