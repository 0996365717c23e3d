------------------------------ MODULE AppLife ------------------------------
(***************************************************************************)
(* The life of the program: App, Controller, Base and Proxy build the      *)
(* parts, the loop runs them, and a signal or Ctrl+C takes them apart in   *)
(* one callback; then the loop runs on until nothing is left in it.        *)
(*                                                                         *)
(* What the loop holds are handles and requests.  A handle is open until   *)
(* its owner closes it, and closing until the loop, which still reads its  *)
(* memory, has run the callback of the close.  Most owners allocate their  *)
(* handle and leave it to that callback (Handle::close); a FileLogWriter   *)
(* has it inside itself.  Miners and a pool are added by a connection      *)
(* each; a daemon is asked over HTTP, without a handle between requests.   *)
(***************************************************************************)
EXTENDS Integers, FiniteSets

CONSTANTS Miners,
          Parts     \* the parts with a handle that this build and configuration has

(* The parts that have a handle; the writers are two of them.              *)
Writers   == {"log", "access"}
AllParts  == {"signals", "console", "tty", "watcher", "httpd", "proxyTimer", "minersTimer",
              "server", "poolTimer"} \union Writers

AppAssumption == Parts \subseteq AllParts /\ {"signals", "access"} \subseteq Parts

VARIABLES phase,   \* "new", "running", "closing" (taken apart), "left" (the loop has ended), "failed"
          handles, \* of each part: "none", "open", "closing"
          miners,  \* of each miner's socket: "none", "open", "shutting", "closing"
          stored,  \* miners whose object the storage of keys still gives
          pool,    \* the pool's socket, or the request to a daemon: "none", "lookup", "open", "closing"
          daemon,  \* the pool is a daemon
          freed,   \* closing handles whose memory is no more
          alive    \* the objects: parts, miners and "pool"

vars == <<phase, handles, miners, stored, pool, daemon, freed, alive>>

Init == /\ phase = "new" /\ handles = [p \in AllParts |-> "none"]
        /\ miners = [m \in Miners |-> "none"] /\ stored = {} /\ pool = "none"
        /\ daemon \in BOOLEAN /\ freed = {} /\ alive = {}

(* Proxy::bind(), and the API's: what cannot listen has its handle closed  *)
(* and is deleted.                                                         *)
Listeners   == Parts \cap {"server", "httpd"}
Bind(bound) == [p \in Listeners |-> IF p \in bound THEN "open" ELSE "closing"]

(* Proxy::connect(): the upstreams, the listeners, the timer.              *)
Connect == pool' = IF daemon THEN "open" ELSE "lookup"

(* The constructors, Controller::init() and start(): no callback runs in   *)
(* between.                                                                *)
Start == \E bound \in SUBSET Listeners :
             /\ phase = "new" /\ phase' = "running"
             /\ handles' = [p \in AllParts |-> CASE p \notin Parts    -> "none"
                                                 [] p \in Listeners -> Bind(bound)[p]
                                                 [] OTHER           -> "open"]
             /\ alive' = (Parts \ (Listeners \ bound)) \union {"pool"}
             /\ Connect
             /\ UNCHANGED <<miners, stored, daemon, freed>>

(* isReady(): no configuration was found; a dry run ends before the loop.  *)
ExecFails == /\ phase = "new" /\ phase' = "failed"
             /\ UNCHANGED <<handles, miners, stored, pool, daemon, freed, alive>>

Running == phase \in {"running", "closing"}

---------------------------------------------------------------------------
(* What happens while the program runs.                                    *)
Accept(m) == /\ phase = "running" /\ handles["server"] = "open" /\ miners[m] = "none" /\ m \notin alive
             /\ miners' = [miners EXCEPT ![m] = "open"]
             /\ alive' = alive \union {m} /\ stored' = stored \union {m}
             /\ UNCHANGED <<phase, handles, pool, daemon, freed>>

(* Miner::shutdown(), and the request it makes of an orderly end.          *)
MinerEnds(m) == /\ miners[m] = "open" /\ m \in alive
                /\ \E st \in {"shutting", "closing"} : miners' = [miners EXCEPT ![m] = st]
                /\ UNCHANGED <<phase, handles, stored, pool, daemon, freed, alive>>
ShutDone(m) == /\ miners[m] = "shutting"
               /\ miners' = [miners EXCEPT ![m] = "closing"]
               /\ UNCHANGED <<phase, handles, stored, pool, daemon, freed, alive>>

(* Console::onRead(): the end of the input closes the handle for good.     *)
ConsoleEnds == /\ handles["console"] = "open"
               /\ handles' = [handles EXCEPT !["console"] = "closing"]
               /\ UNCHANGED <<phase, miners, stored, pool, daemon, freed, alive>>

(* The pool: a lookup ends in an attempt or a pause, a socket opens and    *)
(* closes; a client whose owner has let it go ends with them.  A daemon    *)
(* answers, if it does, and is asked again.                                *)
Resolved == /\ pool = "lookup"
            /\ pool' \in IF "pool" \in alive THEN {"open", "none"} ELSE {"none"}
            /\ UNCHANGED <<phase, handles, miners, stored, daemon, freed, alive>>
PoolEnds == /\ Running /\ pool = "open" /\ pool' = IF daemon THEN "none" ELSE "closing"
            /\ UNCHANGED <<phase, handles, miners, stored, daemon, freed, alive>>
PoolClosed == /\ pool = "closing" /\ pool' = "none"
              /\ UNCHANGED <<phase, handles, miners, stored, daemon, freed, alive>>
PoolAgain == /\ phase = "running" /\ pool = "none" /\ pool' = IF daemon THEN "open" ELSE "lookup"
             /\ UNCHANGED <<phase, handles, miners, stored, daemon, freed, alive>>

---------------------------------------------------------------------------

(* The parts that close() reaches: m_signals and m_console, then Base::    *)
(* stop() with the API and the watcher, Proxy with its parts, the log.     *)
Stopped     == {"httpd", "watcher"}
ProxyParts  == {"access", "proxyTimer", "minersTimer", "server", "poolTimer"}
ClosedParts == Parts \cap ({"signals", "console", "log", "tty"} \union Stopped \union ProxyParts)

(* ~Miners() deletes the sessions that are registered: all that have not   *)
(* been closed by the loop.                                                *)
Deleted == {m \in Miners : m \in alive}

(* What goes with its owner while the loop still closes it: the handle     *)
(* inside a writer, and a socket that was closing already when ~Miner came.*)
Freed == (Writers \cap Parts) \union {m \in Deleted : miners[m] = "closing"}

(* ~IStrategy: Client::deleteLater() closes a socket, or leaves a lookup   *)
(* to end by itself; DaemonClient is deleted and leaves the request to the *)
(* HTTP client, which only HttpContext::closeAll() of an API server ends.  *)
PoolAfter == IF pool = "open" /\ (~daemon \/ handles["httpd"] = "open") THEN "closing" ELSE pool

(* App::close(), in one callback of the loop.                              *)
CloseApp ==
    /\ phase = "running" /\ "signals" \in alive
    /\ phase' = "closing"
    /\ handles' = [p \in AllParts |-> IF p \in ClosedParts /\ handles[p] = "open" THEN "closing" ELSE handles[p]]
    /\ miners' = [m \in Miners |-> IF m \in Deleted THEN "closing" ELSE miners[m]]
    /\ pool' = PoolAfter
    /\ freed' = freed \union Freed
    /\ alive' = alive \ (ClosedParts \union Deleted \union {"pool"})
    /\ UNCHANGED <<stored, daemon>>

(* The loop's last phase: the callbacks of the handles that are closing.   *)
HandleClosed(p) == /\ handles[p] = "closing" /\ handles' = [handles EXCEPT ![p] = "none"]
                   /\ freed' = freed \ {p}
                   /\ UNCHANGED <<phase, miners, stored, pool, daemon, alive>>

(* A session that ends by itself is told and removed; one that was deleted *)
(* has a callback of its own that frees the handle and nothing else.       *)
MinerClosed(m) == /\ miners[m] = "closing" /\ miners' = [miners EXCEPT ![m] = "none"]
                  /\ stored' = IF m \in alive THEN stored \ {m} ELSE stored
                  /\ alive' = alive \ {m} /\ freed' = freed \ {m}
                  /\ UNCHANGED <<phase, handles, pool, daemon>>

Empty == /\ \A p \in AllParts : handles[p] = "none"
         /\ \A m \in Miners : miners[m] = "none"
         /\ pool = "none"

(* uv_run() returns when nothing is left in the loop.                      *)
LoopEnds == /\ Running /\ Empty /\ phase' = "left"
            /\ UNCHANGED <<handles, miners, stored, pool, daemon, freed, alive>>

Next == \/ Start \/ ExecFails \/ ConsoleEnds \/ Resolved \/ PoolEnds \/ PoolClosed \/ PoolAgain
        \/ CloseApp \/ LoopEnds
        \/ \E m \in Miners : Accept(m) \/ MinerEnds(m) \/ ShutDone(m) \/ MinerClosed(m)
        \/ \E p \in AllParts : HandleClosed(p)
Spec == Init /\ [][Next]_vars

(* The loop runs its callbacks and ends; a lookup ends in the thread pool. *)
(* A pool or a daemon need not answer.                                     *)
Fairness == /\ WF_vars(Resolved) /\ WF_vars(PoolClosed) /\ WF_vars(LoopEnds)
            /\ \A m \in Miners : WF_vars(ShutDone(m)) /\ WF_vars(MinerClosed(m))
            /\ \A p \in AllParts : WF_vars(HandleClosed(p))

---------------------------------------------------------------------------
TypeOK ==
    /\ phase \in {"new", "running", "closing", "left", "failed"} /\ daemon \in BOOLEAN
    /\ handles \in [AllParts -> {"none", "open", "closing"}]
    /\ miners \in [Miners -> {"none", "open", "shutting", "closing"}] /\ stored \subseteq Miners
    /\ pool \in {"none", "lookup", "open", "closing"}
    /\ freed \subseteq Writers \union Miners /\ alive \subseteq AllParts \union Miners \union {"pool"}

(* A callback of the loop reaches only what lives: the owner of each open  *)
(* handle, the session of each socket that the storage can still give.     *)
OwnersLive == /\ \A p \in AllParts : handles[p] = "open" => p \in alive
              /\ \A m \in Miners : miners[m] \in {"open", "shutting"} => m \in alive /\ m \in stored
              /\ (pool = "open" /\ ~daemon) => "pool" \in alive

(* The loop never ends under a program that was not told to end.           *)
RunsUntilTold == phase = "running" => phase' \in {"running", "closing"}

(* Nothing of the proxy is open once it was taken apart, whatever state a  *)
(* session or the pool was in: no miner is served by half a proxy.         *)
NothingOpenAfter == phase = "closing" =>
    /\ \A p \in AllParts : handles[p] # "open"
    /\ \A m \in Miners : miners[m] \in {"none", "closing"}

(* CHANGELOG_OLD.md: real graceful exit.  Told to end, the program ends.   *)
Ended == phase # "closing"
=============================================================================
