---------------------------- MODULE ConfigReload ----------------------------
(***************************************************************************)
(* How the running configuration is replaced: the file and the Watcher on  *)
(* it (base/io/Watcher.cpp), PUT /1/config (Base::onRequest, Base::reload) *)
(* and the listeners told of the change, of which Httpd rebinds the API's  *)
(* server (base/api/Api.cpp, Httpd.cpp).  The loop is one thread; the      *)
(* operator and the other processes of the machine are not part of it, so  *)
(* they also act between the Watcher's read and its uv_fs_event_start.     *)
(*                                                                         *)
(* A configuration is what the program tells apart here: whether it has a  *)
(* usable pool (ok), the watch option, the API's port (0: disabled), the   *)
(* pools and everything else getJSON saves (set), the options it does not  *)
(* save, "print-time", "debug" and "title" (extra, 0 is the default), and  *)
(* the DNS options, which read() applies at once to the resolver.          *)
(***************************************************************************)
EXTENDS Naturals

CONSTANTS Configs,        \* contents the file or a PUT may have
          Ports,          \* ports the API may be given
          NoFile,         \* the file is missing
          Atomic,         \* the operator replaces the file, never removes it first
          Quiet,          \* nobody writes between the Watcher's read and its restart
          MaxEdits,       \* edits of the file by the operator
          MaxPuts,        \* PUT requests
          PortFree        \* nobody else listens on the API's first port

ConfigsAssumption ==
    /\ NoFile \notin Configs
    /\ 0 \notin Ports
    /\ Configs \subseteq [ok: BOOLEAN, watch: BOOLEAN, http: {0} \cup Ports,
                          set: Nat, extra: Nat, dns: Nat]

VARIABLES file,      \* what the path holds
          conf,      \* BasePrivate::config
          dns,       \* Dns::config()
          watcher,   \* [up, on, seen, timer, busy]: made; attached to the file; event queued; debounce; in reload()
          httpd,     \* "none" before Api::start, "live", or "freed"
          bound,     \* Httpd::m_port, 0: not listening
          taken,     \* ports held by others
          touched,   \* a listener already deleted was called
          edit, put, \* the edit, the accepted PUT not applied yet, or NoFile
          edits, puts

vars == <<file, conf, dns, watcher, httpd, bound, taken, touched, edit, put, edits, puts>>
envVars == <<taken, edits, puts>>

\* BaseConfig::read: one pool at least can be used
Usable(c) == c.ok

Good == {c \in Configs : c.ok}
NoWatcher == [up |-> FALSE, on |-> FALSE, seen |-> FALSE, timer |-> FALSE, busy |-> FALSE]

Init ==
    /\ file \in Good
    /\ conf = file
    /\ dns = file.dns
    /\ watcher = NoWatcher
    /\ httpd = "none" /\ bound = 0
    /\ taken \in IF PortFree THEN {{}} ELSE SUBSET Ports
    /\ touched = FALSE
    /\ edit = NoFile /\ put = NoFile
    /\ edits = 0 /\ puts = 0

-----------------------------------------------------------------------------
(* The API's server *)

\* Httpd::start: the port it listens on afterwards
Bind(c) == IF c.http = 0 \/ c.http \in taken THEN 0 ELSE c.http

\* Api::start keeps the Httpd unless it cannot bind, and then deletes it: it
\* has registered itself with Base, and stays in the list of listeners.
\* Base::start then watches the file.
Start ==
    /\ httpd = "none"
    /\ bound' = Bind(conf)
    /\ httpd' = IF conf.http # 0 /\ conf.http \in taken THEN "freed" ELSE "live"
    /\ watcher' = IF conf.watch THEN [NoWatcher EXCEPT !.up = TRUE, !.on = file # NoFile] ELSE watcher
    /\ UNCHANGED <<file, conf, dns, touched, edit, put, envVars>>

\* BasePrivate::replace: every listener is called, the Httpd rebinds
Replace(c) ==
    /\ conf' = c
    /\ touched' = (touched \/ httpd = "freed")
    /\ bound' = IF httpd = "live" /\ c.http # conf.http THEN Bind(c) ELSE bound

-----------------------------------------------------------------------------
(* The file and its Watcher *)

\* The operator writes the file.  In place the Watcher stays on it; by a rename
\* the Watcher is told, and stays with the file that is gone.
Edit(c, inPlace) ==
    /\ httpd # "none"
    /\ edits < MaxEdits /\ edits' = edits + 1
    /\ watcher.busy => ~Quiet
    /\ file' = c
    /\ watcher' = [watcher EXCEPT !.seen = @ \/ watcher.on, !.on = @ /\ inPlace]
    /\ edit' = IF c.ok /\ watcher.up THEN c ELSE NoFile
    /\ put' = NoFile
    /\ UNCHANGED <<conf, dns, httpd, bound, touched, taken, puts>>

\* The file is removed, to be written again later
Remove ==
    /\ httpd # "none"
    /\ ~Atomic /\ file # NoFile
    /\ watcher.busy => ~Quiet
    /\ file' = NoFile
    /\ watcher' = [watcher EXCEPT !.seen = @ \/ watcher.on, !.on = FALSE]
    /\ edit' = NoFile /\ put' = NoFile
    /\ UNCHANGED <<conf, dns, httpd, bound, touched, envVars>>

\* Watcher::onFsEvent, queueUpdate: the timer is started again
OnFsEvent ==
    /\ watcher.up /\ watcher.seen /\ ~watcher.busy
    /\ watcher' = [watcher EXCEPT !.seen = FALSE, !.timer = TRUE]
    /\ UNCHANGED <<file, conf, dns, httpd, bound, touched, edit, put, envVars>>

\* What save() writes of a configuration
Saved(c) == [c EXCEPT !.extra = 0]

\* A change that waited for the Watcher, once the file has been read
Settled(pending) == IF pending # NoFile /\ Saved(file) = Saved(pending) THEN NoFile ELSE pending

\* Watcher::reload, Base::onFileChanged: a file without a usable pool is
\* refused, after its DNS options were taken over
OnFileChanged ==
    /\ watcher.timer /\ ~watcher.busy
    /\ watcher' = [watcher EXCEPT !.timer = FALSE, !.busy = TRUE]
    /\ dns' = IF file = NoFile THEN dns ELSE file.dns
    /\ IF file # NoFile /\ Usable(file)
       THEN /\ Replace(file)
            /\ edit' = Settled(edit)
            /\ put' = Settled(put)
       ELSE UNCHANGED <<conf, touched, bound, edit, put>>
    /\ UNCHANGED <<file, httpd, envVars>>

\* Bug: the Watcher stays on the file it was started with
BugRestartKeepsHandle ==
    /\ watcher.busy
    /\ watcher' = [watcher EXCEPT !.busy = FALSE]
    /\ UNCHANGED <<file, conf, dns, httpd, bound, touched, edit, put, envVars>>

\* uv_fs_event_stop drops the events not handled yet; uv_fs_event_start fails
\* in silence without a file
Restart ==
    /\ watcher.busy
    /\ watcher' = [watcher EXCEPT !.busy = FALSE, !.seen = FALSE, !.on = file # NoFile]
    /\ UNCHANGED <<file, conf, dns, httpd, bound, touched, edit, put, envVars>>

-----------------------------------------------------------------------------
(* PUT /1/config *)

\* Bug: what was saved is always left to the Watcher
BugPutLeavesAll(c) ==
    /\ bound # 0 /\ ~watcher.busy
    /\ puts < MaxPuts /\ puts' = puts + 1
    /\ dns' = c.dns
    /\ IF ~Usable(c)
       THEN UNCHANGED <<file, conf, touched, bound, watcher, edit, put>>
       ELSE /\ file' = Saved(c)
            /\ watcher' = [watcher EXCEPT !.seen = @ \/ watcher.on]
            /\ edit' = NoFile /\ put' = c
            /\ UNCHANGED <<conf, touched, bound>>
    /\ UNCHANGED <<httpd, taken, edits>>

\* Base::reload.  A configuration saved to a file that is watched is left to
\* the Watcher; any other one is replaced at once.
Put(c) ==
    /\ bound # 0 /\ ~watcher.busy
    /\ puts < MaxPuts /\ puts' = puts + 1
    /\ dns' = c.dns
    /\ IF ~Usable(c)
       THEN UNCHANGED <<file, conf, touched, bound, watcher, edit, put>>
       ELSE \E saved \in BOOLEAN :
              /\ file' = IF saved THEN Saved(c) ELSE file
              /\ watcher' = [watcher EXCEPT !.seen = @ \/ (saved /\ watcher.on)]
              /\ edit' = IF saved THEN NoFile ELSE edit
              /\ IF c.watch /\ watcher.up /\ saved
                 THEN put' = c /\ UNCHANGED <<conf, touched, bound>>
                 ELSE put' = (IF saved THEN NoFile ELSE put) /\ Replace(c)
    /\ UNCHANGED <<httpd, taken, edits>>

\* Another process takes or leaves a port nobody here listens on
Neighbour(p) ==
    /\ ~PortFree /\ bound # p
    /\ taken' = IF p \in taken THEN taken \ {p} ELSE taken \cup {p}
    /\ UNCHANGED <<file, conf, dns, watcher, httpd, bound, touched, edit, put, edits, puts>>

Next ==
    \/ Start
    \/ \E c \in Configs, inPlace \in BOOLEAN : Edit(c, inPlace)
    \/ Remove
    \/ OnFsEvent
    \/ OnFileChanged
    \/ Restart
    \/ \E c \in Configs : Put(c)
    \/ \E p \in Ports : Neighbour(p)

\* The loop runs what is due
Spec == Init /\ [][Next]_vars /\ WF_vars(OnFsEvent) /\ WF_vars(OnFileChanged) /\ WF_vars(Restart)

-----------------------------------------------------------------------------
TypeOK ==
    /\ file \in Configs \cup {NoFile}
    /\ conf \in Good
    /\ dns \in Nat
    /\ watcher \in [up: BOOLEAN, on: BOOLEAN, seen: BOOLEAN, timer: BOOLEAN, busy: BOOLEAN]
    /\ httpd \in {"none", "live", "freed"}
    /\ bound \in Ports \cup {0}
    /\ taken \subseteq Ports
    /\ touched \in BOOLEAN
    /\ edit \in Good \cup {NoFile} /\ put \in Good \cup {NoFile}
    /\ edits \in 0..MaxEdits /\ puts \in 0..MaxPuts

\* However the configuration was replaced, the API never listens on a port the
\* running configuration does not name, nor while it is disabled, and one that is
\* enabled is down only for a port somebody else held when it was bound.
ApiWhereConfigured ==
    httpd # "none" =>
      /\ bound \in {0, conf.http}
      /\ (conf.http # 0 /\ PortFree) => bound = conf.http

\* A change that is said to wait for the Watcher has the Watcher told: the file
\* holds it, and an event, the timer or the restart is still to come.
WaitsForReload ==
    \A c \in {edit, put} \ {NoFile} :
        /\ Saved(file) = Saved(c)
        /\ watcher.seen \/ watcher.timer

\* What the operator writes to the watched file becomes the running configuration
\* in the end, unless it is written over first.
EditApplied == edit = NoFile

\* What a PUT was answered 204 for becomes the running configuration in the end,
\* unless the file is written over first.
PutApplied == put = NoFile
=============================================================================
