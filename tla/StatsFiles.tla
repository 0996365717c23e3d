----------------------------- MODULE StatsFiles -----------------------------
(***************************************************************************)
(* The files of the statistics directory.  Every cycle the exporter of     *)
(* aterxdaemon.py removes old ones, asks the web application for new       *)
(* statistics and stores the answer, removes what is too short to be       *)
(* whole, and writes what the log of p2pool says of the pool's shares; the *)
(* application reads the same files while it does: shares.json and         *)
(* shares_window for the statistics themselves, the stored answers for the *)
(* graph.  A file is written by opening it, which empties it, and closing. *)
(*                                                                         *)
(* A cycle makes one file at most, so that its age in cycles names it.     *)
(***************************************************************************)
EXTENDS Integers, FiniteSets

CONSTANTS Old,        \* cycles after which a file is removed: 910
          MaxCrashes  \* bound: how often the daemon dies

FilesAssumption == Old \in Nat /\ Old > 0 /\ MaxCrashes \in Nat

Ages == 0..(Old + 1)

VARIABLES pc,       \* "idle", "old", "download", "store", "broken", "parse", "shares", "window", "fill"
          latest,   \* by age: "none", "empty", "whole"
          shares,   \* shares.json, a short file even when it is whole
          window,   \* shares_window
          log,      \* the log has the lines that p2pool answers "status" with
          graph,    \* files a request for the graph has still to read
          answer,   \* what the last such request got: "none", "ok", "fail"
          reading,  \* there is one
          overlap,  \* ... and the exporter has worked since it began
          dirty,    \* the daemon has died since files were last cleaned
          parsed,   \* the last pass that came so far found the lines in the log
          crashes

vars == <<pc, latest, shares, window, log, graph, answer, reading, overlap, dirty, parsed, crashes>>
app  == <<graph, answer, reading>>

Init == /\ pc = "idle" /\ latest = [a \in Ages |-> "none"] /\ shares = "none" /\ window = "none"
        /\ log \in BOOLEAN /\ graph = {} /\ answer = "none" /\ reading = FALSE /\ overlap = FALSE
        /\ dirty = FALSE /\ parsed = FALSE /\ crashes = 0

Works == overlap' = reading
Present(a) == latest[a] # "none"

---------------------------------------------------------------------------
(* A cycle: every file is older by one; those past the limit are one.      *)
Cycle == /\ pc = "idle" /\ pc' = "old" /\ Works
         /\ latest' = [a \in Ages |-> IF a = 0 THEN "none"
                                      ELSE IF a = Old + 1 /\ Present(a) THEN latest[a] ELSE latest[a - 1]]
         /\ graph' = {IF a = Old + 1 THEN a ELSE a + 1 : a \in graph}
         /\ UNCHANGED <<shares, window, log, answer, reading, dirty, parsed, crashes>>

TooOld(a) == a > Old

(* _cleanup_old_stats                                                      *)
RemoveOld == /\ pc = "old" /\ pc' = "download" /\ Works
             /\ latest' = [a \in Ages |-> IF TooOld(a) THEN "none" ELSE latest[a]]
             /\ UNCHANGED <<shares, window, log, app, dirty, parsed, crashes>>

(* /1/stats needs both files, and more that may fail.                      *)
StatsAnswer == shares = "whole" /\ window = "whole"

(* _download_latest_stats: an error leaves no file.                        *)
Download == /\ pc = "download" /\ Works
            /\ \/ StatsAnswer /\ pc' = "store" /\ latest' = [latest EXCEPT ![0] = "empty"]
               \/ pc' = "broken" /\ UNCHANGED latest
            /\ UNCHANGED <<shares, window, log, app, dirty, parsed, crashes>>
Store == /\ pc = "store" /\ pc' = "broken" /\ Works
         /\ latest' = [latest EXCEPT ![0] = "whole"]
         /\ UNCHANGED <<shares, window, log, app, dirty, parsed, crashes>>

Short(state) == state = "empty"

(* _cleanup_broken_stats: every *.json under 300 bytes, and shares.json is *)
(* never longer.                                                           *)
RemoveBroken == /\ pc = "broken" /\ pc' = "parse" /\ Works
                /\ latest' = [a \in Ages |-> IF Short(latest[a]) THEN "none" ELSE latest[a]]
                /\ shares' = "none" /\ dirty' = FALSE
                /\ UNCHANGED <<window, log, app, parsed, crashes>>

(* _parse_p2pool_log: what the log does not say is not written.            *)
SharesBecome(state) == state

Parse == /\ pc = "parse" /\ Works
         /\ IF log THEN pc' = "shares" /\ shares' = "empty" ELSE pc' = "idle" /\ UNCHANGED shares
         /\ parsed' = log
         /\ UNCHANGED <<latest, window, log, app, dirty, crashes>>
Shares == /\ pc = "shares" /\ pc' = "window" /\ shares' = SharesBecome("whole") /\ Works
          /\ UNCHANGED <<latest, window, log, app, dirty, parsed, crashes>>
OpenWindow == /\ pc = "window" /\ pc' = "fill" /\ window' = "empty" /\ Works
              /\ UNCHANGED <<latest, shares, log, app, dirty, parsed, crashes>>
Window == /\ pc = "fill" /\ pc' = "idle" /\ window' = "whole" /\ Works
          /\ UNCHANGED <<latest, shares, log, app, dirty, parsed, crashes>>

(* p2pool appends the lines, its log is rotated.                           *)
Logged  == ~log /\ log' = TRUE /\ UNCHANGED <<pc, latest, shares, window, app, overlap, dirty, parsed, crashes>>
Rotated == log /\ log' = FALSE /\ UNCHANGED <<pc, latest, shares, window, app, overlap, dirty, parsed, crashes>>

(* The daemon is killed; the next one begins with a cycle.                 *)
Crash == /\ pc # "idle" /\ crashes < MaxCrashes /\ crashes' = crashes + 1
         /\ pc' = "idle" /\ dirty' = TRUE
         /\ UNCHANGED <<latest, shares, window, log, app, overlap, parsed>>

---------------------------------------------------------------------------
(* json_graph_stats(): the names first, then one file after the other.     *)
GraphAsked == /\ ~reading /\ reading' = TRUE /\ answer' = "none" /\ overlap' = (pc # "idle")
              /\ graph' = {a \in Ages : Present(a)}
              /\ UNCHANGED <<pc, latest, shares, window, log, dirty, parsed, crashes>>
GraphRead == /\ reading
             /\ \E a \in graph :
                  /\ graph' = IF latest[a] = "whole" THEN graph \ {a} ELSE {}
                  /\ answer' = IF latest[a] = "whole" THEN "none" ELSE "fail"
                  /\ reading' = (latest[a] = "whole")
             /\ UNCHANGED <<pc, latest, shares, window, log, overlap, dirty, parsed, crashes>>
GraphDone == /\ reading /\ graph = {} /\ reading' = FALSE /\ answer' = "ok"
             /\ UNCHANGED <<pc, latest, shares, window, log, graph, overlap, dirty, parsed, crashes>>

Exporter == \/ Cycle \/ RemoveOld \/ Download \/ Store \/ RemoveBroken \/ Parse \/ Shares \/ OpenWindow \/ Window
Next == Exporter \/ Logged \/ Rotated \/ Crash \/ GraphAsked \/ GraphRead \/ GraphDone
Spec == Init /\ [][Next]_vars

---------------------------------------------------------------------------
TypeOK == /\ pc \in {"idle", "old", "download", "store", "broken", "parse", "shares", "window", "fill"}
          /\ latest \in [Ages -> {"none", "empty", "whole"}]
          /\ {shares, window} \subseteq {"none", "empty", "whole"}
          /\ {log, reading, overlap, dirty, parsed} \subseteq BOOLEAN /\ graph \subseteq Ages
          /\ answer \in {"none", "ok", "fail"} /\ crashes \in 0..MaxCrashes

(* A graph is refused only to a request that the exporter worked beside,   *)
(* or after the daemon died over a file.                                   *)
GraphFailsBeside == GraphRead /\ answer' = "fail" => overlap \/ dirty

(* The exporter finds the statistics it asks for: shares.json, which every *)
(* cycle removes, is there again when the next one asks, as long as the    *)
(* log says what it needs.                                                 *)
StatsFound == pc = "download" /\ parsed /\ ~dirty => StatsAnswer

(* No file is kept for longer than the limit, however often a pass is cut  *)
(* short, so that the graph has no more than Old + 1 points.               *)
FilesBounded == pc \notin {"idle", "old"} => Cardinality({a \in Ages : Present(a)}) <= Old + 1

(* What a dying daemon left half written outlives no cycle but those that  *)
(* were cut short as well.                                                 *)
BrokenGo == \A a \in Ages : latest[a] = "empty" => a <= crashes
=============================================================================
