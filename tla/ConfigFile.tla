----------------------------- MODULE ConfigFile -----------------------------
(***************************************************************************)
(* How the command line and the files become a configuration, and what of  *)
(* it is kept when it is saved: BaseTransform, JsonChain, Config, Pools    *)
(* and Pool.                                                               *)
(*                                                                         *)
(* A document has two scalars, the object http and the array of pools.     *)
(* "none" is a key that is absent.  An option is a pair of its key and its *)
(* argument.  t is the transformation at work (doc, the document it fills; *)
(* algo, m_algorithm; http, m_http; chain, the documents done), line the   *)
(* options it went through; cfg the configuration that was read, and again *)
(* what is read from the file after cfg was saved, or saved and edited.    *)
(***************************************************************************)
EXTENDS Integers, Sequences, SequencesExt, FiniteSets, FiniteSetsExt

CONSTANTS Options,    \* the options a line may have
          MaxOptions, \* bound of the options of a line
          File,       \* the document --config names
          Default,    \* config.json next to the program, Empty if there is none
          Edits,      \* what may be changed in the first pool of a saved file
          Unsigned,   \* the values that are numbers, by their digits,
          Negative    \* and those below zero

OptionsAssumption == MaxOptions \in Nat /\ Unsigned \cap Negative = {} /\ "none" \notin Unsigned \cup Negative

VARIABLES t, line, cfg, again,
          stage,  \* "line", then "read" or "refused"
          how     \* "no", then "saved" or the key that was edited

vars == <<t, line, cfg, again, stage, how>>

PoolKeys == {"url", "user", "pass", "algo", "tls", "daemon", "zmq", "poll", "enabled"}
HttpKeys == {"enabled", "port", "token", "restricted"}
Scalars  == {"retries", "print-time"}

NoPool == [k \in PoolKeys |-> "none"]
NoHttp == [k \in HttpKeys |-> "none"]
Absent(k) == CASE k = "pools" -> <<>> [] k = "http" -> NoHttp [] OTHER -> "none"
Empty     == [k \in Scalars \union {"http", "pools"} |-> Absent(k)]

Init == /\ t = [doc |-> Empty, algo |-> "none", http |-> FALSE, chain |-> <<>>]
        /\ line = <<>> /\ cfg = Empty /\ again = Empty /\ stage = "line" /\ how = "no"

---------------------------------------------------------------------------
(* add(): into the last element of the array, made when there is none.     *)
Add(doc, k, v) ==
    IF doc.pools = <<>> THEN [doc EXCEPT !.pools = <<[NoPool EXCEPT ![k] = v]>>]
    ELSE [doc EXCEPT !.pools[Len(doc.pools)][k] = v]

SetHttp(doc, k, v) ==
    [doc EXCEPT !.http[k] = v]

(* --url: a new element, unless the last one has no url yet.               *)
Url(doc, u) ==
    IF doc.pools = <<>> \/ doc.pools[Len(doc.pools)].url = "none" THEN Add(doc, "url", u)
    ELSE [doc EXCEPT !.pools = Append(@, [NoPool EXCEPT !.url = u])]

Chained(chain, doc) == IF doc = Empty THEN chain ELSE Append(chain, doc)

(* The options without an argument, and those with a number.               *)
TransformBoolean(x, o) ==
    CASE o[1] \in {"tls", "daemon"} -> [x EXCEPT !.doc = Add(@, o[1], o[2])]
      [] o[1] = "restricted"        -> [x EXCEPT !.doc = SetHttp(@, o[1], o[2]), !.http = TRUE]
      [] o[1] = "enabled"           -> [x EXCEPT !.http = TRUE]

TransformUint64(x, o) ==
    CASE o[1] \in {"zmq", "poll"} -> [x EXCEPT !.doc = Add(@, o[1], o[2])]
      [] o[1] \in Scalars         -> [x EXCEPT !.doc[o[1]] = o[2]]
      [] o[1] = "port"            -> [x EXCEPT !.doc = SetHttp(@, o[1], o[2]), !.http = TRUE]

(* load() and transform() of one option.                                   *)
Transformed(x, o) ==
    CASE o[1] = "config" ->
             [x EXCEPT !.chain = Chained(Chained(@, x.doc), File), !.doc = Empty]
      [] o[1] = "algo" -> IF x.doc.pools = <<>> THEN [x EXCEPT !.algo = o[2]]
                          ELSE [x EXCEPT !.doc = Add(@, o[1], o[2])]
      [] o[1] = "url" -> [x EXCEPT !.doc = Url(@, o[2])]
      [] o[1] \in {"user", "pass"} -> [x EXCEPT !.doc = Add(@, o[1], o[2])]
      [] o[1] = "token" -> [x EXCEPT !.doc = SetHttp(@, o[1], o[2]), !.http = TRUE]
      [] o[1] \in {"tls", "daemon", "restricted", "enabled"} -> TransformBoolean(x, o)
      [] o[1] \in Scalars \union {"zmq", "poll", "port"} -> TransformUint64(x, o)

(* finalize().                                                             *)
Finalized(x) ==
    LET doc   == IF x.algo = "none" \/ x.doc.pools = <<>> THEN x.doc
                 ELSE [x.doc EXCEPT !.pools =
                           [i \in DOMAIN @ |-> IF @[i].algo = "none" THEN [@[i] EXCEPT !.algo = x.algo]
                                               ELSE @[i]]]
        final == IF x.http THEN SetHttp(doc, "enabled", "yes") ELSE doc
    IN  Chained(x.chain, final)

---------------------------------------------------------------------------

(* JsonChain: the last document that has the key.                          *)
Get(chain, k) ==
    LET S == {i \in DOMAIN chain : chain[i][k] # Absent(k)}
    IN  IF S = {} THEN Absent(k) ELSE chain[Max(S)][k]

(* A value of another kind than its key asks for counts as none.           *)
GetBool(v, d) == IF v \in {"yes", "no"} THEN v ELSE d
GetInt(v, d)  == IF v \in Unsigned \cup Negative THEN v ELSE d
GetUint(v, d) == IF v \in Unsigned THEN v ELSE d

(* Pool(object) and its defaults; a value that makes no sense is not taken.*)
ReadPool(p) ==
    [url |-> p.url, user |-> p.user, pass |-> p.pass, algo |-> p.algo,
     tls |-> GetBool(p.tls, "no"), daemon |-> GetBool(p.daemon, "no"),
     zmq |-> GetInt(p.zmq, "-1"), poll |-> GetUint(p.poll, "1000"), enabled |-> GetBool(p.enabled, "yes")]

(* The kind of client that works for a pool.                               *)
CreateClient(p) == IF p.daemon = "yes" THEN "DaemonClient" ELSE "Client"

(* Pools::load(): elements without a url are left out.                     *)
ReadPools(ps) ==
    LET valid == SelectSeq(ps, LAMBDA p : p.url # "none")
    IN  [i \in DOMAIN valid |-> ReadPool(valid[i])]

ReadHttp(h) ==
    [enabled |-> GetBool(h.enabled, "no"),
     port    |-> LET port == GetInt(h.port, "0") IN IF port \in Negative THEN "0" ELSE port,
     token   |-> h.token, restricted |-> GetBool(h.restricted, "yes")]

Valid(k, v) == CASE k = "retries"    -> GetInt(v, "0") \notin {"0"} \cup Negative
                 [] k = "print-time" -> GetUint(v, "none") # "none"
Standard(k) == CASE k = "retries" -> "2" [] k = "print-time" -> "60"

Read(chain) ==
    [k \in Scalars \union {"http", "pools"} |->
        CASE k = "pools" -> ReadPools(Get(chain, k))
          [] k = "http"  -> ReadHttp(Get(chain, k))
          [] OTHER       -> IF Valid(k, Get(chain, k)) THEN Get(chain, k) ELSE Standard(k)]

(* isEnabled(), and the pools that active() counts.                        *)
IsEnabled(p) == p.enabled = "yes" /\ p.url # "none"
Active(c)    == {i \in DOMAIN c.pools : IsEnabled(c.pools[i])}

\* bug: a pool's password is left out whatever it is
BugSavedPool(p) ==
    LET daemon == p.daemon = "yes" IN
    [p EXCEPT !.pass = "none",
              !.poll = IF daemon THEN @ ELSE "none",
              !.zmq  = IF daemon THEN @ ELSE "none"]

(* toJSON(): a daemon keeps its own options, a pool the others.            *)
SavedPool(p) ==
    LET daemon == p.daemon = "yes" IN
    [p EXCEPT !.pass = IF daemon THEN "none" ELSE @,
              !.poll = IF daemon THEN @ ELSE "none",
              !.zmq  = IF daemon THEN @ ELSE "none"]

(* Pools::toJSON() and getJSON().                                          *)
SavedPools(c) == [pools |-> [i \in DOMAIN c.pools |-> SavedPool(c.pools[i])], retries |-> c.retries]

Saved(c) == [k \in Scalars \union {"http", "pools"} |->
                CASE k \in {"pools", "retries"} -> SavedPools(c)[k]
                  [] k = "print-time"           -> "none"
                  [] OTHER                      -> c[k]]

(* Pool::isEqual().                                                        *)
Equal(p, q) == \A k \in PoolKeys \ {"zmq"} : p[k] = q[k]

PoolsEqual(c, d) == /\ Len(c.pools) = Len(d.pools) /\ c.retries = d.retries
                    /\ \A i \in DOMAIN c.pools : Equal(c.pools[i], d.pools[i])

---------------------------------------------------------------------------
Option(o) ==
    /\ stage = "line" /\ Len(line) < MaxOptions
    /\ line' = Append(line, o) /\ t' = Transformed(t, o)
    /\ UNCHANGED <<cfg, again, stage, how>>

(* A configuration without a pool that is enabled is not taken:            *)
(* config.json is added to what there is, and so goes before the line.     *)
Load ==
    /\ stage = "line"
    /\ LET chain == Finalized(t)
           more  == Chained(chain, Default)
       IN  cfg' = Read(IF Active(Read(chain)) # {} THEN chain ELSE more)
    /\ stage' = IF Active(cfg') # {} THEN "read" ELSE "refused"
    /\ UNCHANGED <<t, line, again, how>>

Save ==
    /\ stage = "read" /\ how = "no"
    /\ again' = Read(<<Saved(cfg)>>)
    /\ how' = "saved"
    /\ UNCHANGED <<t, line, cfg, stage>>

(* Somebody changes a pool in the file.                                    *)
Edit(e) ==
    /\ stage = "read" /\ how = "no"
    /\ again' = Read(<<[Saved(cfg) EXCEPT !.pools[1][e[1]] = e[2]]>>)
    /\ how' = e[1]
    /\ UNCHANGED <<t, line, cfg, stage>>

Next == (\E o \in Options : Option(o)) \/ Load \/ Save \/ \E e \in Edits : Edit(e)
Spec == Init /\ [][Next]_vars

---------------------------------------------------------------------------
IsPool(p) == DOMAIN p = PoolKeys /\ p.url # "none"

TypeOK == /\ Len(line) <= MaxOptions /\ DOMAIN t.doc = DOMAIN Empty
          /\ \A c \in {cfg, again} :
                DOMAIN c = DOMAIN Empty /\ \A i \in DOMAIN c.pools : IsPool(c.pools[i])
          /\ stage \in {"line", "read", "refused"} /\ how \in {"no", "saved"} \union PoolKeys

Uses(k)   == {i \in DOMAIN line : line[i][1] = k}
LastArg(k, S) == IF Uses(k) \intersect S = {} THEN "none" ELSE line[Max(Uses(k) \intersect S)][2]

(* A line with one pool means the same in whatever order its options come: *)
(* each field of the pool is what its last option says.                    *)
FreeOrder ==
    stage = "read" /\ Uses("config") = {} /\ Cardinality(Uses("url")) = 1 =>
        \A k \in PoolKeys : LastArg(k, DOMAIN line) # "none" => cfg.pools[1][k] = LastArg(k, DOMAIN line)

(* With several pools an option is its pool's: of the last url before it,  *)
(* or of the first where there is none before it.                          *)
Segment(i) == LET us == SetToSortSeq(Uses("url"), <)
              IN  (IF i = 1 THEN 1 ELSE us[i]) .. (IF i = Len(us) THEN Len(line) ELSE us[i + 1] - 1)

OwnOptions ==
    stage = "read" /\ Uses("config") = {} /\ Uses("url") # {} =>
        /\ Len(cfg.pools) = Cardinality(Uses("url"))
        /\ \A i \in DOMAIN cfg.pools, k \in PoolKeys \ {"algo"} :
              cfg.pools[i][k] = ReadPool([NoPool EXCEPT ![k] = LastArg(k, Segment(i))])[k]

(* An algorithm is taken from no other pool than its own, or from the line *)
(* before the first pool.                                                  *)
AlgoOfPool ==
    stage = "read" /\ Uses("config") = {} /\ Uses("url") # {} =>
        \A i \in DOMAIN cfg.pools :
            LET own == LastArg("algo", Segment(i)) IN
            IF own # "none" THEN cfg.pools[i].algo = own
            ELSE cfg.pools[i].algo \in {"none"} \union {line[j][2] : j \in Uses("algo") \intersect Segment(1)}

(* What is read last counts: an option that follows every --config, of a   *)
(* line that names a pool itself.                                          *)
LaterCounts ==
    stage = "read" /\ Uses("url") # {} /\ (\A i \in Uses("url"), j \in Uses("config") : i > j) =>
        /\ \A i \in Uses("retries") :
              (\A j \in Uses("retries") \union Uses("config") : j <= i) /\ Valid("retries", line[i][2])
                  => cfg.retries = line[i][2]
        /\ \A k \in {"port", "token", "restricted"} : \A i \in Uses(k) :
              (\A j \in Uses(k) \union Uses("config") : j <= i)
                  => cfg.http[k] = line[i][2] /\ cfg.http.enabled = "yes"

(* Saving loses nothing that a pool of its kind works with.                *)
Needed(p) == IF CreateClient(p) = "DaemonClient" THEN PoolKeys \ {"pass"} ELSE PoolKeys \ {"zmq", "poll"}

SavedServes ==
    how = "saved" =>
        /\ Len(again.pools) = Len(cfg.pools) /\ again.http = cfg.http /\ again.retries = cfg.retries
        /\ \A i \in DOMAIN cfg.pools : \A k \in Needed(cfg.pools[i]) : again.pools[i][k] = cfg.pools[i][k]

(* An edit of what a pool of its kind works with is seen when the file is  *)
(* read again, or the strategy is not made anew; but for daemon-zmq-port,  *)
(* which isEqual() does not compare: after an edit of that alone a daemon  *)
(* keeps the feed it has.                                                  *)
EditSeen ==
    how \notin {"no", "saved"} /\ how \in Needed(again.pools[1])
        /\ again.pools[1][how] # cfg.pools[1][how] => ~PoolsEqual(cfg, again) \/ how = "zmq"
=============================================================================
