----------------------------- MODULE ShareTrail -----------------------------
(***************************************************************************)
(* The pplns trail: one Redis list s_<wallet> of accepted shares per       *)
(* wallet.  The Recorder inside the proxy appends to the lists, and the    *)
(* cleaner (a task of aterxdaemon.py, or cleaner.py from cron), another    *)
(* process, trims them.  Every Redis command is atomic; between two        *)
(* commands of one process the other one may run.                          *)
(*                                                                         *)
(* A tick stands for hours: time does not pass between the commands of one *)
(* share or of one cleaning pass.                                          *)
(***************************************************************************)
EXTENDS Integers, Sequences, FiniteSets, FiniteSetTheorems, SequenceTheorems,
        WellFoundedInduction, TLAPS

CONSTANTS Users,      \* wallets with a valid address
          Keep,       \* age, in ticks, up to which a share is kept (18 hours)
          Window,     \* age at which a share stops to count for a block (6 h)
          MaxShares,  \* bound: shares accepted
          MaxTime,    \* bound: the clock
          MaxPasses   \* bound: cleaning passes

AgesAssumption   == /\ Keep \in Nat /\ Window \in Nat
                    /\ Window <= Keep
TrailBounds == /\ MaxShares \in Nat /\ MaxTime \in Nat /\ MaxPasses \in Nat

VARIABLES
    now,        \* the wall clock
    trail,      \* the keys s_<wallet> there are, each a sequence of shares
    connected,  \* rdCtx is usable
    share,      \* the share being recorded: [user, id, ts], or NoShare
    step,       \* the next command of the Recorder
    pc,         \* the next command of the cleaner
    todo,       \* the keys the pass has not finished
    user,       \* the key the pass is at
    count,      \* s_count read by the first arrlen
    last,       \* last_found + 1: how many leading shares are too old
    passes,     \* cleaning passes so far
    accepted,   \* history: shares Redis said it appended
    raced       \* history: shares appended while the cleaner was at their key

recVars   == <<share, step, connected>>
cleanVars == <<pc, todo, user, count, last, passes>>
histVars  == <<accepted, raced>>
vars      == <<now, trail, recVars, cleanVars, histVars>>

NoShare == [user |-> "none", id |-> 0, ts |-> 0]

Exists(u)   == u \in DOMAIN trail
OnTrail(u)  == IF Exists(u) THEN {trail[u][i] : i \in DOMAIN trail[u]} ELSE {}
NextId      == Cardinality(accepted) + 1

TooOld(ts) == now - ts > Keep

Init ==
    /\ now = 0
    /\ trail = [u \in {} |-> <<>>]
    /\ connected = TRUE
    /\ share = NoShare /\ step = "idle"
    /\ pc = "idle" /\ todo = {} /\ user = "none" /\ count = 0 /\ last = 0
    /\ passes = 0
    /\ accepted = {} /\ raced = {}

Tick == /\ now < MaxTime
        /\ step = "idle" /\ pc = "idle"
        /\ now' = now + 1
        /\ UNCHANGED <<trail, recVars, cleanVars, histVars>>
-----------------------------------------------------------------------------
(* Recorder::accept, then the commands of add_share_to_redis.              *)

Accept(u) ==
    /\ step = "idle"
    /\ NextId <= MaxShares
    /\ share' = [user |-> u, id |-> NextId, ts |-> now]
    /\ step' = "append"
    /\ UNCHANGED <<now, trail, connected, cleanVars, histVars>>

DoneRecording == share' = NoShare /\ step' = "idle"

\* bug: the newest share comes first
AppendedInFront ==
    /\ trail' = [trail EXCEPT ![share.user] = <<share>> \o @]
    /\ accepted' = accepted \union {share}
    /\ raced' = IF pc # "idle" /\ user = share.user
                THEN raced \union {share} ELSE raced
    /\ DoneRecording

Appended ==
    /\ trail' = [trail EXCEPT ![share.user] = Append(@, share)]
    /\ accepted' = accepted \union {share}
    /\ raced' = IF pc # "idle" /\ user = share.user
                THEN raced \union {share} ELSE raced
    /\ DoneRecording

(* JSON.ARRAPPEND fails when there is no key yet.                          *)
AppendShare ==
    /\ step = "append" /\ connected
    /\ \/ /\ Exists(share.user)
          /\ Appended
       \/ /\ ~Exists(share.user)
          /\ step' = "create"
          /\ UNCHANGED <<trail, share, histVars>>
    /\ UNCHANGED <<now, connected, cleanVars>>

(* JSON.SET s_<user> $ '[]'                                                *)
CreateKey ==
    /\ step = "create" /\ connected
    /\ trail' = [u \in DOMAIN trail \union {share.user} |->
                    IF u = share.user THEN <<>> ELSE trail[u]]
    /\ step' = "again"
    /\ UNCHANGED <<now, share, connected, cleanVars, histVars>>

(* The second JSON.ARRAPPEND; when it fails too the share is only logged.  *)
AppendAgain ==
    /\ step = "again" /\ connected
    /\ \/ /\ Exists(share.user)
          /\ Appended
       \/ /\ ~Exists(share.user)
          /\ DoneRecording
          /\ UNCHANGED <<trail, histVars>>
    /\ UNCHANGED <<now, connected, cleanVars>>

(* The connection breaks.  Nothing opens it again: the constructor is the  *)
(* only place that connects.                                               *)
LoseRedis == /\ connected
             /\ connected' = FALSE
             /\ UNCHANGED <<now, trail, share, step, cleanVars, histVars>>

(* Every command on a broken connection returns NULL.                      *)
RecordNothing == /\ step # "idle" /\ ~connected
                 /\ DoneRecording
                 /\ UNCHANGED <<now, trail, connected, cleanVars, histVars>>

Record == \/ \E u \in Users : Accept(u)
          \/ AppendShare \/ CreateKey \/ AppendAgain
          \/ LoseRedis \/ RecordNothing
-----------------------------------------------------------------------------
(* CleanerTask._run_cleaner                                                *)

(* keys("s_*")                                                             *)
StartPass ==
    /\ pc = "idle" /\ passes < MaxPasses
    /\ passes' = passes + 1
    /\ todo' = DOMAIN trail
    /\ pc' = IF todo' = {} THEN "idle" ELSE "count"
    /\ user' = IF todo' = {} THEN "none" ELSE CHOOSE u \in todo' : TRUE
    /\ UNCHANGED <<now, trail, recVars, count, last, histVars>>

(* The first arrlen.                                                       *)
ReadCount ==
    /\ pc = "count"
    /\ count' = Len(trail[user])
    /\ pc' = "times"
    /\ UNCHANGED <<now, trail, recVars, todo, user, last, passes, histVars>>

(* The timestamps, and the leading ones that are too old.                  *)
ReadTimes ==
    /\ pc = "times"
    /\ last' = CHOOSE n \in 0 .. Len(trail[user]) :
                  /\ \A i \in 1 .. n : TooOld(trail[user][i].ts)
                  /\ n < Len(trail[user]) => ~TooOld(trail[user][n + 1].ts)
    /\ pc' = IF last' = 0 THEN "check" ELSE "trim"
    /\ UNCHANGED <<now, trail, recVars, todo, user, count, passes, histVars>>

\* bug: one too many is kept
TrimOneLess ==
    /\ pc = "trim"
    /\ trail' = [trail EXCEPT ![user] = SubSeq(@, last, count)]
    /\ pc' = "check"
    /\ UNCHANGED <<now, recVars, todo, user, count, last, passes, histVars>>

(* arrtrim to the shares last_found + 1 .. s_count - 1, counted from 0.    *)
Trim ==
    /\ pc = "trim"
    /\ trail' = [trail EXCEPT ![user] = SubSeq(@, last + 1, count)]
    /\ pc' = "check"
    /\ UNCHANGED <<now, recVars, todo, user, count, last, passes, histVars>>

NextKey ==
    /\ todo' = todo \ {user}
    /\ IF todo' = {} THEN pc' = "idle" /\ user' = "none"
                     ELSE pc' = "count" /\ user' = CHOOSE u \in todo' : TRUE

(* The second arrlen.                                                      *)
CheckEmpty ==
    /\ pc = "check"
    /\ IF Len(trail[user]) = 0
       THEN pc' = "forget" /\ UNCHANGED <<todo, user>>
       ELSE NextKey
    /\ UNCHANGED <<now, trail, recVars, count, last, passes, histVars>>

Forget ==
    /\ pc = "forget"
    /\ trail' = [u \in DOMAIN trail \ {user} |-> trail[u]]
    /\ NextKey
    /\ UNCHANGED <<now, recVars, count, last, passes, histVars>>

(* The cleaner is killed, or Redis raises and the pass is given up.        *)
Abort ==
    /\ pc # "idle"
    /\ pc' = "idle" /\ todo' = {} /\ user' = "none"
    /\ UNCHANGED <<now, trail, recVars, count, last, passes, histVars>>

Clean == \/ StartPass \/ ReadCount \/ ReadTimes \/ Trim \/ CheckEmpty
         \/ Forget \/ Abort

Next == Tick \/ Record \/ Clean

Spec == Init /\ [][Next]_vars
-----------------------------------------------------------------------------
Shares == [user : Users, id : 1 .. MaxShares, ts : 0 .. MaxTime]

(* Every variable keeps its type; a list holds only shares of its wallet.  *)
TypeOK ==
    /\ now \in 0 .. MaxTime
    /\ DOMAIN trail \subseteq Users
    /\ \A u \in Users : \A s \in OnTrail(u) : s \in Shares /\ s.user = u
    /\ share \in Shares \union {NoShare}
    /\ step \in {"idle", "append", "create", "again"}
    /\ pc \in {"idle", "count", "times", "trim", "check", "forget"}
    /\ todo \subseteq Users /\ user \in Users \union {"none"}
    /\ count \in 0 .. MaxShares /\ last \in 0 .. MaxShares
    /\ accepted \subseteq Shares /\ raced \subseteq accepted

(* The cleaner may stop at the first share that is young enough because a  *)
(* list is in the order of its timestamps, whatever was lost in between.   *)
TrailInOrder ==
    \A u \in Users : Exists(u) =>
        \A i, k \in DOMAIN trail[u] :
            i < k => trail[u][i].ts <= trail[u][k].ts /\ trail[u][i].id < trail[u][k].id

(* What the reward splitter counts for a block found at time b.            *)
InWindow(s, b) == s.ts < b /\ b - s.ts < Window

(* A block may be split up to Keep - Window ticks after it was found (12   *)
(* hours, and it unlocks after about two): every accepted share of its     *)
(* window is still there then, except those that were appended while the   *)
(* cleaner was at their list.                                              *)
WindowIntact ==
    \A b \in 0 .. now : now - b <= Keep - Window =>
        \A s \in accepted \ raced : InWindow(s, b) => s \in OnTrail(s.user)

(* A pass that reaches the end of a list leaves no share in it that is     *)
(* older than Keep, and drops the key of an empty list.                    *)
KeyFinished(u) == u \in todo /\ u \notin todo' /\ pc # "idle" /\
                  (CheckEmpty \/ Forget)
PassRemovesOld ==
    \A u \in Users : KeyFinished(u) => \A s \in OnTrail(u)' : ~TooOld(s.ts)

(* README_aterxdaemon.md:124 says the cleaner "cleans old shares from      *)
(* Redis (>18 hours old)": a share that Redis has appended leaves its list *)
(* only when it is too old.                                                *)
OnlyOldSharesDropped ==
    \A u \in Users : \A s \in OnTrail(u) \ OnTrail(u)' : TooOld(s.ts)
-----------------------------------------------------------------------------
(* Proofs, for every set of wallets, every age and every bound.            *)
(*                                                                         *)
(* The inductive invariant.  WindowIntact is about what left a list some   *)
(* time ago and is not inductive: that a share leaves by age or by the     *)
(* race alone (OldOrRaced) has to be kept, and it is, because of what the  *)
(* cleaner knows of the list it is at (CleanerKnows).                      *)

(* A list holds shares that were accepted, the k-th of them numbered at    *)
(* least k.                                                                *)
Lists ==
    \A u \in DOMAIN trail :
        /\ u \in Users
        /\ trail[u] \in Seq(Shares)
        /\ \A i \in 1 .. Len(trail[u]) :
             trail[u][i] \in accepted /\ trail[u][i].user = u /\ trail[u][i].id >= i

(* The shares are numbered as they are accepted, on a clock that only goes *)
(* forward.                                                                *)
Counted == /\ IsFiniteSet(accepted) /\ accepted \subseteq Shares /\ raced \subseteq accepted
           /\ \A s \in accepted : s.id <= Cardinality(accepted) /\ s.ts <= now

(* The share being recorded has the next number and is of this moment.     *)
Recording ==
    IF step = "idle" THEN share = NoShare
    ELSE /\ share \in Shares /\ share.id = NextId /\ share.ts = now
         /\ step = "create" => ~Exists(share.user)

(* The keys that a pass has not finished are there.                        *)
KeysThere == pc # "idle" => user \in todo /\ todo \subseteq DOMAIN trail

(* What the cleaner has read of its list is still so, but for the shares   *)
(* that were appended since, which are in raced.                           *)
CleanerKnows ==
    /\ pc \in {"times", "trim"} =>
         /\ count <= Len(trail[user])
         /\ \A i \in 1 .. Len(trail[user]) : i > count => trail[user][i] \in raced
    /\ pc = "trim" =>
         /\ last <= Len(trail[user])
         /\ \A i \in 1 .. Len(trail[user]) : TooOld(trail[user][i].ts) <=> i <= last
    /\ pc = "check" => \A i \in 1 .. Len(trail[user]) : ~TooOld(trail[user][i].ts)
    /\ pc = "forget" => \A i \in 1 .. Len(trail[user]) : trail[user][i] \in raced

OldOrRaced == \A s \in accepted \ raced : TooOld(s.ts) \/ s \in OnTrail(s.user)

TrailInv == /\ TypeOK /\ TrailInOrder /\ Lists /\ Counted /\ Recording
            /\ KeysThere /\ CleanerKnows /\ OldOrRaced

LEMMA ListLength ==
    ASSUME Lists, NEW u \in DOMAIN trail
    PROVE  /\ Len(trail[u]) \in Nat /\ DOMAIN trail[u] = 1 .. Len(trail[u])
           /\ \A i \in 1 .. Len(trail[u]) : trail[u][i] \in Shares
           /\ OnTrail(u) = {trail[u][i] : i \in 1 .. Len(trail[u])}
BY LenProperties, ElementOfSeq DEF Lists, OnTrail, Exists

LEMMA ShareFields ==
    ASSUME TrailBounds, NEW s \in Shares
    PROVE  s.user \in Users /\ s.id \in 1 .. MaxShares /\ s.ts \in 0 .. MaxTime
BY DEF Shares

(* Lists stay short, because their shares are numbered.                    *)
LEMMA ListBounded ==
    ASSUME TrailBounds, Lists, NEW u \in DOMAIN trail
    PROVE  Len(trail[u]) \in 0 .. MaxShares
<1>1. Len(trail[u]) \in Nat
  BY ListLength
<1>2. CASE Len(trail[u]) = 0
  BY <1>2 DEF TrailBounds
<1>3. CASE Len(trail[u]) # 0
  <2> DEFINE n == Len(trail[u])
  <2>1. n \in 1 .. n
    BY <1>1, <1>3
  <2>2. trail[u][n].id >= n /\ trail[u][n] \in Shares
    BY <2>1, ListLength DEF Lists
  <2>3. trail[u][n].id \in 1 .. MaxShares
    BY <2>2, ShareFields
  <2> QED
    BY <1>1, <2>2, <2>3 DEF TrailBounds
<1> QED
  BY <1>2, <1>3

LEMMA InitTrail == ASSUME AgesAssumption, TrailBounds, Init PROVE TrailInv
<1>1. TypeOK /\ TrailInOrder /\ Lists
  BY DEF Init, TypeOK, TrailInOrder, Lists, Exists, OnTrail, TrailBounds
<1>2. Counted /\ Recording /\ KeysThere /\ CleanerKnows /\ OldOrRaced
  BY FS_EmptySet DEF Init, Counted, Recording, KeysThere, CleanerKnows, OldOrRaced
<1> QED
  BY <1>1, <1>2 DEF TrailInv

(* A share that is appended: the newest and the youngest one of its list,  *)
(* and one that raced if the cleaner is there.                             *)
LEMMA AppendedTrail ==
    ASSUME AgesAssumption, TrailBounds, TrailInv, step # "idle", Exists(share.user),
           Appended, UNCHANGED <<now, connected, cleanVars>>
    PROVE  TrailInv'
<1> DEFINE w == share.user
           n == Len(trail[w])
<1>1. /\ TypeOK /\ TrailInOrder /\ Lists /\ Counted /\ Recording /\ KeysThere
      /\ CleanerKnows /\ OldOrRaced
  BY DEF TrailInv
<1>2. /\ trail' = [trail EXCEPT ![w] = Append(trail[w], share)]
      /\ accepted' = accepted \union {share}
      /\ raced' = IF pc # "idle" /\ user = w THEN raced \union {share} ELSE raced
      /\ share' = NoShare /\ step' = "idle"
      /\ UNCHANGED <<now, connected, pc, todo, user, count, last, passes>>
  BY DEF Appended, DoneRecording, cleanVars
<1>3. /\ share \in Shares /\ share.id = Cardinality(accepted) + 1 /\ share.ts = now
      /\ Cardinality(accepted) \in Nat /\ now \in Nat
      /\ w \in DOMAIN trail /\ w \in Users
  BY <1>1, FS_CardinalityType DEF Recording, NextId, Counted, TypeOK, Exists, Lists
<1>4. \A s \in accepted : /\ s.id \in Nat /\ s.ts \in Nat
                          /\ s.id < share.id /\ s.ts <= now
  <2> SUFFICES ASSUME NEW s \in accepted
               PROVE  s.id \in Nat /\ s.ts \in Nat /\ s.id < share.id /\ s.ts <= now
    OBVIOUS
  <2>1. s.id \in 1 .. MaxShares /\ s.ts \in 0 .. MaxTime
    BY <1>1, ShareFields DEF Counted
  <2> QED
    BY <2>1, <1>1, <1>3 DEF Counted, TrailBounds
<1>5. share \notin accepted
  BY <1>3, <1>4
<1>6. DOMAIN trail' = DOMAIN trail /\ \A u \in DOMAIN trail : u # w => trail'[u] = trail[u]
  BY <1>2
<1>7. /\ n \in Nat /\ trail'[w] = Append(trail[w], share)
      /\ trail'[w] \in Seq(Shares) /\ Len(trail'[w]) = n + 1
      /\ \A i \in 1 .. n : trail'[w][i] = trail[w][i]
      /\ trail'[w][n + 1] = share
  <2>1. trail[w] \in Seq(Shares) /\ n \in Nat /\ trail'[w] = Append(trail[w], share)
    BY <1>1, <1>2, <1>3, ListLength DEF Lists
  <2> QED
    BY <2>1, <1>3
<1>8. \A i \in 1 .. n : trail[w][i] \in accepted
  BY <1>1, <1>3 DEF Lists
<1>9. Lists'
  <2> SUFFICES ASSUME NEW u \in DOMAIN trail'
               PROVE  /\ u \in Users /\ trail'[u] \in Seq(Shares)
                      /\ \A i \in 1 .. Len(trail'[u]) :
                           /\ trail'[u][i] \in accepted' /\ trail'[u][i].user = u
                           /\ trail'[u][i].id >= i
    BY DEF Lists
  <2>1. CASE u # w
    BY <2>1, <1>1, <1>2, <1>6 DEF Lists
  <2>2. CASE u = w
    <3>1. share.id >= n + 1
      <4>1. CASE n = 0
        BY <4>1, <1>3
      <4>2. CASE n # 0
        <5>1. n \in 1 .. n
          BY <4>2, <1>7
        <5>2. trail[w][n].id >= n /\ trail[w][n] \in accepted
          BY <5>1, <1>1, <1>3 DEF Lists
        <5> QED
          BY <5>2, <1>3, <1>4, <1>7
      <4> QED
        BY <4>1, <4>2
    <3>2. ASSUME NEW i \in 1 .. n + 1
          PROVE  /\ trail'[w][i] \in accepted' /\ trail'[w][i].user = w
                 /\ trail'[w][i].id >= i
      <4>1. CASE i = n + 1
        BY <4>1, <3>1, <1>2, <1>7
      <4>2. CASE i # n + 1
        <5>1. i \in 1 .. n
          BY <4>2, <1>7
        <5> QED
          BY <5>1, <1>1, <1>2, <1>3, <1>7 DEF Lists
      <4> QED
        BY <4>1, <4>2
    <3> QED
      BY <2>2, <3>2, <1>3, <1>7
  <2> QED
    BY <2>1, <2>2
<1>10. TrailInOrder'
  <2> SUFFICES ASSUME NEW u \in Users, Exists(u)',
                      NEW i \in DOMAIN trail'[u], NEW k \in DOMAIN trail'[u], i < k
               PROVE  trail'[u][i].ts <= trail'[u][k].ts /\ trail'[u][i].id < trail'[u][k].id
    BY DEF TrailInOrder
  <2>1. u \in DOMAIN trail
    BY <1>6 DEF Exists
  <2>2. CASE u # w
    BY <2>1, <2>2, <1>1, <1>6 DEF TrailInOrder, Exists
  <2>3. CASE u = w
    <3>1. i \in 1 .. n + 1 /\ k \in 1 .. n + 1 /\ i \in 1 .. n
      <4>1. DOMAIN trail'[w] = 1 .. n + 1
        BY <1>7, LenProperties
      <4> QED
        BY <4>1, <2>3, <1>7
    <3>2. CASE k = n + 1
      BY <2>3, <3>1, <3>2, <1>3, <1>4, <1>7, <1>8
    <3>3. CASE k # n + 1
      <4>1. k \in 1 .. n
        BY <3>1, <3>3, <1>7, SMTT(40)
      <4>2. DOMAIN trail[w] = 1 .. n
        BY ONLY <1>1, <1>3, ListLength
      <4>3. trail[w][i].ts <= trail[w][k].ts /\ trail[w][i].id < trail[w][k].id
        BY <4>1, <4>2, <3>1, <1>1, <1>3 DEF TrailInOrder, Exists
      <4> QED
        BY <2>3, <3>1, <4>1, <4>3, <1>7
    <3> QED
      BY <3>2, <3>3
  <2> QED
    BY <2>2, <2>3
<1>11. Counted'
  <2>1. IsFiniteSet(accepted') /\ Cardinality(accepted') = Cardinality(accepted) + 1
    BY <1>1, <1>2, <1>5, FS_AddElement DEF Counted
  <2>2. accepted' \subseteq Shares /\ raced' \subseteq accepted'
    BY <1>1, <1>2, <1>3 DEF Counted
  <2>3. \A s \in accepted' : s.id <= Cardinality(accepted) + 1 /\ s.ts <= now
    BY <1>2, <1>3, <1>4
  <2> QED
    BY <2>1, <2>2, <2>3, <1>2 DEF Counted
<1>12. Recording' /\ KeysThere'
  BY <1>1, <1>2, <1>6 DEF Recording, KeysThere
<1>13. CleanerKnows'
  <2>1. CASE user # w \/ pc = "idle"
    <3>1. pc # "idle" => user \in DOMAIN trail /\ user # w
      BY <2>1, <1>1 DEF KeysThere
    <3>2. pc # "idle" => trail'[user] = trail[user]
      BY <3>1, <1>6
    <3>3. raced' = raced
      BY <2>1, <1>2
    <3> QED
      BY <3>2, <3>3, <1>1, <1>2 DEF CleanerKnows, TooOld
  <2>2. CASE user = w /\ pc # "idle"
    <3>1. raced' = raced \union {share}
      BY <2>2, <1>2
    <3>2. ~TooOld(share.ts)
      BY <1>3 DEF TooOld, AgesAssumption
    <3>3. \A ts : TooOld(ts)' <=> TooOld(ts)
      BY <1>2 DEF TooOld
    <3>4. \A i \in 1 .. n + 1 : i \in 1 .. n \/ i = n + 1
      BY <1>7
    <3>5. pc \in {"times", "trim"} =>
            /\ count <= n + 1
            /\ \A i \in 1 .. n + 1 : i > count => trail'[w][i] \in raced'
      BY <2>2, <3>1, <3>4, <1>1, <1>7 DEF CleanerKnows, TypeOK
    <3>6. pc = "trim" =>
            /\ last <= n + 1
            /\ \A i \in 1 .. n + 1 : TooOld(trail'[w][i].ts) <=> i <= last
      BY <2>2, <3>2, <3>4, <1>1, <1>7 DEF CleanerKnows, TypeOK
    <3>7. /\ pc = "check" => \A i \in 1 .. n + 1 : ~TooOld(trail'[w][i].ts)
          /\ pc = "forget" => \A i \in 1 .. n + 1 : trail'[w][i] \in raced'
      BY <2>2, <3>1, <3>2, <3>4, <1>1, <1>7 DEF CleanerKnows
    <3> HIDE DEF n
    <3> QED
      BY <2>2, <3>3, <3>5, <3>6, <3>7, <1>2, <1>7 DEF CleanerKnows
  <2> QED
    BY <2>1, <2>2
<1>14. OldOrRaced'
  <2> SUFFICES ASSUME NEW s \in accepted' \ raced'
               PROVE  TooOld(s.ts)' \/ s \in OnTrail(s.user)'
    BY DEF OldOrRaced
  <2>1. \A u \in DOMAIN trail : OnTrail(u) \subseteq OnTrail(u)'
    <3> SUFFICES ASSUME NEW u \in DOMAIN trail
                 PROVE  OnTrail(u) \subseteq OnTrail(u)'
      OBVIOUS
    <3>1. CASE u # w
      BY <3>1, <1>6 DEF OnTrail, Exists
    <3>2. CASE u = w
      <4>1. OnTrail(u) = {trail[w][i] : i \in 1 .. n}
        BY <3>2, <1>1, ListLength
      <4>2. DOMAIN trail'[w] = 1 .. n + 1
        BY <1>7, LenProperties
      <4>3. OnTrail(u)' = {trail'[w][i] : i \in 1 .. n + 1}
        BY <3>2, <4>2, <1>6 DEF OnTrail, Exists
      <4> QED
        BY <4>1, <4>3, <1>7
    <3> QED
      BY <3>1, <3>2
  <2>2. CASE s = share
    <3>1. DOMAIN trail'[w] = 1 .. n + 1
      BY <1>7, LenProperties
    <3> QED
      BY <2>2, <3>1, <1>3, <1>6, <1>7 DEF OnTrail, Exists
  <2>3. CASE s # share
    <3>1. s \in accepted \ raced
      BY <2>3, <1>2
    <3>2. TooOld(s.ts) \/ s \in OnTrail(s.user)
      BY <3>1, <1>1 DEF OldOrRaced
    <3>3. s \in OnTrail(s.user) => s.user \in DOMAIN trail
      BY DEF OnTrail, Exists
    <3> QED
      BY <2>1, <3>2, <3>3, <1>2 DEF TooOld
  <2> QED
    BY <2>2, <2>3
<1>15. TypeOK'
  <2>1. \A u \in Users : \A s \in OnTrail(u)' : s \in Shares /\ s.user = u
    BY <1>9, LenProperties, ElementOfSeq DEF Lists, OnTrail, Exists
  <2> QED
    BY <2>1, <1>1, <1>2, <1>6, <1>11 DEF TypeOK, Counted
<1> QED
  BY <1>9, <1>10, <1>11, <1>12, <1>13, <1>14, <1>15 DEF TrailInv

(* Steps that change no list.                                              *)
LEMMA ListsUnchanged ==
    ASSUME TrailInv, UNCHANGED <<now, trail, accepted, raced>>
    PROVE  TrailInOrder' /\ Lists' /\ Counted' /\ OldOrRaced'
<1>1. TrailInOrder' /\ Lists' /\ Counted'
  BY DEF TrailInv, TrailInOrder, Lists, Counted, Exists
<1>2. OldOrRaced'
  BY DEF TrailInv, OldOrRaced, TooOld, OnTrail, Exists
<1> QED
  BY <1>1, <1>2

LEMMA TickTrail ==
    ASSUME AgesAssumption, TrailBounds, TrailInv, Tick
    PROVE  TrailInv'
<1>1. /\ now' = now + 1 /\ now < MaxTime /\ step = "idle" /\ pc = "idle"
      /\ UNCHANGED <<trail, share, step, connected, pc, todo, user, count, last,
                     passes, accepted, raced>>
  BY DEF Tick, recVars, cleanVars, histVars
<1>2. /\ TypeOK /\ TrailInOrder /\ Lists /\ Counted /\ Recording /\ KeysThere
      /\ CleanerKnows /\ OldOrRaced
  BY DEF TrailInv
<1>3. TypeOK'
  BY <1>1, <1>2 DEF TypeOK, OnTrail, Exists, TrailBounds
<1>4. TrailInOrder' /\ Lists' /\ Recording' /\ KeysThere' /\ CleanerKnows'
  BY <1>1, <1>2 DEF TrailInOrder, Lists, Exists, Recording, KeysThere, CleanerKnows
<1>5. \A s \in accepted : s.ts \in Nat /\ now \in Nat /\ s.id \in Nat
  BY <1>2, ShareFields DEF Counted, TypeOK, TrailBounds
<1>6. Counted'
  <2>1. \A s \in accepted : s.ts <= now + 1
    BY <1>2, <1>5 DEF Counted
  <2> QED
    BY <2>1, <1>1, <1>2 DEF Counted
<1>7. OldOrRaced'
  <2> SUFFICES ASSUME NEW s \in accepted \ raced
               PROVE  TooOld(s.ts)' \/ s \in OnTrail(s.user)
    BY <1>1 DEF OldOrRaced, OnTrail, Exists
  <2>1. CASE s \in OnTrail(s.user)
    BY <2>1
  <2>2. CASE TooOld(s.ts)
    BY <2>2, <1>1, <1>5 DEF TooOld, AgesAssumption
  <2> QED
    BY <2>1, <2>2, <1>2 DEF OldOrRaced
<1> QED
  BY <1>3, <1>4, <1>6, <1>7 DEF TrailInv

LEMMA AcceptTrail ==
    ASSUME TrailBounds, TrailInv, NEW w \in Users, Accept(w)
    PROVE  TrailInv'
<1>1. /\ step = "idle" /\ NextId <= MaxShares /\ step' = "append"
      /\ share' = [user |-> w, id |-> NextId, ts |-> now]
      /\ UNCHANGED <<now, trail, connected, pc, todo, user, count, last, passes,
                     accepted, raced>>
  BY DEF Accept, cleanVars, histVars
<1>2. TypeOK /\ Counted /\ KeysThere /\ CleanerKnows
  BY DEF TrailInv
<1>3. share' \in Shares
  <2>1. NextId \in 1 .. MaxShares
    BY <1>1, <1>2, FS_CardinalityType DEF NextId, Counted, TrailBounds
  <2> QED
    BY <2>1, <1>1, <1>2 DEF TypeOK, Shares
<1>4. Recording'
  BY <1>1, <1>3 DEF Recording, NextId
<1>5. KeysThere' /\ CleanerKnows'
  BY <1>1, <1>2 DEF KeysThere, CleanerKnows, TooOld
<1>6. TypeOK'
  BY <1>1, <1>2, <1>3 DEF TypeOK, OnTrail, Exists
<1> QED
  BY <1>1, <1>4, <1>5, <1>6, ListsUnchanged DEF TrailInv

(* A new key changes nothing for the cleaner, which has no such key.       *)
LEMMA CreateTrail ==
    ASSUME TrailInv, CreateKey
    PROVE  TrailInv'
<1> DEFINE w == share.user
<1>1. /\ step = "create" /\ step' = "again"
      /\ trail' = [u \in DOMAIN trail \union {w} |-> IF u = w THEN <<>> ELSE trail[u]]
      /\ UNCHANGED <<now, share, connected, pc, todo, user, count, last, passes,
                     accepted, raced>>
  BY DEF CreateKey, cleanVars, histVars
<1>2. /\ TypeOK /\ TrailInOrder /\ Lists /\ Counted /\ Recording /\ KeysThere
      /\ CleanerKnows /\ OldOrRaced
  BY DEF TrailInv
<1>3. w \notin DOMAIN trail /\ w \in Users /\ share \in Shares
  BY <1>1, <1>2 DEF Recording, Exists, Shares
<1>4. /\ DOMAIN trail' = DOMAIN trail \union {w}
      /\ trail'[w] = <<>>
      /\ \A u \in DOMAIN trail : trail'[u] = trail[u]
  BY <1>1, <1>3
<1>5. \A u : OnTrail(u)' = OnTrail(u)
  <2> SUFFICES ASSUME NEW u
               PROVE  OnTrail(u)' = OnTrail(u)
    OBVIOUS
  <2>1. CASE u = w
    BY <2>1, <1>3, <1>4 DEF OnTrail, Exists
  <2>2. CASE u # w
    BY <2>2, <1>4, ZenonT(60) DEF OnTrail, Exists
  <2> QED
    BY <2>1, <2>2
<1>6. Lists'
  <2> SUFFICES ASSUME NEW u \in DOMAIN trail'
               PROVE  /\ u \in Users /\ trail'[u] \in Seq(Shares)
                      /\ \A i \in 1 .. Len(trail'[u]) :
                           /\ trail'[u][i] \in accepted' /\ trail'[u][i].user = u
                           /\ trail'[u][i].id >= i
    BY DEF Lists
  <2>1. CASE u = w
    BY <2>1, <1>3, <1>4
  <2>2. CASE u # w
    BY <2>2, <1>1, <1>2, <1>4 DEF Lists
  <2> QED
    BY <2>1, <2>2
<1>7. TrailInOrder'
  BY <1>2, <1>4 DEF TrailInOrder, Exists
<1>8. Counted' /\ Recording' /\ KeysThere'
  BY <1>1, <1>2, <1>3, <1>4 DEF Counted, Recording, KeysThere, NextId
<1>9. CleanerKnows'
  <2>1. pc # "idle" => trail'[user] = trail[user]
    BY <1>2, <1>4 DEF KeysThere
  <2> QED
    BY <2>1, <1>1, <1>2, SMTT(40) DEF CleanerKnows, TooOld
<1>10. OldOrRaced'
  BY <1>1, <1>2, <1>5 DEF OldOrRaced, TooOld
<1>11. TypeOK'
  BY <1>1, <1>2, <1>3, <1>4, <1>5 DEF TypeOK
<1> QED
  BY <1>6, <1>7, <1>8, <1>9, <1>10, <1>11 DEF TrailInv

LEMMA RecordTrail ==
    ASSUME AgesAssumption, TrailBounds, TrailInv, Record
    PROVE  TrailInv'
<1>0. /\ TypeOK /\ Recording /\ KeysThere /\ CleanerKnows
  BY DEF TrailInv
<1>1. ASSUME NEW w \in Users, Accept(w) PROVE TrailInv'
  BY <1>1, AcceptTrail
<1>2. CASE CreateKey
  BY <1>2, CreateTrail
<1>3. CASE step # "idle" /\ Exists(share.user) /\ Appended
           /\ UNCHANGED <<now, connected, cleanVars>>
  BY <1>3, AppendedTrail
<1>4. CASE /\ step' = "create" /\ ~Exists(share.user) /\ step # "idle"
           /\ UNCHANGED <<now, trail, share, connected, cleanVars, histVars>>
  <2>1. UNCHANGED <<now, trail, share, connected, pc, todo, user, count, last, passes,
                    accepted, raced>>
    BY <1>4 DEF cleanVars, histVars
  <2>2. Recording' /\ KeysThere' /\ CleanerKnows' /\ TypeOK'
    BY <1>0, <1>4, <2>1 DEF Recording, NextId, Exists, KeysThere, CleanerKnows, TooOld,
       TypeOK, OnTrail
  <2> QED
    BY <2>1, <2>2, ListsUnchanged DEF TrailInv
<1>5. CASE DoneRecording /\ UNCHANGED <<now, trail, connected, cleanVars, histVars>>
  <2>1. UNCHANGED <<now, trail, connected, pc, todo, user, count, last, passes,
                    accepted, raced>>
    BY <1>5 DEF cleanVars, histVars
  <2>2. Recording' /\ KeysThere' /\ CleanerKnows' /\ TypeOK'
    BY <1>0, <1>5, <2>1 DEF DoneRecording, Recording, KeysThere, CleanerKnows, TooOld,
       TypeOK, OnTrail, Exists
  <2> QED
    BY <2>1, <2>2, ListsUnchanged DEF TrailInv
<1>6. CASE LoseRedis
  <2>1. UNCHANGED <<now, trail, share, step, pc, todo, user, count, last, passes,
                    accepted, raced>>
    BY <1>6 DEF LoseRedis, cleanVars, histVars
  <2>2. Recording' /\ KeysThere' /\ CleanerKnows' /\ TypeOK'
    BY <1>0, <2>1 DEF Recording, NextId, Exists, KeysThere, CleanerKnows, TooOld,
       TypeOK, OnTrail
  <2> QED
    BY <2>1, <2>2, ListsUnchanged DEF TrailInv
<1> QED
  BY <1>1, <1>2, <1>3, <1>4, <1>5, <1>6
  DEF Record, AppendShare, AppendAgain, RecordNothing

-----------------------------------------------------------------------------
(* The steps of a pass.                                                    *)
LEMMA FirstYoung ==
    ASSUME NEW n \in Nat, NEW S \in SUBSET (1 .. n)
    PROVE  \E k \in 0 .. n : /\ \A i \in 1 .. k : i \notin S
                             /\ k < n => k + 1 \in S
<1> DEFINE T == S \union {n + 1}
           Less == {p \in Nat \X Nat : p[1] < p[2]}
<1>1. IsWellFoundedOn(Less, Nat)
  BY NatLessThanWellFounded, Zenon DEF OpToRel
<1>2. T \in SUBSET Nat /\ T # {}
  OBVIOUS
<1>3. PICK x \in T : \A y \in T : <<y, x>> \notin Less
  <2> HIDE DEF Less, T
  <2> QED
    BY <1>1, <1>2, WFMin
<1>4. \A y \in T : x <= y
  <2> SUFFICES ASSUME NEW y \in T, y < x
               PROVE  FALSE
    OBVIOUS
  <2>1. <<y, x>> \in Less
    OBVIOUS
  <2> QED
    BY <1>3, <2>1
<1>5. x \in 1 .. n + 1 /\ \A i \in 1 .. x - 1 : i \notin S
  BY <1>4
<1>6. x - 1 \in 0 .. n /\ (x - 1 < n => (x - 1) + 1 \in S)
  BY <1>5
<1> QED
  BY <1>5, <1>6

LEMMA ReadTimesTrail ==
    ASSUME AgesAssumption, TrailBounds, TrailInv, ReadTimes
    PROVE  TrailInv'
<1> DEFINE s == trail[user]
           n == Len(s)
<1>1. /\ pc = "times"
      /\ last' = CHOOSE k \in 0 .. n : /\ \A i \in 1 .. k : TooOld(s[i].ts)
                                       /\ k < n => ~TooOld(s[k + 1].ts)
      /\ pc' = IF last' = 0 THEN "check" ELSE "trim"
      /\ UNCHANGED <<now, trail, share, step, connected, todo, user, count, passes,
                     accepted, raced>>
  BY DEF ReadTimes, recVars, histVars
<1>2. TypeOK /\ TrailInOrder /\ Lists /\ Recording /\ KeysThere /\ CleanerKnows
  BY DEF TrailInv
<1>3. user \in DOMAIN trail /\ user \in Users
  BY <1>1, <1>2 DEF KeysThere, TypeOK
<1>4. /\ n \in 0 .. MaxShares /\ n \in Nat /\ DOMAIN s = 1 .. n
      /\ \A i \in 1 .. n : s[i].ts \in Nat
  <2>1. n \in 0 .. MaxShares /\ n \in Nat /\ DOMAIN s = 1 .. n
    BY <1>2, <1>3, ListLength, ListBounded
  <2>2. ASSUME NEW i \in 1 .. n PROVE s[i].ts \in Nat
    <3>1. s[i] \in Shares
      BY <1>2, <1>3, ListLength
    <3> QED
      BY <3>1, ShareFields DEF TrailBounds
  <2> QED
    BY <2>1, <2>2
<1>5. /\ last' \in 0 .. n
      /\ \A i \in 1 .. last' : TooOld(s[i].ts)
      /\ last' < n => ~TooOld(s[last' + 1].ts)
  <2> DEFINE Young == {i \in 1 .. n : ~TooOld(s[i].ts)}
  <2>1. PICK k \in 0 .. n : /\ \A i \in 1 .. k : i \notin Young
                            /\ k < n => k + 1 \in Young
    <3> HIDE DEF s
    <3>1. Young \in SUBSET (1 .. n)
      OBVIOUS
    <3> HIDE DEF Young
    <3> QED
      BY <3>1, <1>4, FirstYoung
  <2>2. /\ \A i \in 1 .. k : TooOld(s[i].ts)
        /\ k < n => ~TooOld(s[k + 1].ts)
    <3> HIDE DEF s
    <3> QED
      BY <2>1, <1>4
  <2> HIDE DEF s, n
  <2> QED
    BY <2>2, <1>1
<1>6. \A i \in 1 .. n : TooOld(s[i].ts) <=> i <= last'
  <2> SUFFICES ASSUME NEW i \in 1 .. n, ~(i <= last')
               PROVE  ~TooOld(s[i].ts)
    BY <1>4, <1>5
  <2>0. last' \in Nat /\ i \in Nat /\ i > last' /\ i <= n
    BY <1>4, <1>5
  <2>1. last' + 1 \in 1 .. n /\ last' < n
    <3> DEFINE l == last'
    <3>1. l \in Nat /\ i > l
      BY <2>0
    <3> HIDE DEF l, n
    <3>2. l + 1 \in 1 .. n /\ l < n
      BY <3>1, <2>0, <1>4
    <3> QED
      BY <3>2 DEF l
  <2>2. s[last' + 1].ts <= s[i].ts
    <3>1. CASE i = last' + 1
      BY <3>1, <2>1, <1>4
    <3>2. CASE i # last' + 1
      <4>1. last' + 1 < i
        <5> DEFINE l == last'
        <5>1. l \in Nat /\ i > l /\ i # l + 1
          BY <2>0, <3>2
        <5> HIDE DEF l
        <5>2. l + 1 < i
          BY <5>1, <2>0
        <5> QED
          BY <5>2 DEF l
      <4> QED
        BY <4>1, <2>1, <1>2, <1>3, <1>4 DEF TrailInOrder, Exists
    <3> QED
      BY <3>1, <3>2
  <2>3. s[last' + 1].ts \in Nat /\ s[i].ts \in Nat
    BY <2>1, <1>4
  <2>4. now \in Nat /\ Keep \in Nat
    BY <1>2 DEF TypeOK, TrailBounds, AgesAssumption
  <2> QED
    BY <2>1, <2>2, <2>3, <2>4, <1>5, SMTT(40) DEF TooOld
<1> HIDE DEF s
<1>7. CleanerKnows'
  <2>1. /\ count <= n
        /\ \A i \in 1 .. n : i > count => s[i] \in raced
    BY <1>1, <1>2 DEF CleanerKnows, s
  <2>2. s' = s /\ n' = n /\ count' = count /\ raced' = raced
        /\ \A ts : TooOld(ts)' <=> TooOld(ts)
    BY <1>1 DEF TooOld, s
  <2>3. CASE last' = 0
    <3>1. \A i \in 1 .. n : ~TooOld(s[i].ts)
      BY <2>3, <1>4, <1>6
    <3>2. pc' = "check"
      BY <2>3, <1>1
    <3> QED
      BY <3>1, <3>2, <2>2 DEF CleanerKnows, s
  <2>4. CASE last' # 0
    <3>1. pc' = "trim" /\ last' <= n
      BY <2>4, <1>1, <1>4, <1>5
    <3> QED
      BY <3>1, <2>1, <2>2, <1>6 DEF CleanerKnows, s
  <2> QED
    BY <2>3, <2>4
<1>8. Recording' /\ KeysThere'
  BY <1>1, <1>2 DEF Recording, NextId, Exists, KeysThere
<1>9. TypeOK'
  <2>1. last' \in 0 .. MaxShares
    BY <1>4, <1>5 DEF TrailBounds
  <2> QED
    BY <2>1, <1>1, <1>2 DEF TypeOK, OnTrail, Exists
<1> QED
  BY <1>1, <1>7, <1>8, <1>9, ListsUnchanged DEF TrailInv

(* What is cut off is too old, or came while the cleaner was there.        *)
LEMMA TrimTrail ==
    ASSUME AgesAssumption, TrailBounds, TrailInv, Trim
    PROVE  TrailInv'
<1> DEFINE s == trail[user]
           n == Len(s)
           t == SubSeq(s, last + 1, count)
<1>1. /\ pc = "trim" /\ pc' = "check"
      /\ trail' = [trail EXCEPT ![user] = t]
      /\ UNCHANGED <<now, share, step, connected, todo, user, count, last, passes,
                     accepted, raced>>
  BY DEF Trim, recVars, histVars
<1>2. /\ TypeOK /\ TrailInOrder /\ Lists /\ Counted /\ Recording /\ KeysThere
      /\ CleanerKnows /\ OldOrRaced
  BY DEF TrailInv
<1>3. /\ user \in DOMAIN trail /\ user \in Users /\ count \in Nat /\ last \in Nat
  BY <1>1, <1>2 DEF KeysThere, TypeOK, TrailBounds
<1>4. /\ n \in Nat /\ DOMAIN s = 1 .. n /\ count <= n /\ last <= n
      /\ \A i \in 1 .. n : s[i] \in Shares
      /\ \A i \in 1 .. n : i > count => s[i] \in raced
      /\ \A i \in 1 .. n : TooOld(s[i].ts) <=> i <= last
  BY <1>1, <1>2, <1>3, ListLength DEF CleanerKnows
<1>5. /\ t \in Seq(Shares)
      /\ Len(t) = IF last + 1 <= count THEN count - last ELSE 0
      /\ \A i \in 1 .. count - last : t[i] = s[i + last]
  <2>1. \A i \in last + 1 .. count : s[i] \in Shares
    BY <1>3, <1>4
  <2> HIDE DEF s
  <2>2. /\ t \in Seq(Shares)
        /\ Len(t) = IF last + 1 <= count THEN count - (last + 1) + 1 ELSE 0
        /\ \A i \in 1 .. count - (last + 1) + 1 : t[i] = s[(last + 1) + i - 1]
    BY <2>1, <1>3, SubSeqProperties
  <2>3. \A i \in 1 .. count - last : i \in 1 .. count - (last + 1) + 1
                                     /\ (last + 1) + i - 1 = i + last
    BY <1>3
  <2> HIDE DEF t
  <2> QED
    BY <2>2, <2>3, <1>3
<1>6. /\ Len(t) \in Nat /\ DOMAIN t = 1 .. Len(t)
      /\ \A i \in 1 .. Len(t) : i + last \in 1 .. n /\ i + last > last /\ t[i] = s[i + last]
  BY <1>3, <1>4, <1>5, LenProperties
<1>7. /\ DOMAIN trail' = DOMAIN trail /\ trail'[user] = t
      /\ \A u \in DOMAIN trail : u # user => trail'[u] = trail[u]
  BY <1>1, <1>3
<1> HIDE DEF t
<1>8. \A i \in 1 .. n : s[i] \in accepted /\ s[i].user = user /\ s[i].id >= i
                        /\ s[i].id \in Nat
  <2>1. \A i \in 1 .. n : s[i] \in accepted /\ s[i].user = user /\ s[i].id >= i
    BY <1>2, <1>3 DEF Lists
  <2> QED
    BY <2>1, <1>4, ShareFields DEF TrailBounds
<1> HIDE DEF s
<1>9. Lists'
  <2> SUFFICES ASSUME NEW u \in DOMAIN trail'
               PROVE  /\ u \in Users /\ trail'[u] \in Seq(Shares)
                      /\ \A i \in 1 .. Len(trail'[u]) :
                           /\ trail'[u][i] \in accepted' /\ trail'[u][i].user = u
                           /\ trail'[u][i].id >= i
    BY DEF Lists
  <2>1. CASE u # user
    BY <2>1, <1>1, <1>2, <1>7 DEF Lists
  <2>2. CASE u = user
    <3>1. \A i \in 1 .. Len(t) : t[i] \in accepted /\ t[i].user = user /\ t[i].id >= i
      BY <1>3, <1>6, <1>8, SMTT(40)
    <3> QED
      BY <2>2, <3>1, <1>1, <1>3, <1>5, <1>7
  <2> QED
    BY <2>1, <2>2
<1>10. TrailInOrder'
  <2> SUFFICES ASSUME NEW u \in Users, Exists(u)',
                      NEW i \in DOMAIN trail'[u], NEW k \in DOMAIN trail'[u], i < k
               PROVE  trail'[u][i].ts <= trail'[u][k].ts /\ trail'[u][i].id < trail'[u][k].id
    BY DEF TrailInOrder
  <2>1. u \in DOMAIN trail
    BY <1>7 DEF Exists
  <2>2. CASE u # user
    BY <2>1, <2>2, <1>2, <1>7 DEF TrailInOrder, Exists
  <2>3. CASE u = user
    <3>1. i \in 1 .. Len(t) /\ k \in 1 .. Len(t)
      BY <2>3, <1>6, <1>7
    <3>2. i + last \in DOMAIN s /\ k + last \in DOMAIN s /\ i + last < k + last
      BY <3>1, <1>3, <1>4, <1>6
    <3>3. s[i + last].ts <= s[k + last].ts /\ s[i + last].id < s[k + last].id
      BY <3>2, <1>2, <1>3 DEF TrailInOrder, Exists, s
    <3> QED
      BY <2>3, <3>1, <3>3, <1>6, <1>7
  <2> QED
    BY <2>2, <2>3
<1>11. Counted' /\ Recording' /\ KeysThere'
  BY <1>1, <1>2, <1>7 DEF Counted, Recording, NextId, Exists, KeysThere
<1>12. CleanerKnows'
  <2>1. \A i \in 1 .. Len(t) : ~TooOld(t[i].ts)
    BY <1>3, <1>4, <1>6
  <2> QED
    BY <2>1, <1>1, <1>7 DEF CleanerKnows, TooOld
<1>13. OldOrRaced'
  <2> SUFFICES ASSUME NEW x \in accepted \ raced, ~TooOld(x.ts)
               PROVE  x \in OnTrail(x.user)'
    BY <1>1 DEF OldOrRaced, TooOld
  <2>1. x \in OnTrail(x.user)
    BY <1>2 DEF OldOrRaced
  <2>2. CASE x.user # user
    BY <2>1, <2>2, <1>7 DEF OnTrail, Exists
  <2>3. CASE x.user = user
    <3>1. PICK i \in 1 .. n : x = s[i]
      BY <2>1, <2>3, <1>3, <1>4 DEF OnTrail, Exists, s
    <3>2. i <= count /\ ~(i <= last)
      BY <3>1, <1>3, <1>4
    <3>3. i - last \in 1 .. Len(t) /\ (i - last) + last = i
      BY <3>1, <3>2, <1>3, <1>5
    <3>4. t[i - last] = x
      BY <3>1, <3>3, <1>6
    <3> QED
      BY <2>3, <3>3, <3>4, <1>3, <1>6, <1>7 DEF OnTrail, Exists
  <2> QED
    BY <2>2, <2>3
<1>14. TypeOK'
  <2>1. \A u \in Users : \A x \in OnTrail(u)' : x \in Shares /\ x.user = u
    BY <1>9, LenProperties, ElementOfSeq DEF Lists, OnTrail, Exists
  <2> QED
    BY <2>1, <1>1, <1>2, <1>7 DEF TypeOK
<1> QED
  BY <1>9, <1>10, <1>11, <1>12, <1>13, <1>14 DEF TrailInv

LEMMA NextKeyTrail ==
    ASSUME TrailInv, pc # "idle", NextKey, DOMAIN trail \ {user} \subseteq DOMAIN trail'
    PROVE  /\ KeysThere' /\ CleanerKnows' /\ todo' \subseteq Users
           /\ user' \in Users \union {"none"} /\ pc' \in {"idle", "count"}
<1>1. todo \subseteq DOMAIN trail /\ todo \subseteq Users
  BY DEF TrailInv, KeysThere, TypeOK
<1>2. todo' = todo \ {user}
  BY DEF NextKey
<1>3. CASE todo' = {}
  <2>1. pc' = "idle" /\ user' = "none"
    BY <1>3 DEF NextKey
  <2> QED
    BY <2>1, <1>1, <1>2 DEF KeysThere, CleanerKnows
<1>4. CASE todo' # {}
  <2>1. pc' = "count" /\ user' \in todo'
    BY <1>4 DEF NextKey
  <2> QED
    BY <2>1, <1>1, <1>2 DEF KeysThere, CleanerKnows
<1> QED
  BY <1>3, <1>4

LEMMA ForgetTrail ==
    ASSUME TrailBounds, TrailInv, Forget
    PROVE  TrailInv'
<1>1. /\ pc = "forget" /\ NextKey
      /\ trail' = [u \in DOMAIN trail \ {user} |-> trail[u]]
      /\ UNCHANGED <<now, share, step, connected, count, last, passes, accepted, raced>>
  BY DEF Forget, recVars, histVars
<1>2. /\ TypeOK /\ TrailInOrder /\ Lists /\ Counted /\ Recording /\ KeysThere
      /\ CleanerKnows /\ OldOrRaced
  BY DEF TrailInv
<1>3. /\ DOMAIN trail' = DOMAIN trail \ {user}
      /\ \A u \in DOMAIN trail' : trail'[u] = trail[u]
      /\ user \in DOMAIN trail
  BY <1>1, <1>2 DEF KeysThere
<1>4. /\ KeysThere' /\ CleanerKnows' /\ todo' \subseteq Users
      /\ user' \in Users \union {"none"} /\ pc' \in {"idle", "count"}
  BY <1>1, <1>3, NextKeyTrail
<1>5. Lists'
  BY <1>1, <1>2, <1>3 DEF Lists
<1>6. TrailInOrder'
  BY <1>2, <1>3 DEF TrailInOrder, Exists
<1>7. Counted' /\ Recording'
  BY <1>1, <1>2, <1>3 DEF Counted, Recording, NextId, Exists
<1>8. OldOrRaced'
  <2> SUFFICES ASSUME NEW x \in accepted \ raced, ~TooOld(x.ts)
               PROVE  x \in OnTrail(x.user)'
    BY <1>1 DEF OldOrRaced, TooOld
  <2>1. x \in OnTrail(x.user)
    BY <1>2 DEF OldOrRaced
  <2>2. x.user # user
    <3>1. OnTrail(user) = {trail[user][i] : i \in 1 .. Len(trail[user])}
      BY <1>2, <1>3, ListLength
    <3>2. OnTrail(user) \subseteq raced
      BY <3>1, <1>1, <1>2 DEF CleanerKnows
    <3> QED
      BY <2>1, <3>2
  <2> QED
    BY <2>1, <2>2, <1>3 DEF OnTrail, Exists
<1>9. TypeOK'
  <2>1. \A u \in Users : OnTrail(u)' \subseteq OnTrail(u)
    BY <1>3 DEF OnTrail, Exists
  <2>2. DOMAIN trail' \subseteq Users
    BY <1>2, <1>3 DEF TypeOK
  <2>3. pc' \in {"idle", "count", "times", "trim", "check", "forget"}
    BY <1>4
  <2> QED
    BY <2>1, <2>2, <2>3, <1>1, <1>2, <1>4 DEF TypeOK
<1> QED
  BY <1>4, <1>5, <1>6, <1>7, <1>8, <1>9 DEF TrailInv

LEMMA CleanTrail ==
    ASSUME AgesAssumption, TrailBounds, TrailInv, Clean
    PROVE  TrailInv'
<1>0. /\ TypeOK /\ Lists /\ Recording /\ KeysThere /\ CleanerKnows
  BY DEF TrailInv
<1>1. CASE StartPass
  <2>1. /\ todo' = DOMAIN trail /\ UNCHANGED <<now, trail, share, step, connected, count,
                                                last, accepted, raced>>
        /\ pc' = IF todo' = {} THEN "idle" ELSE "count"
        /\ user' = IF todo' = {} THEN "none" ELSE CHOOSE u \in todo' : TRUE
    BY <1>1 DEF StartPass, recVars, histVars
  <2>2. todo' \subseteq Users /\ user' \in Users \union {"none"}
        /\ (pc' # "idle" => user' \in todo')
    BY <2>1, <1>0 DEF TypeOK
  <2>3. Recording' /\ KeysThere' /\ CleanerKnows'
    BY <2>1, <2>2, <1>0 DEF Recording, NextId, Exists, KeysThere, CleanerKnows
  <2>4. TypeOK'
    BY <2>1, <2>2, <1>0 DEF TypeOK, OnTrail, Exists
  <2> QED
    BY <2>1, <2>3, <2>4, ListsUnchanged DEF TrailInv
<1>2. CASE ReadCount
  <2>1. /\ pc = "count" /\ count' = Len(trail[user]) /\ pc' = "times"
        /\ UNCHANGED <<now, trail, share, step, connected, todo, user, last, passes,
                       accepted, raced>>
    BY <1>2 DEF ReadCount, recVars, histVars
  <2>2. user \in DOMAIN trail /\ Len(trail[user]) \in 0 .. MaxShares
    BY <2>1, <1>0, ListBounded DEF KeysThere
  <2>3. Recording' /\ KeysThere'
    BY <2>1, <1>0 DEF Recording, NextId, Exists, KeysThere
  <2>4. CleanerKnows'
    <3>1. \A i \in 1 .. Len(trail[user]) : ~(i > Len(trail[user]))
      BY <2>2 DEF TrailBounds
    <3>2. Len(trail[user]) <= Len(trail[user])
      BY <2>2 DEF TrailBounds
    <3> QED
      BY <2>1, <3>1, <3>2 DEF CleanerKnows
  <2>5. TypeOK'
    BY <2>1, <2>2, <1>0 DEF TypeOK, OnTrail, Exists
  <2> QED
    BY <2>1, <2>3, <2>4, <2>5, ListsUnchanged DEF TrailInv
<1>3. CASE CheckEmpty
  <2>1. pc = "check" /\ UNCHANGED <<now, trail, share, step, connected, count, last,
                                     passes, accepted, raced>>
    BY <1>3 DEF CheckEmpty, recVars, histVars
  <2>2. Recording'
    BY <2>1, <1>0 DEF Recording, NextId, Exists
  <2>3. CASE Len(trail[user]) = 0
    <3>1. pc' = "forget" /\ UNCHANGED <<todo, user>>
      BY <1>3, <2>3 DEF CheckEmpty
    <3>2. KeysThere' /\ CleanerKnows' /\ TypeOK'
      BY <2>1, <2>3, <3>1, <1>0 DEF KeysThere, CleanerKnows, TypeOK, OnTrail, Exists
    <3> QED
      BY <2>1, <2>2, <3>2, ListsUnchanged DEF TrailInv
  <2>4. CASE Len(trail[user]) # 0
    <3>1. NextKey
      BY <1>3, <2>4 DEF CheckEmpty
    <3>2. /\ KeysThere' /\ CleanerKnows' /\ todo' \subseteq Users
          /\ user' \in Users \union {"none"} /\ pc' \in {"idle", "count"}
      BY <2>1, <3>1, NextKeyTrail
    <3>3. TypeOK'
      BY <2>1, <3>2, <1>0 DEF TypeOK, OnTrail, Exists
    <3> QED
      BY <2>1, <2>2, <3>2, <3>3, ListsUnchanged DEF TrailInv
  <2> QED
    BY <2>3, <2>4
<1>4. CASE Abort
  <2>1. /\ pc' = "idle" /\ todo' = {} /\ user' = "none"
        /\ UNCHANGED <<now, trail, share, step, connected, count, last, passes,
                       accepted, raced>>
    BY <1>4 DEF Abort, recVars, histVars
  <2>2. Recording' /\ KeysThere' /\ CleanerKnows' /\ TypeOK'
    BY <2>1, <1>0 DEF Recording, NextId, Exists, KeysThere, CleanerKnows, TypeOK, OnTrail
  <2> QED
    BY <2>1, <2>2, ListsUnchanged DEF TrailInv
<1> QED
  BY <1>1, <1>2, <1>3, <1>4, ReadTimesTrail, TrimTrail, ForgetTrail DEF Clean

LEMMA NextTrail ==
    ASSUME AgesAssumption, TrailBounds, TrailInv, [Next]_vars
    PROVE  TrailInv'
<1>1. CASE UNCHANGED vars
  <2>1. UNCHANGED <<now, trail, share, step, connected, pc, todo, user, count, last,
                    passes, accepted, raced>>
    BY <1>1 DEF vars, recVars, cleanVars, histVars
  <2>2. TypeOK' /\ Recording' /\ KeysThere' /\ CleanerKnows'
    BY <2>1 DEF TrailInv, TypeOK, Recording, NextId, KeysThere, CleanerKnows, TooOld,
       OnTrail, Exists
  <2> QED
    BY <2>1, <2>2, ListsUnchanged DEF TrailInv
<1> QED
  BY <1>1, TickTrail, RecordTrail, CleanTrail DEF Next

(* The lists keep their types, their order and everything else TrailInv    *)
(* says, whatever the proxy and the cleaner do in between.                 *)
THEOREM TrailInvariant ==
    ASSUME AgesAssumption, TrailBounds
    PROVE  Spec => []TrailInv
<1>1. Init => TrailInv
  BY InitTrail
<1>2. TrailInv /\ [Next]_vars => TrailInv'
  BY NextTrail
<1> QED
  BY <1>1, <1>2, PTL DEF Spec

(* The cleaner may stop at the first young share: lists are in order.      *)
THEOREM ListsStayInOrder ==
    ASSUME AgesAssumption, TrailBounds
    PROVE  Spec => [](TypeOK /\ TrailInOrder)
<1>1. TrailInv => TypeOK /\ TrailInOrder
  BY DEF TrailInv
<1> QED
  BY <1>1, TrailInvariant, PTL

(* What is too old for every window that may still be split is all that an *)
(* intact trail may lack.                                                  *)
LEMMA WindowKept ==
    ASSUME AgesAssumption, TrailBounds, TrailInv
    PROVE  WindowIntact
<1> SUFFICES ASSUME NEW b \in 0 .. now, now - b <= Keep - Window,
           NEW s \in accepted \ raced, InWindow(s, b)
             PROVE  s \in OnTrail(s.user)
  BY DEF WindowIntact
<1>1. TooOld(s.ts) \/ s \in OnTrail(s.user)
  BY DEF TrailInv, OldOrRaced
<1>2. s \in Shares /\ now \in Nat
  BY DEF TrailInv, Counted, TypeOK, TrailBounds
<1>3. s.ts \in Nat /\ now \in Nat /\ Keep \in Nat /\ Window \in Nat
  BY <1>2, ShareFields DEF AgesAssumption, TrailBounds
<1> QED
  BY <1>1, <1>3 DEF InWindow, TooOld

(* Whoever may still be paid for a block finds all shares of its window,   *)
(* those apart that raced with the cleaner.                                *)
THEOREM WindowsStayIntact ==
    ASSUME AgesAssumption, TrailBounds
    PROVE  Spec => []WindowIntact
<1>1. TrailInv => WindowIntact
  BY WindowKept
<1> QED
  BY <1>1, TrailInvariant, PTL

(* A pass that is done with a list has left nothing in it that is too old. *)
LEMMA PassesRemove ==
    ASSUME TrailInv, [Next]_vars
    PROVE  PassRemovesOld
<1> SUFFICES ASSUME NEW u \in Users, KeyFinished(u), NEW s \in OnTrail(u)'
             PROVE  ~TooOld(s.ts)
  BY DEF PassRemovesOld
<1>1. u = user /\ Lists /\ CleanerKnows /\ KeysThere
  BY DEF KeyFinished, CheckEmpty, Forget, NextKey, TrailInv
<1>2. CASE CheckEmpty
  <2>1. pc = "check" /\ trail' = trail /\ user \in DOMAIN trail
    BY <1>1, <1>2 DEF CheckEmpty, KeysThere
  <2>2. OnTrail(u)' = {trail[user][i] : i \in 1 .. Len(trail[user])}
    BY <1>1, <2>1, ListLength DEF OnTrail, Exists
  <2> QED
    BY <1>1, <2>1, <2>2 DEF CleanerKnows
<1>3. CASE Forget
  BY <1>1, <1>3 DEF Forget, OnTrail, Exists
<1> QED
  BY <1>2, <1>3 DEF KeyFinished

(* So the cleaner, whenever it leaves a list, has removed what was due.    *)
THEOREM PassesRemoveOld ==
    ASSUME AgesAssumption, TrailBounds
    PROVE  Spec => [][PassRemovesOld]_vars
<1>1. TrailInv /\ [Next]_vars => [PassRemovesOld]_vars
  BY PassesRemove
<1> QED
  BY <1>1, TrailInvariant, PTL DEF Spec
=============================================================================
