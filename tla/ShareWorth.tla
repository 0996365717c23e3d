----------------------------- MODULE ShareWorth -----------------------------
(***************************************************************************)
(* What a share is worth, as a pool, the proxy and the miner reckon it     *)
(* (Job, JobResult, Miner, CustomDiff).  A target is a number a result     *)
(* must be below; a difficulty is the greatest number divided by it.  A    *)
(* pool says a target in a whole word or in the upper half of one, a       *)
(* daemon says a difficulty, a miner's owner may ask for one of his own,   *)
(* and every division rounds down.  Here a miner gets jobs; a result may   *)
(* be submitted at any time and changes nothing of this, so the properties *)
(* are about every result below the target that was shown last, or the     *)
(* time before.                                                            *)
(***************************************************************************)
EXTENDS Integers, Sequences

CONSTANTS HalfBits,   \* bits of half a word: 32
          IntMax,     \* INT_MAX: one bit less than half a word
          MinCustom,  \* the least difficulty an owner may ask for: 100
          Texts,      \* targets pools send: <<"half" or "word", number>>
          Diffs,      \* difficulties daemons send
          Asked       \* numbers in the configuration and behind '+' in a user

Half == 2 ^ HalfBits - 1
Whole == 2 ^ (2 * HalfBits) - 1

WorthAssumption ==
    /\ HalfBits \in Nat \ {0} /\ IntMax = 2 ^ (HalfBits - 1) - 1
    /\ MinCustom \in Nat \ {0} /\ Diffs \subseteq 0..Whole /\ Asked \subseteq Nat
    /\ \A t \in Texts : \/ t[1] = "half" /\ t[2] \in 1..Half
                        \/ t[1] = "word" /\ t[2] \in 0..Whole

VARIABLES custom,   \* Miner::m_customDiff, 0 for none
          diff,     \* Miner::m_diff
          shown     \* what the miner was sent: the last job and the one before

vars == <<custom, diff, shown>>

---------------------------------------------------------------------------
ToDiff(target) == IF target = 0 THEN 0 ELSE Whole \div target

\* Job::setTarget's parse
TargetOf(text) == IF text[1] = "half" THEN Whole \div (Half \div text[2]) ELSE text[2]

\* Job::setTarget and Job::setDiff; the text is what the miner is sent
SetTarget(text) == [target |-> TargetOf(text), diff |-> ToDiff(TargetOf(text)), text |-> text]
SetDiff(d) == [target |-> ToDiff(d), diff |-> d, text |-> <<"word", ToDiff(d)>>]

IsValid(job) == job.diff > 0

\* Miner::diff
Least(job) == IF custom # 0 /\ custom < job.diff THEN custom ELSE job.diff

\* The text of an own difficulty: the upper half of its target
OwnText(d) == <<"half", (Whole \div d) \div (Half + 1)>>

---------------------------------------------------------------------------
\* Config::setCustomDiff and CustomDiff::login
Allowed(d) == d >= MinCustom /\ d < IntMax

CustomOf(config, user) == IF Allowed(user) THEN user ELSE IF Allowed(config) THEN config ELSE 0

Init == /\ \E config, user \in Asked : custom = CustomOf(config, user)
        /\ diff = 0
        /\ shown = <<>>

Show(job, text) == /\ diff' = job.diff
                   /\ shown' = SubSeq(<<[job |-> job, text |-> text]>> \o shown, 1, IF shown = <<>> THEN 1 ELSE 2)
                   /\ UNCHANGED custom

\* Miner::setJob
SetJob(job) == Show(job, IF custom # 0 /\ custom < job.diff THEN OwnText(custom) ELSE job.text)

\* A job of a pool, if its target is not refused
PoolJob(text) == TargetOf(text) # 0 /\ SetJob(SetTarget(text))

\* A job of a daemon
DaemonJob(d) == IsValid(SetDiff(d)) /\ SetJob(SetDiff(d))

\* Miner::forwardJob, of the donation's pool: as it came
ForwardJob(text) == TargetOf(text) # 0 /\ Show(SetTarget(text), text)

Next == \/ \E text \in Texts : PoolJob(text) \/ ForwardJob(text)
        \/ \E d \in Diffs : DaemonJob(d)

Spec == Init /\ [][Next]_vars

---------------------------------------------------------------------------
\* JobResult's constructor
ActualDiff(result) == IF result > 0 THEN ToDiff(result) ELSE 0

\* Miner::parseRequest of "submit"
Verdict(result) ==
    LET actual == ActualDiff(result)
    IN  CASE actual = 0 \/ actual < Least(shown[1].job) -> "low"
          [] actual >= Least(shown[1].job) /\ custom # 0 /\ actual < diff -> "own"
          [] OTHER -> "pool"

\* The difficulty that is booked for it, if no pool refuses it
Credit(result) == CASE Verdict(result) = "low"  -> 0
                    [] Verdict(result) = "own"  -> custom
                    [] Verdict(result) = "pool" -> shown[1].job.diff

\* What a miner finds for one of the jobs it was sent
Found(i) == 1..(TargetOf(shown[i].text) - 1)

---------------------------------------------------------------------------
TypeOK == /\ custom \in 0..IntMax /\ diff \in 0..Whole
          /\ Len(shown) <= 2
          /\ \A i \in DOMAIN shown : shown[i].job.target \in 1..Whole /\ shown[i].job.diff \in 1..Whole

(* A share that is below the target its miner was shown is not refused as  *)
(* low, however often that target was divided on its way; but one of the   *)
(* job before may be, if less was asked then.                              *)
FoundNotRefused ==
    \A i \in DOMAIN shown : \A result \in Found(i) :
        Verdict(result) = "low" => i = 2 /\ Least(shown[1].job) > Least(shown[2].job)

(* A share that is good enough for the pool reaches it and is not kept as  *)
(* one of the owner's own difficulty; again but for the job before, if it  *)
(* asked less.                                                             *)
WorthReachesPool ==
    \A i \in DOMAIN shown : \A result \in Found(i) :
        result < shown[i].job.target =>
            Verdict(result) = "pool" \/ (i = 2 /\ shown[1].job.diff > shown[2].job.diff)

(* Nobody is credited more than his share is worth.                        *)
CreditEarned == \A i \in DOMAIN shown : \A result \in Found(i) : Credit(result) <= ActualDiff(result)

(* The target a miner is shown asks for what the proxy asks for, and less  *)
(* than twice that.                                                        *)
ShownAsAsked ==
    \A i \in DOMAIN shown :
        LET asked == IF shown[i].text = shown[i].job.text THEN shown[i].job.diff ELSE custom
            meant == ToDiff(TargetOf(shown[i].text))
        IN  asked <= meant /\ meant < 2 * asked
=============================================================================
