--------------------------- MODULE BlockTemplate ----------------------------
(***************************************************************************)
(* A block template on its way from the daemon to the miners and back:     *)
(* BlockTemplate::parse, DaemonClient::parseJob, Miner::setJob and         *)
(* DaemonClient::submit.                                                   *)
(*                                                                         *)
(* A blob is a sequence of cells <<field, content>>: a cell is four bytes  *)
(* of the extra nonce, a digit of the count of transactions, and otherwise *)
(* a whole field.  A write puts a cell where it is told to, whatever was   *)
(* there.                                                                  *)
(*                                                                         *)
(* tpl is m_blocktemplate with its offsets, str the m_blocktemplateStr     *)
(* the shares are put into one after the other, job the job in hand with   *)
(* the miner transaction it patches for one miner after the other; up, the *)
(* pool is active; miner[m], what the proxy keeps of a session: the extra  *)
(* nonce (-1: none), the key pair and the view tag; sent, the blobs the    *)
(* miners were sent; last, the block submitted last and the blob that was  *)
(* hashed for it.                                                          *)
(***************************************************************************)
EXTENDS Integers, Sequences, SequencesExt, FiniteSetsExt, FiniteSets

CONSTANTS Miners,        \* sessions, numbered in the order of their ids
          ExtraNonces,   \* mode extra_nonce, else nicehash
          Coin,          \* "plain", "tagged", "wownero", "zephyr"
          MaxTemplates,  \* bound of the templates
          Txs,           \* the numbers of transactions of a template
          Base           \* of a varint, 128 in the code

TemplateAssumption ==
    /\ Miners \subseteq Nat \ {0} /\ IsFiniteSet(Miners) /\ ExtraNonces \in BOOLEAN
    /\ Coin \in {"plain", "tagged", "wownero", "zephyr"}
    /\ MaxTemplates \in Nat /\ Txs \subseteq Nat /\ Base \in Nat \ {0, 1}

VARIABLES tpl, str, job, up, miner, sent, last, count

vars == <<tpl, str, job, up, miner, sent, last, count>>

---------------------------------------------------------------------------
(* The tree hash over the transactions, bottom up, in place, keeping the   *)
(* branch of the first leaf, the miner transaction.  A hash is what was    *)
(* hashed: two are equal only when made of the same leaves in one order.   *)
Pair(x, y) == <<"h", x, y>>

(* The largest power of two that is not above n, and its exponent.         *)
Exponent(n) == Max({k \in 0 .. n : 2 ^ k <= n})
Count(n)    == 2 ^ Exponent(n)

(* The lowest level is made a power of two: its last leaves are paired.    *)
Ints(hs) == LET n   == Len(hs)
                cnt == Count(n)
                s   == 2 * cnt - n
            IN  [j \in 1 .. cnt |-> IF j <= s THEN hs[j] ELSE Pair(hs[2 * j - s - 1], hs[2 * j - s])]

(* One round of the loop: the sibling of the first is kept.                *)
Up(t) == [ints   |-> [j \in 1 .. Len(t.ints) \div 2 |-> Pair(t.ints[2 * j - 1], t.ints[2 * j])],
          branch |-> Append(t.branch, t.ints[2])]

(* calculateMerkleTreeHash(): the root and the branch.                     *)
TreeHash(hs) ==
    IF Len(hs) = 1 THEN [root |-> hs[1], branch |-> <<>>]
    ELSE LET rounds == [k \in 1 .. Exponent(Len(hs)) |-> k]
             top    == FoldLeft(LAMBDA t, k : Up(t), [ints |-> Ints(hs), branch |-> <<>>], rounds)
         IN  [root |-> top.ints[1], branch |-> top.branch]

(* calculateRootHash(): from the first leaf up the branch.                 *)
RootHash(leaf, branch) == FoldLeft(Pair, leaf, branch)

(* What a tree hash is, from the top: of n leaves the left half gets as    *)
(* many as a complete tree with its deepest leaves on the right has there. *)
RefRoot(hs) ==
    LET R[p \in (1 .. Len(hs)) \X (1 .. Len(hs))] ==
            LET n    == p[2] - p[1] + 1
                left == Max({Count(n) \div 2, n - Count(n)})
            IN  IF n = 1 THEN hs[p[1]]
                ELSE Pair(R[<<p[1], p[1] + left - 1>>], R[<<p[1] + left, p[2]>>])
    IN  R[<<1, Len(hs)>>]

---------------------------------------------------------------------------
(* A varint: the digits but the last are marked.                           *)
Digits(k) ==
    LET n == Min({i \in 1 .. k + 1 : k < Base ^ i})
    IN  [i \in 1 .. n |-> <<"count", <<(k \div Base ^ (i - 1)) % Base, i < n>>>>]

(* getVarint(): what is read and where it ends.                            *)
Varint(b, at) ==
    LET end == Min({i \in at .. Len(b) : b[i][1] = "count" /\ ~b[i][2][2]})
    IN  [value |-> FoldLeft(LAMBDA v, i : v + b[at + i - 1][2][1] * Base ^ (i - 1), 0,
                            [i \in 1 .. end - at + 1 |-> i]),
         end   |-> end]

---------------------------------------------------------------------------
(* The templates of a daemon.  wide: a varint of the miner transaction has *)
(* one byte more; nonceFirst: the extra nonce comes before the public key; *)
(* bad: the extra field has a tag the parser does not know, or the hashing *)
(* blob is refused after the template was parsed.                          *)
Shapes == [wide : BOOLEAN, nonceFirst : BOOLEAN, bad : {"no", "tag", "blob"}, txs : Txs]

Tagged == Coin \in {"tagged", "wownero"}
Signed == Coin = "wownero"

PubField   == <<<<"tag", <<"pub">>>>, <<"pub", <<"daemon">>>>>>
NonceField == <<<<"tag", <<"nonce">>>>, <<"extra", <<0>>>>, <<"extra", <<0>>>>>>
OtherField == <<<<"tag", <<"other">>>>>>

Header(id) == <<<<"head", <<id>>>>, <<"nonce", <<0>>>>>>
              \o (IF Signed THEN <<<<"sig", <<"none">>>>, <<"vote", <<0>>>>>> ELSE <<>>)
              \o (IF Coin = "zephyr" THEN <<<<"price", <<id>>>>>> ELSE <<>>)

Template(s, id) ==
    LET other == IF s.bad = "tag" THEN OtherField ELSE <<>> IN
    Header(id)
    \o <<<<"amount", <<id>>>>>> \o (IF s.wide THEN <<<<"amount", <<id>>>>>> ELSE <<>>)
    \o <<<<"eph", <<"daemon">>>>>> \o (IF Tagged THEN <<<<"view", <<"daemon">>>>>> ELSE <<>>)
    \o (IF s.nonceFirst THEN NonceField \o other \o PubField ELSE PubField \o other \o NonceField)
    \o <<<<"rct", <<0>>>>>> \o Digits(s.txs) \o [i \in 1 .. s.txs |-> <<"hash", <<i>>>>]

---------------------------------------------------------------------------
(* parse(): the extra field is read up to a tag that is not known; what is *)
(* not met keeps its offset.                                               *)
Offsets == {"prefix", "end", "eph", "pub", "xnonce"}

Stop(b) == Min({Len(b) + 1} \union {i \in 1 .. Len(b) : b[i] = <<"tag", <<"other">>>>})
Places(b, f) == {i \in 1 .. Stop(b) - 1 : b[i][1] = f}

Place(o, b) == CASE o = "prefix" -> Places(b, "amount")
                 [] o = "end"    -> Places(b, "rct")
                 [] o = "eph"    -> Places(b, "eph")
                 [] o = "pub"    -> Places(b, "pub")
                 [] o = "xnonce" -> Places(b, "extra")

MinerTxHash(prefix) == <<"minertx", prefix>>

Prefix(b, off) == SubSeq(b, off["prefix"], off["end"] - 1)

(* Behind the miner transaction and its one byte: how many hashes follow.  *)
Counted(b, off) == Varint(b, off["end"] + 1)

(* m_hashes: the miner transaction's, then those in the template.          *)
Hashes(b, off) ==
    LET num == Counted(b, off)
    IN  <<MinerTxHash(Prefix(b, off))>> \o SubSeq(b, num.end + 1, num.end + num.value)

ParseFields(t) ==
    LET b   == t.blob
        off == [o \in Offsets |-> IF Place(o, b) = {} THEN t.off[o] ELSE Min(Place(o, b))]
        ok  == Stop(b) > Len(b)
    IN  [t EXCEPT !.ok = ok, !.off = off,
                  !.branch = IF ok THEN TreeHash(Hashes(b, off)).branch ELSE @,
                  !.root   = IF ok THEN TreeHash(Hashes(b, off)).root ELSE @]

(* The blob is taken before it is read, and stays when it is refused.      *)
Parse(t, b) == ParseFields([t EXCEPT !.blob = b])

(* generateHashingBlob() of a template: what the daemon sends with it, and *)
(* what it hashes itself when the block comes back.                        *)
HashingBlob(b) ==
    LET off == [o \in Offsets |-> Min(Place(o, b))]
        hs  == Hashes(b, off)
    IN  SubSeq(b, 1, off["prefix"] - 1) \o <<<<"root", RefRoot(hs)>>>> \o Digits(Len(hs))

Put(b, at, cell) == [b EXCEPT ![at] = cell]

---------------------------------------------------------------------------
Fresh == [ok |-> FALSE, off |-> [o \in Offsets |-> 0], blob |-> <<>>, branch |-> <<>>, root |-> <<>>]
NoJob == [id |-> 0, blob |-> <<>>, prefix |-> <<>>, off |-> Fresh.off, branch |-> <<>>]
Away  == [on |-> FALSE, extra |-> -1, key |-> <<"none">>, view |-> <<"unset">>]
None  == [block |-> <<>>, hashed |-> <<>>]

Init == /\ tpl = Fresh /\ str = <<>> /\ job = NoJob /\ up = FALSE /\ count = 0
        /\ miner = [m \in Miners |-> Away] /\ sent = {} /\ last = None

(* The nonce is where the header of a plain coin has it; after it the root,*)
(* or the signature and the vote.                                          *)
NonceAt == 2
RootAt  == NonceAt + 1 + (IF Signed THEN 2 ELSE 0)

(* Job::copy() and Job::move(), from the client that made a job to the     *)
(* storage that serves it: a transaction is worth nothing without the      *)
(* offsets to patch it at and the branch to hash it with.                  *)
Carried(j) == [id |-> j.id, blob |-> j.blob, prefix |-> j.prefix, off |-> j.off, branch |-> j.branch]

(* The offsets of a job count from the start of the miner transaction.     *)
In(j, o) == j.off[o] - j.off["prefix"] + 1

(* The miner transaction of the job, for one session.                      *)
Written(j, s, x) ==
    LET keyed == IF Signed THEN Put(Put(j.prefix, In(j, "pub"), <<"pub", s.key>>),
                                    In(j, "eph"), <<"eph", s.key>>) ELSE j.prefix
        seen  == IF Tagged THEN Put(keyed, In(j, "eph") + 1, <<"view", s.view>>) ELSE keyed
    IN  IF x >= 0 THEN Put(seen, In(j, "xnonce"), <<"extra", <<x>>>>) ELSE seen

(* Job::generateHashingBlob(), where the transaction was written to.       *)
BlobFor(j) ==
    IF Signed \/ ExtraNonces
    THEN Put(j.blob, RootAt, <<"root", RootHash(MinerTxHash(j.prefix), j.branch)>>)
    ELSE j.blob

(* generateSignatureData(): the keys of the transaction, and with them the *)
(* view tag, new every time.                                               *)
KeyPair(j, m) == <<"key", j, m>>

(* Miner::setJob(): a new key pair where the coin asks for one.  The job   *)
(* is the storage's own: what is written for one miner is there when the   *)
(* next is served.                                                         *)
Served(a, m) ==
    LET s == [a.miner[m] EXCEPT !.key  = IF Signed THEN KeyPair(a.job.id, m) ELSE @,
                                !.view = IF Signed THEN KeyPair(a.job.id, m) ELSE @,
                                !.extra = IF ExtraNonces THEN a.next ELSE @]
        j == [a.job EXCEPT !.prefix = Written(a.job, s, s.extra)]
    IN  [job   |-> j, next |-> a.next + 1, miner |-> [a.miner EXCEPT ![m] = s],
         sent  |-> a.sent \union {[m |-> m, job |-> j.id, blob |-> BlobFor(j), key |-> s.key]}]

ServedAll(ms, j, n) == FoldLeft(Served, [job |-> j, next |-> n, miner |-> miner, sent |-> sent], ms)

Here == SetToSortSeq({m \in Miners : miner[m].on}, <)

(* A template comes.  One that is refused leaves the job and the string it *)
(* found, and takes the pool down.                                         *)
Receive(s) ==
    LET b == Template(s, count + 1)
        t == Parse(tpl, b)
        j == [id |-> count + 1, blob |-> HashingBlob(b), off |-> t.off,
              prefix |-> Prefix(b, t.off), branch |-> t.branch]
        a == ServedAll(Here, Carried(j), 1)
    IN
    /\ count < MaxTemplates /\ count' = count + 1 /\ tpl' = t
    /\ IF s.bad = "no"
       THEN /\ up' = TRUE /\ str' = b
            /\ job' = a.job /\ miner' = a.miner /\ sent' = a.sent
       ELSE /\ up' = FALSE /\ UNCHANGED <<str, job, miner, sent>>
    /\ UNCHANGED last

(* A session is made, with a view tag nobody has written, and is served    *)
(* the job in hand.                                                        *)
Login(m) ==
    /\ ~miner[m].on
    /\ \E v \in {<<"daemon">>, <<"unset">>} :
         LET s == [miner EXCEPT ![m] = [on |-> TRUE, extra |-> -1, key |-> <<"none">>, view |-> v]]
             n == Cardinality({x \in sent : x.job = job.id}) + 1
             a == Served([job |-> job, next |-> n, miner |-> s, sent |-> sent], m)
         IN  IF up THEN job' = a.job /\ miner' = a.miner /\ sent' = a.sent
             ELSE miner' = s /\ UNCHANGED <<job, sent>>
    /\ UNCHANGED <<tpl, str, up, last, count>>

\* bug: the offset of the view tag is taken for the ephemeral key's
BugPatched(b, x, s) ==
    LET nonced == Put(b, NonceAt, <<"nonce", <<x.m>>>>)
        keyed  == Put(Put(nonced, NonceAt + 1, <<"sig", x.key>>), tpl.off["pub"], <<"pub", s.key>>)
        signed == Put(keyed, tpl.off["eph"] + 1, <<"view", s.view>>)
    IN  IF s.extra < 0 THEN IF Signed THEN signed ELSE nonced
        ELSE Put(IF Signed THEN signed ELSE nonced, tpl.off["xnonce"] + 1, <<"extra", <<s.extra>>>>)

(* submit(): nonce and signature of the share, the session's present keys, *)
(* view tag and extra nonce, at the offsets of the template parsed last.   *)
Patched(b, x, s) ==
    LET nonced == Put(b, NonceAt, <<"nonce", <<x.m>>>>)
        keyed  == Put(Put(Put(nonced, NonceAt + 1, <<"sig", x.key>>), tpl.off["pub"], <<"pub", s.key>>),
                      tpl.off["eph"], <<"eph", s.key>>)
        signed == Put(keyed, tpl.off["eph"] + 1, <<"view", s.view>>)
    IN  IF s.extra < 0 THEN IF Signed THEN signed ELSE nonced
        ELSE Put(IF Signed THEN signed ELSE nonced, tpl.off["xnonce"], <<"extra", <<s.extra>>>>)

(* The miner: it hashes what it was sent with a nonce, and signs that.     *)
Hashed(x) == LET nonced == Put(x.blob, NonceAt, <<"nonce", <<x.m>>>>)
             IN  IF Signed THEN Put(nonced, NonceAt + 1, <<"sig", x.key>>) ELSE nonced

(* A share for a job that is not the template in hand goes no further.     *)
Submit(x) ==
    /\ up /\ miner[x.m].on /\ x.job = job.id
    /\ str'  = Patched(str, x, miner[x.m])
    /\ last' = [block |-> str', hashed |-> Hashed(x)]
    /\ UNCHANGED <<tpl, job, up, miner, sent, count>>

Next == \/ \E s \in Shapes : Receive(s)
        \/ \E m \in Miners : Login(m)
        \/ \E x \in sent : Submit(x)

Spec == Init /\ [][Next]_vars

---------------------------------------------------------------------------
TypeOK ==
    /\ tpl.off \in [Offsets -> Nat] /\ up \in BOOLEAN /\ count \in 0 .. MaxTemplates
    /\ job.id \in 0 .. count /\ DOMAIN miner = Miners
    /\ \A x \in sent : x.m \in Miners /\ x.job \in 1 .. count

(* The block that is submitted is the block that was hashed: the root in   *)
(* the miner's blob, made from a branch and a transaction patched at       *)
(* offsets of its own, is the root of the template patched for the share.  *)
BlockAsHashed == last # None => HashingBlob(last.block) = last.hashed

(* The tree that is built bottom up, and the branch kept of it, agree with *)
(* the tree hash for every number of transactions.                         *)
TreeAgrees ==
    tpl.ok => LET hs == Hashes(tpl.blob, tpl.off) IN
              /\ tpl.root = RefRoot(hs)
              /\ RootHash(hs[1], tpl.branch) = tpl.root

(* No two miners are sent the same work: in extra_nonce mode there is      *)
(* nothing else that keeps them apart.                                     *)
WorkApart == \A x, y \in sent : x.m # y.m => x.blob # y.blob
=============================================================================
