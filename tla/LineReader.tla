----------------------------- MODULE LineReader -----------------------------
(***************************************************************************)
(* Lines from the bytes of connections: LineReader, which keeps the        *)
(* beginning of a line until the rest of it comes, and the pool its buffer *)
(* and the buffers of reads are taken from (NetBuffer, MemPool).           *)
(*                                                                         *)
(* A connection's bytes are named by their positions 1, 2, ... in it, so   *)
(* that a line delivered is known byte by byte; ends holds the positions   *)
(* of its newlines.  A read is parsed line by line, each a step; nothing   *)
(* else happens in the meantime.                                           *)
(***************************************************************************)
EXTENDS Integers, FiniteSets, Sequences

CONSTANTS Conns,        \* connections
          Cap,          \* XMRIG_NET_BUFFER_CHUNK_SIZE
          Init0,        \* XMRIG_NET_BUFFER_INIT_CHUNKS
          MaxBytes      \* bytes of a connection

LineAssumption == Cap \in Nat \ {0} /\ Init0 \in Nat \ {0} /\ MaxBytes \in Nat

VARIABLES reader,     \* [buf, mem, out, read, at]: what is kept, its chunk or 0, the lines
                      \* delivered, the chunk of the read or 0, the first byte not parsed
          got, ends,  \* bytes received, the newlines among them
          open,       \* connections open
          blocks, free  \* MemPool: allocations made, chunks free

vars == <<reader, got, ends, open, blocks, free>>

Chunks == 1 .. blocks * Init0
Span(a, b) == [i \in 1..(b - a + 1) |-> a + i - 1]
Front(s)   == SubSeq(s, 1, Len(s) - 1)

Init ==
    /\ reader = [c \in Conns |-> [buf |-> <<>>, mem |-> 0, out |-> <<>>, read |-> 0, at |-> 1]]
    /\ got = [c \in Conns |-> 0]
    /\ ends = [c \in Conns |-> {}]
    /\ open = Conns
    /\ blocks = 0 /\ free = {}

-----------------------------------------------------------------------------
(* MemPool *)

\* resize, when nothing is free
Grown(p) ==
    IF p.free # {} THEN p
    ELSE [blocks |-> p.blocks + 1, free |-> (p.blocks * Init0 + 1) .. ((p.blocks + 1) * Init0)]

\* allocate: the first chunk that is free
First(p) == CHOOSE m \in Grown(p).free : \A k \in Grown(p).free : m <= k
Taken(p) == [Grown(p) EXCEPT !.free = @ \ {First(p)}]

Released(p, chunk) == IF chunk = 0 THEN p ELSE [p EXCEPT !.free = @ \cup {chunk}]

Pool       == [blocks |-> blocks, free |-> free]
PoolNow(p) == blocks' = p.blocks /\ free' = p.free

-----------------------------------------------------------------------------
(* LineReader; a is the reader with the pool *)

\* add: what does not fit is dropped
Add(a, s) ==
    IF Len(s) + Len(a.r.buf) > Cap THEN a
    ELSE LET b == IF a.r.mem # 0 THEN a
                  ELSE [p |-> Taken(a.p), r |-> [a.r EXCEPT !.mem = First(a.p), !.buf = <<>>]]
         IN [b EXCEPT !.r.buf = @ \o s]

\* A line with its newline: joined to what is kept, or from where it is
Line(a, line) ==
    IF a.r.buf # <<>>
    THEN LET b == Add(a, line) IN [b EXCEPT !.r.out = Append(@, Front(b.r.buf)), !.r.buf = <<>>]
    ELSE IF Len(line) > 1 THEN [a EXCEPT !.r.out = Append(@, Front(line))] ELSE a

\* reset
Reset(a) == [p |-> Released(a.p, a.r.mem), r |-> [a.r EXCEPT !.mem = 0, !.buf = <<>>]]

\* After the last newline: bytes a to b
Rest(a, b, x) == IF a > b THEN Reset(x) ELSE Add(x, Span(a, b))

-----------------------------------------------------------------------------
Idle == \A c \in Conns : reader[c].read = 0

\* The newlines of c that are still to be parsed
Coming(c) == {e \in ends[c] : e >= reader[c].at}

\* onAlloc, onRead with n bytes
OnRead(c, n, nl) ==
    /\ Idle /\ c \in open /\ got[c] + n <= MaxBytes
    /\ nl \subseteq got[c] + 1 .. got[c] + n
    /\ reader' = [reader EXCEPT ![c].read = First(Pool)]
    /\ PoolNow(Taken(Pool))
    /\ got' = [got EXCEPT ![c] = @ + n]
    /\ ends' = [ends EXCEPT ![c] = @ \cup nl]
    /\ UNCHANGED open

\* getline: memchr finds a newline
NextLine(c) ==
    /\ reader[c].read # 0
    /\ \E e \in Coming(c) :
         /\ \A i \in Coming(c) : e <= i
         /\ LET x == Line([p |-> Pool, r |-> reader[c]], Span(reader[c].at, e))
            IN reader' = [reader EXCEPT ![c] = [x.r EXCEPT !.at = e + 1]] /\ PoolNow(x.p)
    /\ UNCHANGED <<got, ends, open>>

\* ... and no more; release of the read
LastBytes(c) ==
    /\ reader[c].read # 0 /\ Coming(c) = {}
    /\ LET x == Rest(reader[c].at, got[c], [p |-> Pool, r |-> reader[c]])
       IN /\ reader' = [reader EXCEPT ![c] = [x.r EXCEPT !.at = got[c] + 1, !.read = 0]]
          /\ PoolNow(Released(x.p, reader[c].read))
    /\ UNCHANGED <<got, ends, open>>

\* The connection ends, its reader is reset or deleted
Close(c) ==
    /\ Idle /\ c \in open
    /\ open' = open \ {c}
    /\ LET x == Reset([p |-> Pool, r |-> reader[c]])
       IN reader' = [reader EXCEPT ![c] = x.r] /\ PoolNow(x.p)
    /\ UNCHANGED <<got, ends>>

Next ==
    \E c \in Conns :
      \/ \E n \in 1..Cap : \E nl \in SUBSET (got[c] + 1 .. got[c] + n) : OnRead(c, n, nl)
      \/ NextLine(c) \/ LastBytes(c)
      \/ Close(c)

Spec == Init /\ [][Next]_vars

-----------------------------------------------------------------------------
TypeOK ==
    /\ \A c \in Conns : /\ reader[c].buf \in Seq(1..MaxBytes) /\ Len(reader[c].buf) <= Cap
                        /\ {reader[c].mem, reader[c].read} \subseteq Chunks \cup {0}
                        /\ \A k \in DOMAIN reader[c].out : reader[c].out[k] \in Seq(1..MaxBytes)
                        /\ reader[c].at \in 1 .. got[c] + 1
    /\ got \in [Conns -> 0..MaxBytes]
    /\ open \subseteq Conns
    /\ free \subseteq Chunks

\* Bytes a to e - 1 of c are a line that has been parsed, e is its newline
IsLine(c, a, e) == /\ e \in ends[c] /\ e < reader[c].at /\ a < e
                   /\ a = 1 \/ a - 1 \in ends[c]
                   /\ a .. e - 1 \cap ends[c] = {}

\* The newlines of those lines that are not empty
LineEnds(c) == {e \in ends[c] : e < reader[c].at /\ e > 1 /\ e - 1 \notin ends[c]}
Upto(c, e)  == {i \in LineEnds(c) : i <= e}

\* However the bytes come in pieces, each line that is not empty is delivered once
\* and in order; a line that fits the buffer with its newline is delivered byte by
\* byte, also after one that did not fit.
LinesWhole ==
    \A c \in Conns :
        /\ Len(reader[c].out) = Cardinality(LineEnds(c))
        /\ \A e \in LineEnds(c), a \in 1 .. MaxBytes :
               IsLine(c, a, e) /\ e - a < Cap =>
                   reader[c].out[Cardinality(Upto(c, e))] = Span(a, e - 1)

\* A chunk is kept by one reader or read at most, and none that is free by any; a
\* reader that holds bytes holds a chunk.
ChunksOwned ==
    \A c \in Conns :
        /\ reader[c].mem \notin free /\ reader[c].read \notin free
        /\ reader[c].buf # <<>> => reader[c].mem # 0
        /\ \A d \in Conns :
              /\ reader[c].read # 0 => reader[c].read # reader[d].mem
              /\ c # d /\ reader[c].mem # 0  => reader[c].mem # reader[d].mem
              /\ c # d /\ reader[c].read # 0 => reader[c].read # reader[d].read

\* NetBuffer::destroy asserts that every chunk is back; with the connections gone
\* it is.
AllBack == open = {} => free = Chunks
=============================================================================
