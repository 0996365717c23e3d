------------------------------ MODULE LogFile ------------------------------
(***************************************************************************)
(* Log with its backends, FileLogWriter, and AccessLog, which has a writer *)
(* of its own: how a line that a thread prints comes into a file.          *)
(*                                                                         *)
(* print() formats under the mutex of LogPrivate and hands the line to     *)
(* each backend; FileLog takes the one without colours and gives it to the *)
(* writer, which queues it and wakes the loop by an async handle.  The     *)
(* loop turns the queue into write requests, each with its place, that the *)
(* thread pool of libuv serves in any order.                               *)
(*                                                                         *)
(* A line is a record: who prints, which print of his it is, and its size  *)
(* in blocks; a cell of the file is a block of a line or Hole.             *)
(***************************************************************************)
EXTENDS Integers, Sequences, FiniteSets

CONSTANTS Threads,   \* who prints; the loop's thread is one of them
          MaxPrints, \* bound of the prints of one thread
          MaxSize,   \* blocks of the longest line
          MaxRuns,   \* bound of the runs of the program over one file
          Fails      \* bound of the writes that fail

LogAssumption == {MaxPrints, MaxSize, MaxRuns, Fails} \subseteq Nat

VARIABLES log,      \* d: "none", "open" with its file, "bare" without one
          run,      \* which run of the program this is
          printed,  \* the lines printed to a writer, in order
          buffers,  \* m_buffers
          lock,     \* m_buffersLock is held by flush()
          next,     \* the buffer whose request is issued next
          upto,     \* the end of the queue when flush() began
          woken,    \* m_flushAsync has been sent
          requests, \* the writes under way
          pos,      \* m_pos
          file,     \* what is on the disk
          lost,     \* the lines whose write has failed, or that died with a run
          fails

vars == <<log, run, printed, buffers, lock, next, upto, woken, requests, pos, file, lost, fails>>

Lines == [by: Threads, run: 1 .. MaxRuns, n: 1 .. MaxPrints + 1, size: 1 .. MaxSize]
Hole  == [by |-> "nobody"]
Block(l, k) == [by |-> l.by, run |-> l.run, n |-> l.n, k |-> k]
BlocksOf(l) == {Block(l, k) : k \in 1 .. l.size}
OnDisk(l)   == BlocksOf(l) \subseteq {file[i] : i \in DOMAIN file}

Prints(t) == Cardinality({i \in DOMAIN printed : printed[i].by = t /\ printed[i].run = run})

\* bug: a new file is assumed
OpenAtZero == 0

(* open(): the file is neither truncated nor opened for appending; the     *)
(* writer goes on where it ends.                                           *)
OpenAt == Len(file)

(* Log::init() and, when there is a log file that opens, add(FileLog).     *)
Start == /\ log = "none" /\ run < MaxRuns /\ requests = {}
         /\ run' = run + 1 /\ lock' = FALSE /\ next' = 1 /\ upto' = 0 /\ woken' = FALSE
         /\ \/ log' = "open" /\ pos' = OpenAt
            \/ log' = "bare" /\ pos' = 0
         /\ UNCHANGED <<printed, buffers, requests, file, lost, fails>>

(* uv_mutex_lock() of the writer.                                          *)
Guarded == ~lock

(* uv_async_send().                                                        *)
Wakes == TRUE

Queue(l) == Append(buffers, l)

(* Log::print() and FileLogWriter::write(); writeLine() for the access log.*)
PrintLine(t) == /\ log = "open" /\ Guarded /\ Prints(t) < MaxPrints
            /\ \E size \in 1 .. MaxSize :
                   LET l == [by |-> t, run |-> run, n |-> Prints(t) + 1, size |-> size] IN
                   /\ printed' = Append(printed, l)
                   /\ buffers' = Queue(l)
            /\ woken' = Wakes
            /\ UNCHANGED <<log, run, lock, next, upto, requests, pos, file, lost, fails>>

(* flush(): the async callback takes the lock ...                          *)
FlushBegin == /\ log = "open" /\ woken /\ ~lock
              /\ woken' = FALSE /\ lock' = TRUE /\ next' = 1 /\ upto' = Len(buffers)
              /\ UNCHANGED <<log, run, printed, buffers, requests, pos, file, lost, fails>>

(* m_pos += buf.len, at once.                                              *)
Advance(l) == l.size

(* ... issues a write per buffer ...                                       *)
FlushOne == /\ lock /\ next <= upto
            /\ requests' = requests \union {[line |-> buffers[next], at |-> pos]}
            /\ pos' = pos + Advance(buffers[next]) /\ next' = next + 1
            /\ UNCHANGED <<log, run, printed, buffers, lock, upto, woken, file, lost, fails>>

(* ... and clears the queue.                                               *)
FlushEnd == /\ lock /\ next > upto
            /\ buffers' = <<>> /\ lock' = FALSE /\ next' = 1 /\ upto' = 0
            /\ UNCHANGED <<log, run, printed, woken, requests, pos, file, lost, fails>>

Longer(a, b) == IF a > b THEN a ELSE b
Written(r) == [i \in 1 .. Longer(Len(file), r.at + r.line.size) |->
                  CASE i \in r.at + 1 .. r.at + r.line.size -> Block(r.line, i - r.at)
                    [] i \in DOMAIN file                    -> file[i]
                    [] OTHER                                -> Hole]

(* fsWriteCallback() frees the buffer and looks at no result.              *)
WriteDone == \E r \in requests :
                 /\ requests' = requests \ {r}
                 /\ \/ file' = Written(r) /\ UNCHANGED <<lost, fails>>
                    \/ /\ fails < Fails /\ fails' = fails + 1
                       /\ lost' = lost \union {r.line} /\ UNCHANGED file
                 /\ UNCHANGED <<log, run, printed, buffers, lock, next, upto, woken, pos>>

(* App::close(): a last line says why; then Log::destroy() deletes the     *)
(* writer, whose handle is closed without a flush.  Requests under way are *)
(* served: the loop waits for them.                                        *)
Destroy(last) == /\ printed' = printed \o last /\ log' = "none"
                 /\ buffers' = <<>> /\ woken' = FALSE /\ lock' = FALSE /\ next' = 1 /\ upto' = 0
                 /\ lost' = lost \union {(buffers \o last)[i] : i \in DOMAIN (buffers \o last)}
                 /\ UNCHANGED <<run, requests, pos, file, fails>>
CloseApp(t) ==
    /\ log # "none" /\ ~lock
    /\ Destroy(IF log = "open" THEN <<[by |-> t, run |-> run, n |-> Prints(t) + 1, size |-> 1]>>
               ELSE <<>>)

(* The process dies: what is not on the disk will not be.                  *)
Crash == /\ log # "none" /\ log' = "none"
         /\ lost' = lost \union {buffers[i] : i \in next .. Len(buffers)}
                         \union {r.line : r \in requests}
         /\ buffers' = <<>> /\ requests' = {} /\ woken' = FALSE /\ lock' = FALSE /\ next' = 1 /\ upto' = 0
         /\ UNCHANGED <<run, printed, pos, file, fails>>

Init == /\ log = "none" /\ run = 0 /\ printed = <<>> /\ buffers = <<>> /\ lock = FALSE
        /\ next = 1 /\ upto = 0 /\ woken = FALSE /\ requests = {} /\ pos = 0 /\ file = <<>>
        /\ lost = {} /\ fails = 0

Next == \/ Start \/ FlushBegin \/ FlushOne \/ FlushEnd \/ WriteDone
        \/ \E t \in Threads : PrintLine(t) \/ CloseApp(t)
        \/ Crash
Spec == Init /\ [][Next]_vars

(* The loop runs the async callback to its end, the thread pool serves the *)
(* requests.                                                               *)
FairSpec == /\ Spec /\ WF_vars(FlushBegin) /\ WF_vars(FlushOne) /\ WF_vars(FlushEnd)
            /\ WF_vars(WriteDone)

---------------------------------------------------------------------------
TypeOK ==
    /\ log \in {"none", "open", "bare"} /\ run \in 0 .. MaxRuns /\ lock \in BOOLEAN
    /\ woken \in BOOLEAN /\ pos \in Nat /\ next \in 1 .. Len(buffers) + 1
    /\ printed \in Seq(Lines) /\ buffers \in Seq(Lines) /\ lost \subseteq Lines
    /\ requests \subseteq [line: Lines, at: Nat] /\ fails \in 0 .. Fails

(* A line of the file stands alone and whole: no write lands on a block of *)
(* another one, of an earlier run either, whatever the order in which the  *)
(* pool serves them.                                                       *)
NothingOverwritten ==
    \A i \in DOMAIN file : file[i] # Hole => i \in DOMAIN file' /\ file'[i] = file[i]

Place(l) == CHOOSE i \in DOMAIN file : file[i] = Block(l, 1)

(* The lines of the file stand in the order in which they were printed.    *)
InOrder == \A i \in DOMAIN printed : \A j \in 1 .. i - 1 :
               OnDisk(printed[i]) /\ OnDisk(printed[j]) =>
                   Place(printed[j]) + printed[j].size <= Place(printed[i])

(* Every line is in the file, in the queue, under way or lost by the end   *)
(* of a run or a failed write: none is dropped or written twice.           *)
LinesAccounted ==
    \A i \in DOMAIN printed :
        LET l == printed[i]
            queued == {k \in next .. Len(buffers) : buffers[k] = l}
            under  == {r \in requests : r.line = l}
        IN  Cardinality(queued) + Cardinality(under) + (IF OnDisk(l) THEN 1 ELSE 0)
                + (IF l \in lost THEN 1 ELSE 0) = 1

(* A line printed reaches the disk in the end, unless its write fails or   *)
(* the run ends.                                                           *)
Settled(l) == l \in {printed[i] : i \in DOMAIN printed} => OnDisk(l) \/ l \in lost
=============================================================================
