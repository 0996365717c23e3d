# TLA+ models of p2pooler

p2pooler is a mining-pool proxy (a fork of xmrig-proxy) together with a set of
Python tools that keep a PPLNS ledger for the users of a p2pool node. Miners
connect to the proxy over stratum; the proxy shares a few upstream pool or
daemon connections among them; each accepted share is recorded in Redis; the
Python side trims the share lists, credits mined blocks to balances, pays them
out and publishes statistics.

Paths below are relative to the repository: `src/...` is the proxy's C++ code,
`python/...` the tools. `PROJECT.json` maps every definition to the lines it
models, and lists the components, the runs and the hazards.

## 1. Inventory

### The proxy: between miners and pools

One libuv thread; every callback runs to completion.

| Component | State | Operations | Talks to |
|---|---|---|---|
| `proxy/Miner` | state, mapper id, fixed byte or extra nonce, deadline, handle | accept, parse a line, send a job, reply, shutdown, close callback | `Events` |
| `proxy/Miners`, `Server`, `Counters` | registry of sessions, timer, counters | accept, close the silent, add, remove | `Miner`, `Events` |
| `proxy/Events` | the bus, with a flag that drops nested events | start, exec, send | all listeners, synchronously |
| `Login`, `CustomDiff` | password, custom difficulty | look at a login before the splitter does | `Miner` |
| `splitters/nicehash/NonceStorage` | table of 256 nonce bytes, active flag, job, previous job | add, remove, setJob, setActive, reset, isValidJobId | `Miner` |
| `.../NonceMapper` | strategy, pending strategy, donation, storage, results by sequence | add, remove, submit, gc, reload, suspend, callbacks of the strategies | strategies, storage, miners |
| `.../NonceSplitter` | the vector of mappers | login, remove, submit, gc, config change | mappers |
| `splitters/simple` | one upstream per miner, idle and released upstreams | login with reuse, remove, tick, submit, reload | strategy |
| `splitters/extra_nonce` | one upstream, a counter of extra nonces | login, job, submit | strategy, `Miner` |
| `splitters/donate`, `net/strategies/DonateStrategy` | routes of miners with a pool of their own; donation windows | timers, job routing, answers | mappers, clients |
| `stratum/strategies` (failover, single) | pool that is active, backup reached | connect, fail over, return, stop | clients, mapper |
| `stratum/Client` with Socks5 and TLS | connection state, socket, lookup, deadlines, results waited for | connect, resolve, read, submit, close, tick | strategy, DNS, libuv |
| `stratum/DaemonClient` | tip, job, timer, feed socket, requests | poll, ZMQ feed, template, submit, retry | strategy, HTTP, ZMQ |
| `stratum/SelfSelectClient` | pool job, template asked for, offers | job, template, offer, retry, submit | `Client`, HTTP |
| `BlockTemplate`, Merkle tree, job text | template, offsets, miner transaction | parse, patch per miner, hash, submit | daemon client, `Miner` |
| `Job`, `JobResult`, `Cvt`, `String` | target, difficulty; texts | set, divide, check, read and write digits | everything |
| `crypto-ops`, `Signatures`, `keccak`, `WalletAddress` | none | curve arithmetic, keys, signature, digest, addresses | template, `Miner` |
| `net/http`, `net/https` | table of contexts, connections, TLS | request, response, close | daemon and self-select client, API |
| `net/dns` | cache, queue of listeners, lookup | resolve, tell | `Client`, HTTP client |
| `LineReader`, `NetBuffer`, `MemPool` | beginning of a line, bitmap of chunks | parse, take, give back | every socket |

### The proxy: the program around it

| Component | State | Operations |
|---|---|---|
| Configuration and options | documents, configuration | transform options, chain documents, read, save, compare |
| Reload | file, watcher, running configuration | PUT /1/config, file event, replace, tell listeners |
| Listening | bind list, certificate files, servers | read addresses, make and load the certificate, bind |
| HTTP API | access rights | authorise, collect the answer, change the configuration |
| `Stats`, `Workers`, `AccessLog` | counters, rows of workers, log lines | connect, login, accept, reject, close, change of mode |
| `Log`, `FileLogWriter` | queue of lines, position in the file | print (any thread), flush, write (thread pool) |
| `Recorder` | a Redis connection | record an accepted share |
| `App`, `Controller`, `Proxy` | phases, handles of the loop | build, start, signal, close |

### The ledger: separate processes that share Redis and files

| Component | State | Operations |
|---|---|---|
| Recorder | appends to `s_<wallet>` | ARRAPPEND; on a missing key SET `[]` and ARRAPPEND again |
| Cleaner (`aterxdaemon.py`, `cleaner.py`) | none of its own | arrlen, read timestamps, arrtrim, arrlen, forget, key by key |
| Reward splitter (`aterxdaemon.py`, `reward_splitter.py`) | none of its own | per unlocked block: check `B_<height>`, value the window of every wallet, GET and SET each `b_<wallet>`, set `B_<height>` |
| Payer (`payer.py`) | the transactions of a run | read balances, batch, send, poll, GET and SET balances |
| Daemon loop (`aterxdaemon.py`, `start_aterxdaemon.sh`) | tasks, last run, pid file | cycle, sleep, signal, start, stop, kill |
| Exporter and web application (`app.py`) | files of the statistics directory | write, read, remove |
| Hashrates (`aterxdaemon.py`, `hashrate.py`) | `h_<user>`, `h_super` | two passes over users and shares |
| Proxy of the unencrypted port (`proxy.py`) | pairs of sockets, shares read in passing | select, forward, credit |

Not modelled: `EthStratumClient`, `AutoClient`, `NetworkState`, the table of
algorithms, `Platform` (section 5).

### What is hard here, and what must be right

* **Nonce space.** In nicehash mode all miners of an upstream hash one job and
  only the fixed byte tells their nonces apart; in extra-nonce mode it is the
  extra nonce. Neither may be given twice for a job, in any order of logins,
  departures, jobs, pauses and suspensions.
* **Placement.** A miner keeps an index into a vector that gc shrinks, a mapper a
  pointer to a miner that goes, a client a pointer to a mapper: sockets on both
  sides close in an order nobody chooses.
* **Answers.** A result comes back later, perhaps after its miner left, after the
  pool changed or after a reconnect, and must reach the request it belongs to, once.
* **Failover.** Lookups, connects, closes and logins of several clients overlap;
  one pool at most is active, and a pool that answers is found in the end.
* **Solo mining.** Answers of the daemon overtake each other or never come; the
  block that is submitted must be the one that was hashed, signed by the right key.
* **Resources.** Sessions, contexts, handles, chunks and counters come back on
  every way a connection can end.
* **Configuration.** What was answered with success comes into use; what is saved
  means the same when it is read; the API listens where the configuration says.
* **Retention and balances.** Two processes change a list or a balance by several
  commands each, and either may die anywhere. Money must not be lost or paid twice.
* **Arithmetic.** Carries between signed limbs, divisions that round down, and
  texts of digits are wrong for few inputs when they are wrong.

## 2. Modules

A component is one module (an abstract specification, or a part that another
component shares, has a module of its own). `MC...` modules instantiate them.
A definition that follows a comment `bug:` is a mistake somebody could plausibly
make in the definition above it or the one it is named for. The models never use
it; substituting it shows that a property notices.

In all modules a libuv callback is one action, with everything it calls. A write
that may fail, an allocation of a socket or a reply of a peer is a choice inside
it. Handles are deleted by the callback of their close, which is an action of its
own. Time is counted in ticks of the timer that looks at it.

### Upstreams and their nonces

| Module | What it is | What it shows |
|---|---|---|
| `NonceLease` | abstract: leases of `<job, slot>` are only added, for the newest job, and are exclusive | |
| `NonceStorage` | the class as operators on a record | |
| `NonceStorageSpec` | one storage as a state machine under the calls its mapper makes | refines `NonceLease`; `SlotExclusive`, `EveryoneHasJob`, `PrevJobSameSession`, `FreeSlotFound`, `MinersMatchSlots` |
| `ComponentProofs` | proofs about it, and about clients, strategy, simple splitter, donations, requests, lookups and lines | section 4 |
| `NonceSplitter` | splitter, mappers and miners together | each upstream refines `NonceStorageSpec`; `MinersPlaced`, `NobodyWaitsOnActive`, `SharesMatchSession`, `AnsweredOnceToSender`, `AnswersAttributed` |
| `NonceSplitterProofs` | proofs about it | section 4 |
| `SimpleSplitter` | one upstream per miner, kept for `reuse-timeout` | `OwnUpstream`, `IdlesExact`, `HandedOnFresh` |
| `ExtraNonce` | splitter, mapper and storage of extra-nonce mode | refines `NonceLease`; `PatchedAsHashed`, `EveryoneHasJob`, `AnsweredOnce` |
| `Donation` | one upstream between the user's strategy, a pending one and `DonateStrategy` | `ShareToOwner`, `NewestAfter` |
| `DonateRoute` | donation over the proxy: miner, mapper and client by two sockets | `PointersLive`, `OneOwner`, `AnsweredOnce`, `ShareSettled` |

**NonceStorage.** `storage` is the object: `used[i]` is 0 (free), `id` (held) or
`-id` (dead), as `m_used` in the code; `job` and `prevJob` carry an id and the
session they came from, which is all the code compares. The scan of `nextIndex`
(two loops, `index..255`, then `0..index-1`) is stated by the position at which a
slot is visited. `NumSlots` is a parameter, so an index is a member of `Slots` and
not a byte: with 256 slots every byte is a slot and nothing can overflow. A job
arrives with a fresh id, because `Client::parseJob` drops a repeated job. `given`
records what miners were sent. The guards of `NonceStorageSpec` (a miner logs in
once, is removed once, the storage is suspended only when unused) are facts about
the callers; they are not assumed but checked, as `StoragesRefined`.

**NonceSplitter.** `LoginReuse` and `LoginConnect` are `NonceSplitter::login`
(awake upstreams in order, then suspended ones, then a new one), `Shutdown` and
`Closed` the two halves of the end of a connection, `SubmitRefused` and
`SubmitForwarded` a submit, `PoolAnswer` a result, `LinkUp`, `PendingUp`, `LinkJob`
and `LinkDown` what a strategy reports, `GC` and `Reload` the timer and a
configuration change. The strategy is abstracted to `link`: not connecting,
trying or up. Two things of the real client are kept because they can hurt:
`suspend()` does not stop a client that is resolving a host name, and `reload()`
also starts strategies on suspended upstreams. The sequence of a submit is fresh
for each request (`BaseClient::m_sequence` is static).

**The other splitters** are modelled with the same `link`. In `SimpleSplitter` a
mapper whose miner left stays connected and may be given to the next one, so jobs,
the timeout and answers still under way cross the change of hands. In `Donation`
three strategies report to one listener; time is the strategy's target in ticks.

### Clients

| Module | What it is | What it shows |
|---|---|---|
| `PoolLink` | abstract: what a client promises its listener until an attempt begins beside a socket | |
| `StratumClient` | `Client` with its socket, lookup, deadlines, SOCKS5 and TLS | refines `PoolLink`; `SocketOwned`, `AssertionsHold`, `AnswersMatch`, `SharesFiled`, `NotStuck`; `ListenerThere` is violated |
| `PoolStrategy` | failover and single strategy over `PoolLink` clients | `OneUp`, `ActiveConnected`, `UpLeftAlone`, `ByFirst`, `ChainAlive`, `Served` |
| `DaemonClient` | solo mining, polling or with the ZMQ feed | `ViewExact`, `SharesFiled`, `FeedHeld`, `KeepsTrying`, `AtTip` |
| `SelfSelect` | pool jobs completed with the daemon's templates | `TemplateOfJob`, `IdleIsUp`, `NewestHanded` |
| `HttpExchange` | contexts of HTTP clients and servers, with TLS | `HeardOnce`, `SentWhereMeant`, `ForgottenFirst`, `ReplyFirst`, `OwnerTold`, `Reclaimed` |
| `Resolver` | lookups of one host, with listeners that ask again while told | `WithinTTL`, `NobodyLeft`, `ListenerTold` |
| `LineReader` | lines from pieces, chunks from the pool | `LinesWhole`, `ChunksOwned`, `AllBack` |
| `BlockTemplate` | a template from the daemon to the miners and back; the tree hash | `BlockAsHashed`, `WorkApart`, `TreeAgrees` |

`StratumClient` keeps the client as a record whose fields are the members of the
class; each method is an operator from one client to the next, and `io[h]` is what
the loop does with handle `h`. Messages are known by their kind. `PoolStrategy`
takes `PoolLink` for each of its clients, and since calls between a client and its
strategy are synchronous a client's event and the strategy's handler are one
action.

Four places of this code go on where its own rules end, and nothing in it prevents
them. The models go there too; what the code was not written for is marked by a
variable, and each property says whether it still holds behind it.

* `Client::connect` asks for neither a state nor a socket, and `client.reconnect` of a
  pool reconnects a client that has one. `strayed` says that either happened. The
  client goes on, with two sockets and any answers (`ListenerThere` is about all of
  this), but `PoolLink` calls it astray, and `PoolStrategy` lets a client that is
  astray tell anything at any time. When the strategy does so is in `twice`, and
  `UpLeftAlone` says when it does not.
* `DaemonClient::connect` asks for nothing either; `retry()` closes the feed's socket
  without asking whether it is closing, `onResolved` deletes the one there is. The
  step that hands libuv a socket twice, or deletes one that libuv holds, sets
  `broken`, and the model ends.
* `DnsUvBackend::notify` runs over its queue while who is told may ask again, which
  runs over the same queue and clears it. A loop that is at its last entry then ends,
  as the libraries compare iterators; one that is not goes on over entries that were
  destroyed: `broken`, where the model ends. Who asks while others are told that
  the lookup was refused is cleared away untold: `lost`.
* `HttpClient::onResolved` of a host that is not found returns: stage `nohost`.

`BlockTemplate` works on cells (four bytes of an extra nonce, a digit of a
count, otherwise a whole field): a write puts a cell where the code's offset says,
whatever was there.

### Sessions, books and the program

| Module | What it is | What it shows |
|---|---|---|
| `MinerSession` | server, session, registry, counters, login, bus | `CountersExact`, `PointersLive`, `RequestsAccounted`, `SilenceBound`, `EventOrder`, `NotClosing`; `SilentClosed` is violated |
| `Statistics` | `Stats`, `Workers`, `AccessLog` against what the bus told | `ConnectionsExact`, `BooksAgree`, `AccessPairs`, `ConnectionsOpen` |
| `ConfigFile` | options to documents to a configuration, and back to a file | `OwnOptions`, `AlgoOfPool`, `FreeOrder`, `LaterCounts`, `SavedServes`, `EditSeen` |
| `ConfigReload` | watcher, PUT, replacement, rebinding of the API | `ApiWhereConfigured`, `WaitsForReload`, `EditApplied`, `PutApplied` |
| `ApiAccess` | methods, rights, listeners, answers | `OnlyWithToken`, `OneReply`, `MembersOnce`, `AcceptedStays`, `FileInUse` |
| `Listening` | addresses, bind list, certificate, servers | `TlsPortsSealed`, `ProtocolsMeant`, `ListensWhereItCan`, `MadeCertificateServes`, `SavedListens`, `AddressesAgree`, `PairStays` |
| `LogFile` | threads that print, the loop that flushes, a pool that writes | `InOrder`, `LinesAccounted`, `NothingOverwritten`, `Settled` |
| `AppLife` | construction, start, signal, handles that close | `OwnersLive`, `NothingOpenAfter`, `RunsUntilTold`, `Ended` |

Sessions share only the registry and the counters, so `MinerSession` has one session and
one session's part of them. `Skew` is how far the clock a deadline is made of is ahead
of the one it is compared with: `SilenceBound` takes it into account, `SilentClosed` is
what `STRATUM.md` says. In `Statistics` a change of mode gives a row to miners whose
route the rows do not follow; `Stuck` are those. Threads are modelled in `LogFile`
alone, where `print()` takes the mutex; nothing else of the proxy is called from another
thread. `ConfigFile` has the few options that the paths of `BaseTransform` tell apart,
reads a value of the wrong kind as `Json` does (the default), and loads only a document
with an enabled pool; `EditSeen` excepts an edit of `daemon-zmq-port` alone, which
`Pool::isEqual` does not compare; `Listening` reads addresses token by token.

### What is computed

| Module | What it is | What it shows |
|---|---|---|
| `ScalarOps` | scalars on limbs: sum, product, reduction, check | `ValueKept`, `LimbsFit`, `Canonical`, `CheckExact`, `ResultPasses` |
| `FieldOps` | coordinates on ten limbs of alternating width; the two long chains of squares and products | `ValueKept`, `Fits`, `OneUnit`, `Remainder`, `OneText`, `PowerExact`, `WrittenFirst` |
| `EdwardsOps` | points: digits, tables, multiples, texts, hash to the curve | `DigitsKeep`, `DigitsFit`, `Accumulates`, `Multipliable`, `TextExact`, `HashOnCurve` |
| `Signatures` | keys of a block, signature and its check | `KeysBelong`, `SignedAccepted`, `ResponseGiven`, `IndexText` |
| `Keccak` | the sponge and the permutation in place, at their real size | `AsDefined`, `DigestKnown` |
| `WalletAddress` | the text of a wallet decoded block by block | `DataWhole`, `AcceptedIsWritten`, `WrittenIsAccepted`, `RefusedNotValid` |
| `ShareWorth` | targets and difficulties from pool to miner and back | `FoundNotRefused`, `WorthReachesPool`, `CreditEarned`, `ShownAsAsked` |
| `TextOps` | digits without a branch, splitting, joining, assignments | `ReadExact`, `WriteExact`, `SplitExact`, `BoxesHold` |

These are loops and straight lines of code stepped through with their
intermediate results, and compared with a definition in plain arithmetic. The
sizes (bits of a limb, number of limbs, the prime, the base of the digits) are
parameters. The chains of `FieldOps` are checked for the real exponents, as remainders by
enough moduli; `Keccak` at its real size against known digests.

### The ledger

| Module | What it is | What it shows |
|---|---|---|
| `ShareTrail` | Recorder and cleaner on the share lists | `TrailInOrder`, `WindowIntact`, `PassRemovesOld` |
| `PplnsLedger` | reward splitter, payer, wallet and chain | `BooksBalance`, `NeverOverdrawn`, `OneTransferPerRun`, `BatchesPartition`, `NeverOverReward`, `BookedOnlyWhenPaid` |
| `LedgerProofs` | proofs about it, and about `TaskLoop`, `StatsFiles`, `HashrateBook` and `StratumTap`; those about `ShareTrail` are at its end | section 4 |
| `TaskLoop` | the daemon's loop, its script, its pid file | `FileNamesDaemon`, `AllTurns`, `Paced`, `ScriptDone`, `Obeyed`, `HadTurn` |
| `StatsFiles` | exporter and web application on one directory, with deaths in between | `StatsFound`, `FilesBounded`, `BrokenGo`, `GraphFailsBeside` |
| `HashrateBook` | the estimates and their sum while shares come | `SuperExact`, `NobodyLeftOut`, `EstimatesDivide`, `WindowsNest`, `Gone`, `Shown` |
| `StratumTap` | the proxy that reads along | `Paired`, `DiesOnly`, `CreditedOnce`, `CreditTrue`, `SentOn` |

**ShareTrail.** Each Redis command is one action, atomic as in Redis. The Recorder
blocks the proxy while it records, so it has one share in hand. Time is a clock in
ticks of hours that does not advance while a share is being recorded or a pass is
running (both take milliseconds to seconds). `accepted` is every share Redis
appended; `raced` are those appended while the cleaner was at their list. The wall
clock is assumed not to be set back. The Recorder never reconnects, so `LoseRedis`
is final.

**StratumTap.** Whatever an exception ends, it ends for all miners, since the loop
catches two of them alone (a text that is no JSON, a key that Redis has not). An
oddity is a JSON text that is not as `on_recv` takes it to be: no object, without
`params`, a null result, a target of eight bytes; it ends the proxy at once or when
the status comes that looks at what was kept of it. Redis may be away or refuse
(`StoreFails`): an error that is neither of the two it looks at leaves `resp` unbound,
or as the share before left it, and then the share is counted and not recorded. A
reset reaches `recv`, `send` or `getpeername`; sockets may run out (`MaxSockets`).
Miners log in with an address or with something else, whose shares are not recorded.

**PplnsLedger.** One action per Redis command that reads or changes a balance or a
marker, and one per visit of the payer's loop to a transaction. `Reward` is
`floor(percent * amount)` in exact arithmetic (the code divides in double
precision). The order in which wallets are credited is arbitrary but fixed.
Batches are given by a closed form of the two `pop`s, which `BatchesPartition`
checks. A transfer has one part per wallet that is mined or fails on its own,
which covers a transfer that the wallet splits. `DRY_RUN` is FALSE in the runs, as
the other value disables what they check. `tainted` records the wallets hit by one
of four accidents: a split given up after it credited the wallet, a payer that
ended between transfer and booking, and a SET, by either process, of a balance
that changed since its GET.

## 3. Runs

| Run | What it shows |
|---|---|
| `storage` | 3 slots, 4 miners, 2 sessions, 2 jobs: the nonce table's invariants and `LeaseSpec`; more miners than slots make slots run out, die, come back and wrap around |
| `splitter_placement` | 2 upstreams of 2 slots, 3 miners, 2 logins and 2 jobs per upstream, a reload: a miner's upstream exists and is awake, nobody waits on an upstream with a job, accepted jobs are of the session in use |
| `splitter_answers` | 2 upstreams of 1 slot, 2 miners, 2 requests, a reload: answers are given once, to the sender, and can always be attributed; each upstream implements `NonceStorageSpec` |
| `network` | clients, strategies, sessions, the other splitters, donations, daemons, HTTP, DNS and lines; the client refines `PoolLink`, the extra nonces refine `NonceLease` |
| `program` | options, listening, reload, API, log, books about the miners, beginning and end; arithmetic, signatures, digests, addresses, texts, shares and blocks |
| `ledger` | share lists, balances, the daemon's cycles and files, hashrates, the proxy that reads along |
| `liveness` | what must happen in the end |
| `submit_reply`, `trail_drop`, `split_restart`, `listener`, `timeout` | **violated**: see below |

### Runs of several parts

The modules of `network`, `program`, `ledger` and `liveness` share no
state, so a behaviour of a run is one of one part: `part` is chosen in the initial
state and never changes, `v1`, `v2`, ... stand for the variables of that part's
module in the order it declares them, and the rest are zero. A property of the run
is the conjunction of `part = p => P`; nothing is assumed between parts, and the
state space is the sum of theirs, not the product. What another part does to one
is an action of its own environment: `PoolStrategy` takes clients that behave as
`PoolLink` says, which `StratumClient` implements; `NonceSplitter` and
`SimpleSplitter` take an upstream that may come, go and send jobs at any time.

| Part | Bounds, and what they make happen |
|---|---|
| `dial` | 2 handles, 2 jobs, 3 requests, SOCKS5 over TLS, a pool that redirects: an old socket closes, or stays, while a new one connects |
| `failover`, `single` | 3 pools, 1 pool; pools may fail, be late or be told to stop: the chain of backups has a middle; connects beside sockets |
| `session` | 4 requests, timeouts of 2 and 3 ticks, a wall clock 2 ticks ahead |
| `simple` | 3 miners, 2 mappers, reuse on or off: an upstream is handed on while another miner waits |
| `extra`, `cross` | 3 miners and 2 jobs, 2 miners and 3 jobs: a share of the job before last |
| `fee`, `calm` | donations of 2 ticks in a period of 3; the donation pool fails, or it does not |
| `route` | 2 miners, 2 requests; each socket ends by itself |
| `poll`, `feed`, `node` | 2 or 3 tips or jobs, 2 requests in flight, up to 5 faults and 1 silence |
| `http`, `crowd` | 2 exchanges with and without TLS, 3 without; the server is made anew twice |
| `dns` | 3 listeners that ask twice each, nesting of 3: one asks while another is told and a third waits |
| `lines`, `chunks` | a buffer of 3 bytes and a stream of 10; 3 connections and a pool that grows |
| `one`, `two`, `mix`, `changed` | lines of up to 6 options for one pool, two pools, mixed; an edit of each member a pool works with |
| `reload`, `ported` | 2 edits and 2 PUTs; one of each where the port is taken and edits are torn |
| `api` | every request the router tells apart, 2 tokens, a file that cannot be saved |
| `log` | 2 threads, 2 runs over one file, a failed write |
| `rows` | 3 miners of 2 names, two of which may have a pool of their own, 2 shares, 2 changes of the mode |
| `life`, `listen` | 2 miners and every handle; every TLS setting with two ports for it and one without |
| `scalars`, `field` | limbs of 3 bits; limbs of 11 and 10 bits, and the real chains |
| `edwards`, `signing` | a curve over 53 with every point; a group of 3 with keys that are no remainders |
| `digest`, `wallet` | messages at the ends of a block; every text of up to 8 characters of a base of 3 |
| `worth`, `texts` | words of 8 bits with every half-word target; every pair of digits and what is none |
| `signed`, `extra`, `tree` (`program`) | 2 templates, 2 miners, 0 or 2 transactions; 0 to 9 transactions |
| `trail` | 2 wallets, 3 shares, 18 h : 6 h scaled to 4 : 2 ticks, clock to 6, 2 passes |
| `batches`, `reruns` | 3 wallets, 2 per transaction, 2 blocks, 2 splits, 1 payout run; 2 wallets and 2 payout runs |
| `tasks`, `files` | intervals of 6 ticks, tasks of up to 8; 2 deaths |
| `book`, `script` | 2 users, 2 shares, 1 failed command |
| `pairs`, `pieces`, `waiting` | 2 miners and resets; messages in pieces or odd, Redis failing; 2 miners with sockets for one at a time, whose shares wait for their answers, Redis failing |

Two of anything shared (upstreams, sessions, jobs, requests, runs) is what the
interesting cases need: an old and a new session, a job and its successor, the
first and the second upstream, a run and its repetition. A third is there where
something has a middle. Miners outnumber the slots of an upstream in every run
about slots. The bounds are in the guards of the actions; because the bounded
histories end, deadlock is not checked. What must go on is a property instead
(`NotStuck`, `ChainAlive`, `KeepsTrying`, `RunsUntilTold`, `DiesOnly`, and the
`liveness` run).

### Fairness

`liveness` states its properties mostly as `[]<>P`, P being that the thing waited
for is there or nobody waits for it. Fairness is weak, and of callbacks that libuv
calls when they are due: timers (`GC`, `Tick`, `OnTimer`, `JobTimeout`), close and
shutdown callbacks, answers of a lookup, the flush and the writes of the log, the
loop of `proxy.py`, the steps of the Python tasks. Beyond that a run assumes, where
a property cannot hold without it:

* `first`, `backup`: one steady pool, whose logins succeed, no client that is astray,
  and an attempt at any pool comes to an end (`Tried`).
* `dial`: no attempt was begun beside a socket.
* `poll`, `feed`, `node`: the daemon answers or fails each request; faults are finitely
  many, the feed's socket is neither closed twice nor deleted beside libuv, silences
  none (an HTTP request has a timeout, but neither client sets one, so a request without
  an answer is never given up).
* `http`: a peer closes at last (`PeerGone`). A host may not be found and the server
  of the API may be made anew; who is then not told, and what stays, is excepted in
  the property and in the list below.
* `dns`: the answer of a lookup comes; who asks while a refused one is told is
  excepted, as is the loop over a cleared queue.
* `route`: the pool answers a share or the connection ends.
* `reload`: edits are atomic and none comes while the watcher is between reading
  and watching again; the last edit and the last PUT are the subject.
* `life`: no daemon is being asked when the signal comes.

### Violations found

Each is a disagreement with the text it quotes, and a run shows it:

* `SubmitGetsReply`: `doc/STRATUM.md` answers every submit; a share submitted while
  the pool socket is not ready is filed under key -1 (`NonceMapper::submit`) and
  never answered.
* `OnlyOldSharesDropped`: the cleaner "cleans old shares (>18 hours old)", but trims
  to a length it read earlier and forgets a list it saw empty, so it also drops what
  was appended in between.
* `SplitStartsClean`: "Block not processed yet" is concluded from a key that is
  written last; a split that stops half-way is repeated in full.
* `AssertedListener`: `Client.cpp` asserts, at lines 314 and 877, that whoever is called
  with an address or with data has a listener. A connect beside a socket (see below
  when that happens) looks up a host while a socket is open; `deleteLater()` closes
  the socket and lets the lookup live, and its answer comes to nobody. Without the
  assertion it goes to `reconnect()`, which deletes the client while libuv closes its
  socket.
* `TimedOut`: a miner sends `keepalived` "to prevent connection timeout"
  (`doc/STRATUM.md:109`), but the deadline is wall-clock time and is compared with
  `uv_now()`, which counts from the start of the machine: no silent session is closed.

### What else the models show of the code

These were met on the way and lie inside the models; the properties are stated so as to
allow them. A few variables (`twice`, `strayed`, `broken`, `lost`, `touched`, `freed`,
`splits`, `killed`, `answered`) are kept to be able to say of a state that it happened:
its negation, as an invariant, gives the history. The text it is at odds with is given
where there is one.

Clients and strategies:

* `Client.cpp:693`: after `client.reconnect` the client connects anew and its socket stays
  open; what goes on then is in run `listener`.
* `Client.cpp:664`: every line read clears the deadline of the login. A first pool
  that refuses the login with an error that is not critical, and keeps the
  connection, is never failed over from (`README.md:77`).
* `FailoverStrategy.cpp:144`: the chain only goes forward. With the first and the last
  pool gone, the working one between them is not connected again
  (`CHANGELOG_OLD.md:115`).
* `FailoverStrategy.cpp:145`: `disconnect()` does not end a lookup, so a backup told to
  stop may connect, and be told to connect again: the first socket is leaked. Of an
  upstream that is never stopped such a backup is at most on its way
  (`UpLeftAlone`); after `stop()` it may log in, and the next `connect()` is made
  beside a socket that is up.
* `DaemonClient.cpp:595`, `:366`: `retry()` closes the socket of the feed when it is
  closing already, and `onResolved` of a second attempt deletes the one that libuv
  still holds. `:656`: a socket whose connect failed is never closed, and deleted so.
* `DaemonClient.cpp:297`: the tip that was asked for is remembered, not that of the
  template: a job can come twice for one tip (`CHANGELOG.md:108`).
* `SelfSelectClient.cpp:257`, `:256`: when an older offer is taken, a newer job is
  handed on without its block, or left without one.
* `HttpClient.cpp:73`: a host that is not found is not reported to the owner, and the
  context is not freed before the API goes; a daemon client then never retries.
* `DnsUvBackend.cpp:109`: a listener that asks again while it is told clears the queue that
  the loop around it runs over; with more to come that goes on over destroyed entries.
  `:82`: after a refused lookup the request stays set while the queue is told, so who asks
  then is put into the queue, cleared with it and never told.
* `HttpContext.cpp:188`, `:187`: `closeAll` closes the proxy's own requests too, without
  telling, and a second one meets contexts that were deleted.

Splitters and sessions:

* `NonceMapper.cpp:52`: mapper 0 donates too ("only when you utilize more than 256
  miners", `README.md:126`). `:154`: a pending strategy gets no ticks, so that it does
  not retry. `:231`: a pause of one of two pools deactivates the storage of both.
* `DonateStrategy.cpp:129`, `:130`: an upstream suspended in a donation never donates
  again; a job saved before the donation pool was lost can come after newer ones.
* `SimpleMapper.cpp:209`: the answer for a miner that left goes to the next one.
* `ExtraNonceSplitter.cpp:111`: a reload may lead to a stratum pool, which the start
  refuses; every miner then gets the same work.
* `DonateSplitter.h:47`: without a destructor its mappers and their pools outlive the
  miners they point to when the program ends.
* `Workers.cpp:119`: a change of mode gives a row to every miner with a mapper, those with
  a pool of their own among them; their login and their end are passed over (318, 343),
  so they stay counted in the row, gone or not, until the mode changes again.
* `Miner.cpp:84`: a session deleted while its socket is closing frees what the loop
  still reads.
* `Miner.cpp:169`: for a coin with view tags but without miner signatures the view tag
  written was never set, and the submitted template has the daemon's.
* `Job.cpp:406`: in extra-nonce mode the root of the tree is put where a Zephyr header
  has its pricing record.
* `Recorder.cpp:225`: a share accepted after its miner left has a null miner, whose user
  is read.

Configuration and program:

* `BaseTransform.cpp:113`: `--algo` is the default of all pools only before the first
  option of a pool; after it, it is set on the first pool alone.
* `Pool.cpp:206`: a reload that changes only the ZMQ port, the spend key or
  submit-to-origin keeps the old pools. `EditSeen` excepts the port; the other two are
  not among the options of `ConfigFile`.
* `Watcher.cpp:80`, `:87`: a change made between reading and watching again is not seen,
  and a file that is missing then is not watched any more.
* `Base.cpp:270`: PUT sets back `print-time`, `debug` and `title`; `:296`: the watcher stays
  when `watch` is turned off.
* `Api.cpp:129`: a server whose first bind fails is deleted but stays a listener.
* `Http.h:41`: `no-restricted` without a token makes every request be refused, where "this
  option has no effect" (`CHANGELOG_OLD.md:140`).
* `FileLogWriter.cpp:53`: the last lines, why the program ends among them, do not reach
  the file, and the async handle is freed before it has closed.
* Listening: `setProtocols` never clears the bit of TLSv1; `setCiphers` reports a failure
  and returns true; a list whose only host has an empty name comes back from the file
  as the default list; a made pair that was saved by name is not made again when it is
  removed, and a torn or mixed pair never is (`MadeCertificateServes` is about a pair
  that nothing tore, `PairStays` about one that fits: neither calls it wrong).

Numbers and texts:

* `Job.cpp:121`: a half-word target of zero is divided by. A result of zero is refused
  however good. `JobResult` ignores whether the digits could be read. A share for the
  previous job is measured by the difficulty of the new one.
* `ge_scalarmult_p3` leaves its result unwritten for a scalar without digits (nothing
  calls it with one). An empty JSON string is read as null.

The tools:

* `start_aterxdaemon.sh:61`: "graceful shutdown" waits ten seconds, while the flag is read
  after all tasks and the sleep; a longer cycle is killed in a task.
* `aterxdaemon.py:177`: the reward splitter is "disabled by default" (line 175); no option
  disables it.
* `aterxdaemon.py:424`: `shares.json` is shorter than a "broken" file and removed in each
  cycle.
* `proxy.py:92`: when the pool's side of a pair closes first, the miner stays in
  `usermap`, as only the socket that closed is looked up.
* `proxy.py`: one miner's message ends the proxy of all. No object (132), no `params`
  (134, 137), a null result (145), a target of eight bytes (189, 153), a status before
  the first job (150), a reset or a hello beside an end (89, 91), no socket left, Redis
  away or refusing (168) all raise in the loop. `:174`: an error of Redis after a share
  that was recorded leaves `resp` as it was, and the next share is counted in
  `accepted` but not recorded.
* What comes of a lost update, a repeated split or a repeated payment stays with the
  wallets it hits: `BooksBalance` leaves them out (`tainted`) and is about all others.

## 4. Proofs

All proofs are for every number of slots, upstreams, pools and miners, every set of
wallets and blocks, every threshold, interval and timeout, and every bound on
logins, jobs, requests, time, runs. They rest on the named assumptions on the
constants alone, which the runs evaluate for the values they give: where a module
is instantiated its assumption is a definition (`LedgerAssumption`,
`SimpleAllowed`) and the hypothesis of its theorems. They say of which kind a
constant is; those that say more are listed below. Each inductive invariant was
checked by TLC before it was proved.

* `DialAllowed`: finitely many handles, and what kind the constants are of; pools may
  send `client.reconnect`.
* `StrategyAllowed`: the retries are at least 1 and at most what the clients count.
* `SimpleAllowed`, `BookAssumption`: finitely many timeouts a reload may bring, and
  users. `TickAssumption`: a donation is not longer than its period.
* `LoopAssumption`, `FilesAssumption`: an interval and an age that are not zero.
  `DaemonAssumption`: a chain with a tip. `LineAssumption`: a buffer and a pool that
  are not empty.
* `DaemonTries` has no such condition, but `KeepsTrying` excepts a client of which a
  request was never answered. One whose host is not found (`HttpClient.cpp:73`) is such.
* `TapExact` states `CreditTrue` under `Exact`: miners wait for an answer before the
  next share, messages come whole, and the pool answers each share with a status; Redis
  may fail and a message be odd. The proxy pairs an OK with the share by its job alone,
  so without these a share that the pool did not take may be recorded; that none is
  recorded twice (`TapSound`) needs none of them.
* `StrategySound` states `UpLeftAlone` and `ChainAlive` under `~MayStop`, as they are
  defined: of upstreams that are never stopped.
* `SilenceEnds` states `SilenceBound` for every skew of the clocks, and `SilentClosed` where
  there is none, which no machine promises.
* `DonationSound` states `NewestAfter` for donations that nothing breaks off
  (`~DonateFails /\ ~Sleeps`); the runs show what goes wrong otherwise.

| Module | Inductive invariant | Proved |
|---|---|---|
| `ComponentProofs` | `IndInv` | every invariant of run `storage`, the steps of `LeaseSpec`, `AlwaysFindsFree` |
| | `DialInv` | of `StratumClient`: `TypeOK`, `SocketOwned`, `AssertionsHold`, `AnswersMatch`, `SharesFiled`, and that it implements `PoolLink` |
| | `StrategyInv` | of `PoolStrategy`: `TypeOK`, `OneUp`, `ActiveConnected`, `UpLeftAlone`, `ChainAlive` |
| | `SimpleInv` | of `SimpleSplitter`: `TypeOK`, `OwnUpstream`, `IdlesExact`, `HandedOnFresh` |
| | `FeeInv` | of `Donation`: `TypeOK`, `ShareToOwner`, `NewestAfter` |
| | `RouteInv` | of `DonateRoute`: `TypeOK`, `PointersLive`, `OneOwner`, `AnsweredOnce` |
| | `NodeGood` | of `SelfSelect`: `TypeOK`, `TemplateOfJob`, `IdleIsUp` |
| | `WebInv` | of `HttpExchange`: `TypeOK`, `HeardOnce`, `SentWhereMeant`, `ForgottenFirst`, `ReplyFirst` |
| | `DaemonInv` | of `DaemonClient`: `TypeOK`, `ViewExact`, `SharesFiled`, `FeedHeld`; `KeepsTrying` |
| | `DnsInv` | of `Resolver`: `TypeOK`, `WithinTTL`, `NobodyLeft` |
| | `LinesInv` | of `LineReader`: `LinesWhole`, `ChunksOwned`, `AllBack` |
| `NonceSplitterProofs` | `PlaceInv` | `TypeOK`, `MinersPlaced`, `NobodyWaitsOnActive`, `SharesMatchSession`, `StoragesRefined` |
| | `AnswerInv` | `AnsweredOnceToSender`, `AnswersAttributed` |
| `ShareTrail` (at its end) | `TrailInv` | `TypeOK`, `TrailInOrder`, `WindowIntact`, `PassRemovesOld` |
| `LedgerProofs` | `LedgerInv` | `BooksBalance`, `NeverOverdrawn`, `OneTransferPerRun`, `BatchesPartition`, `NeverOverReward`, `BookedOnlyWhenPaid` |
| | `LoopInv` | of `TaskLoop`: `TypeOK`, `FileNamesDaemon`, `AllTurns`, `Paced` |
| | `FilesInv` | of `StatsFiles`: `TypeOK`, `StatsFound`, `FilesBounded`, `BrokenGo`, `GraphFailsBeside` |
| | `BookInv` | of `HashrateBook`: `TypeOK`, `SuperExact`, `NobodyLeftOut`, `EstimatesDivide`, `WindowsNest` |
| | `TapInv`, `ExactInv` | of `StratumTap`: `TypeOK`, `Paired`, `DiesOnly`, `CreditedOnce`; `CreditTrue` |
| `MCLedger` (at its end) | `PartsSound` | `TrailKept`, `BooksBalance`, `PaidOncePerRun`, `BookedOnlyWhenPaid`, `CyclesHold`, `PassesHold`, `SharesCounted` as run `ledger` states them |
| `ExtraNonce` (at its end) | `ExtraInv` | `TypeOK`, `PatchedAsHashed`, `EveryoneHasJob`, `AnsweredOnce`, and that it implements `NonceLease` |
| `MinerSession` (at its end) | `SessionInv` | `TypeOK`, `CountersExact`, `PointersLive`, `RequestsAccounted`, `EventOrder`, `SilenceBound` |
| `MCNetwork` (at its end) | those of its parts | `LinksSound`, `LinkSpec`, `LeaseSpec`, `SessionsSound`, `SplittersSound`, `HandedOver`, `TemplatesSound`, `TransportSound` as run `network` states them |

**The nonce table.** `SlotExclusive` is not inductive: from an arbitrary state
without a conflict, `add` could give out a free slot somebody else had under the
same job. `IndInv` adds what excludes it: `GivenSlotsMarked`, the slots given out
under the current job of an active storage are still marked with their holder,
alive or dead; `ActiveHasNewestJob` and `JobsIssued`, so that a new job has no
leases yet; and `MinersMatchSlots`, so that `remove` marks the slot of the right
miner and an unused storage has no miner. The dead marks are what a suspension
erases, which is harmless because it also deactivates the storage, and an
activation brings a new job. `AlwaysFindsFree` shows by the well-foundedness of the
natural numbers that the first free slot in scan order exists.

**The splitter.** That a miner's upstream exists and is awake is not inductive:
`remove` kills the slot that the miner's own field names, and the garbage collector
asks the slot table whether anybody is there. `PlaceInv` says that slot table, id
map and the miners' fields agree in both directions (`TablesMatch`, `Placed`), that
only a login gives a place, and what activity, sleep and sessions of an upstream
have to do with each other. For answers, `AnswerInv` says that sequence numbers
are used once (`Numbered`), that nothing in flight has been answered (`Unanswered`)
and that every entry of a result table names its sender (`Filed`). `StoragesRefined`
is proved step by step: for each upstream, each action of the splitter is an action
of `NonceStorageSpec` or leaves its variables alone. Together with the theorems
about `NonceStorageSpec` no nonce of any upstream is given to two miners.

**The trail.** That a window is intact needs the cleaner's steps in between:
`TrailInv` says what it knows of the list it is at (`CleanerKnows`: the length it
read is at most the present one, what it counts as old is old), that the share in
the Recorder's hand is not yet on a list (`Recording`), and that what was accepted
and did not race is on its list or too old (`OldOrRaced`). That a trim keeps the
order is what `TrailInOrder` needs, and it in turn lets the cleaner stop at the
first young share.

**The ledger.** `BooksBalance` speaks of the moments between the runs. `LedgerInv`
says at every moment how far the books are off: what a wallet has been credited of
the block that is being split, and what it has been sent but not booked
(`Balanced`), for wallets no accident has touched. It follows the payer's
transactions to the transfers of the wallet (`Matched`), each wallet in one of them
(`BatchesPartition`), every unsettled part watched by the run that sent it or its
wallet tainted (`Watched`), and what will be booked still there (`Covered`), by
which no balance becomes negative in any interleaving of two processes that GET and
SET. Sums over wallets, blocks and transfers are `SumFunctionOnSet` of the
community modules, a fold defined by a CHOOSE of a recursive function; the lemmas
at the start of the module show that it exists over finite sets and what adding an
element or changing one value does to it. The closed form of the batches is proved
to divide the wallets by arithmetic on `LastLeft`.

**Extra nonces.** `LeasesNonces` is the refinement the nonce table has too, by another
argument: there is no table of dead holders, only a counter. At a job the miners that
are there get their ranks, which differ and are below their number (`Ranks`), and who
comes later gets the numbers from there on, so `Counted`: all that was leased of the
job in hand is below the counter, whoever has left since, and everything older is of
a lower job. The counter stays within the logins there have been, which is its type.
That no template is patched with another extra nonce than the miner hashed rests on
`EveryoneHasJob`: the miner's present extra nonce is that of the job in hand, and a
share of the job before is refused.

**The session.** A method of the session is the set of its outcomes, so its lemma
speaks of every outcome, for a record that is half way through: `Life` ties object,
handle and what the bus was told, `Counts` the counters to the state, and `Due` says
that one request has come and all others are accounted for. `ReplyGood`: the reply to
what is due leaves a session in order, or closes it, and however it is closed it is in
order (`ShutdownGood`). `SilenceEnds` says for every skew how long a session may be
silent: the timeout plus what the wall clock is ahead. What `STRATUM.md` says needs
clocks that agree, and the run `timeout` has two that do not.

**The client.** `DialInv` ties the state of the client to its handle, its lookup and its
listener (`Sockets`, `Owned`): what has a handle is the present socket. `Bare` and
`Filed` say that nothing is asked before both handshakes are over or after the socket
has gone, that what the pool has been asked and has not answered is exactly what is
filed, and that numbers are below that of the next message; without the last a share
could take a filed number. A method that goes on after a send that closed the socket is
the hard case, so the lemmas speak of what every method keeps of a client that is whole
(`DialGood`). `DialIsLink` follows with a lemma about each method: what its owner sees
of it is one move of `PoolLink`, or none. `DialInv` says this of a client that is not
`strayed`. The step that makes it so (a connect beside a socket, or `client.reconnect`)
is the step of `PoolLink` to astray, which `PoolStrategy` reckons with at any time.
Behind it the theorems say nothing of the client but its type, since there the first
socket is leaked.

**The strategy.** `ActiveConnected` is not inductive, as a pool of the chain may be told
to disconnect: `ActiveWanted` says that the active pool is not, and is where the index
points, `FirstWanted` that the first pool, and without an active one the last of the
chain, are still retrying. From it `ChainAlive`: the chain does not end with a pool
given up, for any number of pools. A pool that is astray may tell of anything, so the
invariant is kept by every handler for every client and every count. For
`UpLeftAlone` the argument is that a pool which is up is the active one, and that
the chain never connects the pool its index points to.

**The simple splitter.** `Numbered` says that mappers have the numbers from 1 on and
that those released stay unused, `Ageless` that what serves a miner does not age, so
that no timeout can take it away. With the two-way agreement of `OwnUpstream` and
`IdlesExact` the hand-over of an idle mapper gives it to nobody else.

**Donations.** `Owns` separates whose job the miners have from whether the upstream is
active, as a donation over a lost pool is both; `KeptAside`: what a donation keeps
aside is the newest job of the user's pool. In `DonateRoute` mapper and miner point at
each other from the login on, also when one of them is gone (`Paired`); `Served1` says
which splitter has the miner in each of these states, `Outstanding` that a share
without a reply is filed in one place.

**The self-select client.** A template may arrive when the pool has long sent another
job. `NodeGood` says that the newest request, while it is under way, is for the job in
hand, so that the template of that request is, and the answers of older ones are
told apart by their number. `IdleIsUp` needs that a client which its owner has given
up still counts more failures than it may, until an offer is accepted or the pool logs it
in anew.

**Requests.** All of `WebInv` is about one context. `Heard` is the core: what its
listener has heard of is out of the table or listens no more, so that none of the ways
in which a request ends (lookup, connection, handshake, certificate, parser, end of
stream, timeout, destruction of the owner) can tell it again. `Forgotten`: what is open
is in the table, and what closes is not, unless the sweep of a server closed it.
`Written` counts per stage what has been sent.

**The client of a daemon.** `Watched` ties what the owner was told to the state and the
timer, also where a connected client was told to connect again, and the socket to what
is done with it up to the step that breaks libuv's rules (`FeedHeld`). `Filing` bounds
what is filed by the shares without an answer and the requests that failed or fell
silent, of which the code never removes the entry. `Trying` is `KeepsTrying` as it can
be handed on by a step: an answer under way brings the client on if it is a template, or
the tip of a client that has asked for no template yet, since only then is one asked for
whatever the tip is.

**Lookups.** A listener that is told may ask again, which tells all in the queue from
within the loop that told it. `DnsInv` says that whoever waits, and was not forgotten, is
in the part of the queue that the innermost loop has yet to come to, so that when it
has cleared the queue nobody is left, wherever the loops around it stand. One of these
that was not at its end goes on over the cleared queue; the theorem says nothing of
what follows, as nothing can be said.

**Lines.** A read is parsed line by line, one a step, with no other step in between. The
theorem counts the lines that were delivered: `Delivered` says that they are as many as
ends of lines that are not empty before the first byte not parsed, and that the one
of rank `n` is the text of the `n`-th, if the buffer holds it; `Begun` what is
kept of the line that has begun. What is in use of the pool is what some connection
holds, in its buffer or for a read, and no two hold the same (`PoolInv`); that
there is a first free chunk for the search is the well-foundedness of the naturals.

**The daemon.** `LoopAt` knows which tasks of a cycle have had their turn, and how much of
the interval is spent when it sleeps: `Paced` is the case of what is left. `FilesInv`
follows a file that was left half written: as long as it is there the exporter has not
come to the removal of broken files since its death, and its age is bounded by the
number of deaths (`HalfWritten`), so the next cycle removes it before it is read.

**The hashrates.** `SuperExact` and `EstimatesDivide` speak of the end of a pass. `Summed`
says that in between the sum is that of the users done, `Divided` that what they have
been told is their part of the reward, up to one for each of them, for rounding; both
are sums of sums, over users and over the shares of their lists, for which the lemmas
at the start of the section give what changing one user does. That nobody is left out
needs that the list of a user of the pass does not become empty while it runs
(`Found`): shares are appended by others, and only the pass itself trims.

**The proxy that reads along.** `CreditedOnce` compares a record with what is counted;
`SharesOnce` follows each share from the miner on: it is in a message to the proxy, or
in the list of what was submitted, or recorded, never at two of these places, so an OK
that takes the shares of the job off the list, all of them or those before an exception,
records each once, whatever came in pieces, was odd, or came from a socket whose entry
has gone. `ListedOnce` and `RoundOf` say that a socket is in `input_list` once and only
while its pair is open, which `Paired` needs, and `Accidents` what each kind of
exception takes: a message, a reset, Redis, the last socket. `CreditTrue` is about the
pairing of answer and share: `OneOnTheWay` says that there is one request or reply
between a miner and the pool, wherever it is, `JobsInOrder` that jobs reach the proxy
and the miner in the order the pool gave them, so that of the shares still listed only
the one that is waited for can be of the present job (`Outstanding`). Those of older
jobs stay on the list for good, and no later job makes them match.

**The instances.** `MCLedger` and `MCNetwork` compose parts that share no state. Their
theorems are the ones above for their instances, whose constants are shown to satisfy the
assumptions, with the steps of the other parts: so the run and the proof are about
the same formula.

What stays with TLC:

* liveness and ENABLED, which the prover cannot express (`liveness`);
* `SplitStartsClean`, `OnlyOldSharesDropped`, `SubmitGetsReply`, `AssertedListener` and
  `TimedOut`, which are false;
* what a loop of the arithmetic modules computes for every input: it needs
  induction over data. `TextOps` computes with bits, which the prover has no
  theory of;
* run `program`: `ConfigFile`, `Listening` and `ApiAccess` compute a configuration
  from documents by folds, so that the properties `OptionsKept` and
  `ConfigurationHolds` speak of what a fold returns, again an induction. `BooksAndLife`
  and `Undisturbed` are conjunctions over parts some of which are of this kind. The
  arithmetic of that run is the case above.

## 5. Not modelled

* `EthStratumClient`, `AutoClient`: only compiled with algorithms that the proxy's
  build leaves out.
* `NetworkState`, `Algorithm`, `Platform`, `Env`, the console and the tables printed
  on it: names, formatting and display; no state another part decides on.
* `sha3.cpp`: nothing in the proxy calls what it has beside `keccak.cpp`.
* rapidjson, libuv, OpenSSL, llhttp, Redis, the wallet and the chain are external:
  what the code relies on is in the actions that use them. The parsing of messages is
  abstracted to their kind.
* `DaemonClient::deleteLater`, which a strategy calls when it is itself deleted, and what follows a feed socket that is closed twice.
* Contents of the tables of multiples (`crypto-ops-data.c`): assumed to be what they
  are named for. That the hashes are hard to invert, and the quality of random bytes.
* The copies of `Job` (its copy and move functions) and the members only shown.
* Python: the pages of `app.py`, the load balancer and the receiver read only and
  keep no state; of `app.py`, what it reads while the exporter writes is in
  `StatsFiles`.
* Liveness that would need strong fairness: that a donation window comes round
  while the donation pool fails again and again, and that a miner of simple mode
  gets a job from an upstream that comes and goes for ever.

## 6. Plan

What is left, in this order:

1. `MinerSession`'s registry for several sessions at once, with the theorems of one.
2. The books of `Statistics` and the owners of `AppLife`, whose state is finite sets of
   what exists, so that the argument is that of `DonateRoute`.
3. What is left of run `program`: `OptionsKept` and `ConfigurationHolds` for documents of
   any size need an induction over them.
