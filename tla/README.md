# devlog: specification, model checking and proofs

These TLA+ modules model devlog, the local log broker of this repository: `devlog run` wraps a
dev process and sends its output over a Unix socket to one background broker, which keeps recent
lines in memory, stores all of them in SQLite and answers queries. The modules follow the Go code
under `internal/` and `cmd/`; `PROJECT.json` maps every definition to the lines it models.

    tlc -config MCPipeline_safety.cfg MCPipeline       # one run; see "Runs" for the others
    tlapm LogCacheProofs.tla                           # one proof module

## The system

| component | state | operations | talks to |
|---|---|---|---|
| broker pipeline (`broker/broker.go`) | listener, `connWg`, `eventCh`, batch, `done`, `quit` | `Start`, `acceptLoop`, `handleConnection`, `handleLog`, `batchWriter`, `flushBatch`, `warmCache`, `retentionLoop`, `Stop` | clients over the socket, log cache, storage |
| sessions (`session/session.go`, `broker/conntracker.go`, table `sessions`) | rows, `sqlite_sequence`, map of active sessions, ids per connection | `handleSessionStart`, `handleSessionEnd`, `cleanupConnection`, `PruneByAge` | clients, storage |
| log cache (`cache/cache.go`) | map service -> buffer under one RWMutex, a lock per buffer | `Add`, `Recent`, `Clear`, `ClearAll`, `Services`, `EntryCount` | called by every connection handler |
| ring buffers (`cache/ringbuffer.go`, `client/linebuffer.go`) | array, write position, count | `Add`/`push`, `Recent`, `Clear`, `drain` | cache, client |
| client (`client/client.go`, `broker_start.go`) | connection, encoder, session id, line buffer, flag `reconnecting` | `Connect`, `RegisterSession`, `SendLog`, `reconnectLoop`, `reconnect`, `flushBuffer`, `EndSession`, `Close`, `EnsureBroker` | broker |
| child wrapper (`client/runner.go`) | child process, two pipes | `Run`, `scanLines`, signal forwarding | client |
| broker process (`broker/flock_unix.go`, `ipc/ipc_unix.go`, `Start`/`Stop`) | pid file and its flock, socket file | open, flock, unlink, bind, close, release, remove | other broker processes through the file system |
| storage (`storage/`) | SQLite tables `sessions`, `log_events` | `CreateSession`, `EndSession`, `InsertLogEvents`, `PruneByAge`, six queries | broker, `devlog prune` |
| protocol (`protocol/`) | none | encode and decode, one JSON message per line, at most 1 MB | all |
| requests (`mcp/`, `cmd/devlog`, `handleQuery`) | none that outlives a request | `recent`, `search`, `errors`, `sessions`, `services`, `prune`, the five tools | broker, cache, storage |
| configuration, level detection (`config/`, `level/`) | none | layered files, patterns for words | command line, broker |

What is hard here:

* **Shutdown.** `Stop` closes the listener, waits for handlers, closes a channel handlers send on,
  waits for the writer and closes the store, while clients come, send and go.
* **Loss by design.** A full channel sheds lines, a failed transaction drops its batch, a full
  client buffer drops its oldest line, `os.Exit` drops what is left. The promise is that nothing
  *else* happens: no reordering, no duplicates, no half batches.
* **Locks taken in turn.** The cache finds a buffer under one lock and uses it under another; the
  client swaps connection and session under a mutex that scanners take between the steps.
* **Three views of a session** (table, manager, tracker) updated one after the other by a goroutine
  that can be interrupted by a failing write or the death of the broker.
* **A child that must not notice.** `devlog run` reads two pipes of a child that others may share, through scanners
  with a limit, while the client behind them reconnects, and has to end the session after the last line and not before.
* **Two tables pruned by different columns**, by the broker and by a command with another configuration, while the
  warm-up of the cache finds the services of one table by the other.
* **Several broker processes.** Each client that finds no socket starts one; a lock on a file whose
  path is removed while others have it open decides who works.

What makes each part correct, in one sentence: the pipeline stores a connection's lines in order,
each at most once, never panics on its own channel, and leaves nothing accepted behind on a clean
stop; sessions end when their client does and ids name one run for ever; the cache acts like one
bounded list per service; the client sends a line at most once and under the session of the
connection it travels on; `devlog run` reads everything its child writes, never holds it up and returns after it; a request is
answered with what is stored; and there is one broker.

## Modules

| module | models | refines |
|---|---|---|
| `Pipeline` | every goroutine of the broker on the path of a line, `Stop` in its phases, crash, restart, pruning | `DurableLog` |
| `DurableLog` | *abstract:* a queue in front of an append-only table | |
| `Sessions` | the three handlers of sessions, step by step, with failing writes, crashes, pruning | |
| `LogCache` | `LogCache` with any number of goroutines, split where locks are released | `ServiceLogs` |
| `ServiceLogs` | *abstract:* one list of the last N entries per service; an `Add` is one instant | |
| `RingBuffer` | the array with its wrapping position, for both buffers | `BoundedLog` |
| `BoundedLog` | *abstract:* the last N entries, each given away at most once | |
| `Client` | the goroutines of `devlog run`, with a broker that drops connections, dies and starts | `AtMostOnce` |
| `AtMostOnce` | *abstract:* a line arrives at most once or is lost | |
| `Runner` | `Client` composed with the child, its pipes, the scanners' limit and signals | `AtMostOnce`, as `Client` |
| `Lifecycle` | processes `devlog broker` on one data directory | |
| `Queries` | both tables, the cache in front, retention, configuration, levels; every request of command line and MCP server | |
| `Ordering` | `ORDER BY`: a set of rows as the list a query returns, used by `Pipeline` and `Queries` | |
| `MCPipeline`, `MCLogCache`, `MCQueries` | values of constants and symmetry for TLC | |
| `PipelineProofs`, `SessionsProofs`, `LogCacheProofs`, `RingBufferProofs`, `ClientProofs` (with `Runner`), `LifecycleProofs`, `QueriesProofs`, `OrderingProofs` | theorems | |

`Runner` extends `Client`: each of its steps is a step of `Client` and what it does to the child, or a step of the child.
The other behaviours are modules of their own because the code couples the parts narrowly: `Pipeline` and
`LogCache` use a ring buffer as "the last n of a sequence", which `RingBuffer` shows of the array;
`Lifecycle` takes the middle of `Stop` as one step, which is most of `Pipeline`; `Client` reduces the
broker to its socket, `Pipeline` and `Sessions` reduce the client to what it writes; `Queries` takes each handler as one
step, as the tables and the cache see it, and leaves the interleavings within handlers to `Pipeline`, `Sessions` and `LogCache`.

Every module with runs also holds, marked as such, faulty variants of its actions (a dropped guard,
a missing reset, a swapped order). No `Next` uses them; substituting one must break a property.

### How state and actions correspond to the code

**`Pipeline`.** `phase` is the control point of `Start` and `Stop` (`closeListener`, `waitConns`,
`waitWriter`, `closeStore` are the numbered phases of `Stop`, `stuck` is its early return when
`store.Close` fails). `handler[c]` is the program counter of a `handleConnection` goroutine:
`accepted` between `Accept` and `connWg.Add`, `decode`, `cache`, `push`. `connWg` is the set of
goroutines the WaitGroup counts. `Push` and `Shed` are the two arms of the `select` in `handleLog`;
`Receive`, `Tick`, `SeeClosed`, `Flush` and `FlushFails` those of `batchWriter`. `log` never shrinks:
it is all rows ever inserted, by AUTOINCREMENT id, and `live` those still in the table.
A line has its place `n` in the order of writing and a stamp `ts`. The stamp is older than the writing: `scanLines`
takes it before `SendLog` gets the lock of the connection (`runner.go:125`), and a line that waited for a reconnect
keeps its old one. `Send` therefore chooses any stamp that is one of `Delays` lines back, so that stamps decrease and repeat
along a connection, and the order of a warm-up (by stamp; equal stamps by rowid, from the index on service and
timestamp) is not the order of sending. `before` (history) separates the lines of earlier brokers, for which
`RecentKeepsOrder` claims the order of stamps, from those of this one, for which it claims the order of sending of
each connection. Undecodable *messages* are skipped and change
nothing; an undecodable *line* ends the connection (`UndecodableLine`).

**`Sessions`.** One action per write to table, manager, tracker or connection: `register`, `track`,
`reply` are the steps of `handleSessionStart`, `deregister`, `untrack` those of `handleSessionEnd`,
`orphan`, `forget` those of `cleanupConnection`. A handler leaves its loop at the end of the stream (`Cleanup`) or at
a line it cannot decode (`GiveUp`), where a `session_end` behind that line is never read and the session ends as an
orphan although its client is still there. A connection is used once. A crash empties the
memory and breaks all connections; the table survives. Pruning may delete any ended session, which
over-approximates every cutoff. A graceful stop is left to `Pipeline`.

**`LogCache`.** `heap` is the list of `serviceBuffer` objects ever made and `buffers` the map, so that
a goroutine can hold a buffer that has left the map. `Lookup` is the part of a call under the read
lock, `create` the write lock of `getOrCreate` with its second check, the others the buffer's lock.
`Recent` is called with a limit no smaller than the buffer; limits are in `RingBuffer`. The broker calls
`Add` and `Recent`; `Clear` and `ClearAll` are part of the type, and no caller in the program uses them.
`overlap`, `finished` and `expected` are history variables.

**`RingBuffer`.** Array, `head` and `count` literally; entries are numbered by order of pushing, and
the zero of an unused slot is no entry. `drain` does not overwrite the array, `Clear` does.

**`Client`.** `run`, `scanner[s]` and `loop` are program counters; everything done under `mu` is one
step, except `flushBuffer`, which holds `mu` over several writes (`Locked`). A write succeeds exactly
while both ends are open. The session id of a connection is its number, and connections that are only
probes (`IsAvailable`) are left out. `silent` counts registrations the broker leaves unanswered: `CreateSessionFails` of
`Sessions`, after which `handleSessionStart` returns without a reply.

**`Runner`.** `stdio[s]` is the pipe of a stream, `attached[s]` whether the child or a process it started still has it
open: a grandchild can keep it open after `ChildExits`, and the child can close it before. `ScanLine` and `ScanEnds` are
`Scan` and `EndOfOutput` of `Client` with the pipe they depend on; an overlong line stays in the pipe for good, since
`bufio.Scanner` gives up and nobody reads on. `WaitAndEnd` is `cmd.Wait` followed by `EndSession`, `WaitFails` the return without it when `cmd.Wait` fails with
something other than the child's exit status. Between `cmd.Start` and
`signal.Notify`, and again after `signal.Stop`, SIGINT and SIGTERM have their default action (`Killed`), which ends the
process as `os.Exit` does (`Client!ProcessEnds`); while they are forwarded their effect is that of `ChildExits`, or none.

**`Queries`.** Requests are operators of the state, not steps: they change nothing. `CliMessage` and `McpMessage` are the
two translations of what a user asks into a `QueryMessage`, `handleQuery` and the operators below it the answer, `Reply`
the limit of the `Decoder` at the asking side. A text is the set of its words, which is all that the patterns of `level`
(word boundaries, any case) and `LIKE` (any case) look at here; `%` and `_` stand for queries with wildcards. Time passes
in hours, the unit of `--since` and its defaults; `Day` is how many make one day of retention. `Log` is `handleLog`: into
the cache, and into the channel or not. `Flush` is one transaction of `batchWriter`, later and with lines of several
services, or its failure; `pending` is what waits for it, so that sessions end and prunings run in between. No hour
passes while something waits (`Tick`), because a batch waits 100 ms at most. The stamp of a line may be an hour old, as
after a reconnect. A client whose session cannot be created gets no answer and logs nothing, so there is no line with
session 0. `Restart` is the end of one broker and the start of another, from the directory of any project; it loses what
waits, as a crash does. `warmed` is how many lines had been handled before, `cold` what a failing warm-up left out.

**`Lifecycle`.** One action per system call that matters: open with `O_CREATE`, non-blocking flock,
unlink of the socket, bind, close of the listener (which unlinks the path), `ipc.Cleanup`, unlock,
remove. Inodes are numbers, so a file can be open and locked without being at the path. It follows the
Unix files; Windows has other rules for unlinking and is not modelled.

## Runs

Twelve runs, three of them of claims that the code does not keep; the numbers are distinct states.

| run | what it asks | bounds | states |
|---|---|---|---|
| `pipeline_safety` | no send on the closed channel, everything accepted is stored on a clean stop, order from socket to table, cache ahead of table, the cache in order, `DurableLog` | 2 connections of one service (symmetric), channel 1, batch 2, cache 2, 3 lines, each stamped at once or two lines before, 2 starts | 1,260,280 |
| `pipeline_liveness` | accepted lines leave channel and batch; `Stop` waits for nothing but clients that stay | 2 connections of two services, cache 1, 2 lines, 1 start | 23,928 |
| `sessions` | the three views agree, ids are never reused, an ended row stays, sessions end whose clients are gone or given up on | 2 connections, 1 failing write, 1 crash | 9,635 |
| `log_cache` | pushes reach the map's buffer, services stay apart, `Recent` sees finished `Add`s, `ServiceLogs` | 3 goroutines (symmetric), 2 services, buffer 2, 3 entries, 2 clears | 397,992 |
| `ring_buffer` | window of the newest, `BoundedLog` with its entries given away at most once | capacity 3, 8 pushes | 2,047 |
| `client` | session of a line, order of waiting lines, `AtMostOnce`, a reconnect ends | 2 streams, buffer 2, 2 lines, 2 breaks, 1 silence | 93,385 |
| `client_buffered` | *violation:* a buffered line is not lost | buffer 1, 2 lines, 1 break | |
| `runner` | types; empty pipes when the session ends; the child is never held up; `Run` returns | 2 streams, pipes of 1, buffer 1, 2 lines and 1 overlong, 1 break, 1 silence | 163,470 |
| `runner_blocks` | *violation:* the child is never blocked, overlong lines included | 1 line, 1 overlong, a broker that never fails | |
| `queries` | lines keep their session; `recent` shows the latest lines in order; search, errors, sessions and services return what was asked for; pruning keeps what configuration and flags say | 1 service, 3 lines of one kind with two levels, 2 runs of clients, 3 hours, a day of one hour, cache 2, replies of 2 | 91,844 |
| `lifecycle` | one broker, reachable, none refused without reason, up to the first unlink under another process | 4 processes | 28,587 |
| `lifecycle_singleton` | *violation:* one broker without that exception | 3 processes | |

Why the bounds reach the interesting cases. *Pipeline:* a channel of one and a batch of two let a line be in the hand
of a handler, in the channel and in the batch at once, so shedding, a full batch, a partial batch at the tick and at
close, and a crash with all of them occupied all occur with three lines; the second start exercises warm-up from a
table with more rows than the cache. *LogCache:* three goroutines allow two competing creations and a third call that
clears or reads between them; two clears let a buffer be replaced and replaced again. *RingBuffer:* eight pushes wrap
an array of three twice at every offset. *Client:* two lines on two streams fail on one connection, one of them before
and one after the drain; two breaks hit the reconnect itself. The same module was also run with three lines, two
breaks and a buffer of one, so that the buffer overflows during a reconnect: 1.39 million states, no error.
*Sessions:* each handler runs through its own chain only with its own connection, so two of them give all the
interference on the shared views. *Runner:* with pipes of one line, the child blocks as soon as a scanner waits for
anything; two lines are one in the pipe and one in the hand of the scanner, or one on each stream, one of them in the
buffer (of one) while the next comes; one break starts a reconnect, one silence leaves it, or the first registration,
without an answer. What `client` checks needs two breaks and is not repeated here. *Queries:* three hours with a day of one
are enough for a session that ends in the first, a line of the next and a pruning in the third, and for an error before
the last hour; the user's file has an age that would delete everything, so that a wrong precedence shows. Three lines
overflow the cache and the replies of two, whose rows have an order to be checked. That an answer
leaves out lines of another kind or of another service takes a second one: the run was also made with two kinds of
lines (534,051 states) and with three kinds, two services, two lines, a cache of one and replies of two (300,068 states),
both without an error, and `AnswersAreMeant` covers any kinds and services. *Lifecycle:*
three processes suffice for the counterexample of `lifecycle_singleton`; four add one to watch.

Deadlock is checked in `Pipeline`, `Sessions`, `LogCache` and `RingBuffer`. It is off in `Client` and `Runner`, where
the process ends, in `Lifecycle`, where all processes the bound allows may have exited, and in `Queries`, where lines,
sessions and hours are used up.

### Fairness

* `Pipeline!BrokerFairness`: weak fairness of accepting, of each handler, of the writer, of warm-up and of
  the steps of `Stop`. The Go scheduler starves no goroutine, the ticker is part of the writer's `select`,
  and neither a non-blocking send nor a SQLite call blocks for ever. There is none for clients, signals,
  crashes or pruning: no scheduling makes a client hang up, so `Stop` need not end, and
  `StopAwaitsClientsOnly` shows that a client that stays is the only reason.
* `Sessions!FairSpec`: weak fairness of each connection's handler; clients do as they like, and no undecodable line has to come.
* `Runner!FairRunnerSpec`: that of `Client`, and a scanner reads what there is to read. None for the child, what it
  writes or when it exits, nor for signals.
* `Client!FairSpec`: the goroutines run, a broker that was started listens some day, and one that listens
  reads. The child writes and ends when it likes; the broker breaks connections as often as the bound allows.

### Findings

1. **A buffered line can stay buffered** (`client.go:115`, run `client_buffered`). A line pushed after
   `flushBuffer` has drained, whose `CompareAndSwap` comes before the flag is reset, is neither sent nor does it
   start another reconnect, although "the line is buffered, not lost" (`client.go:89`). It waits for the next failure.
2. **Two brokers** (`broker.go:187`, run `lifecycle_singleton`). `Stop` unlocks the pid file and then removes it. A
   process that opened it in between holds a lock nobody else can find, and a third one creates and locks a new file.
3. **A blocked child** (`runner.go:118`, run `runner_blocks`). `scanLines` returns at a line beyond 1 MB without looking at
   `scanner.Err()`. The pipe is not read any more, the child blocks in its next writes, and `Run` waits for the child,
   against "System never blocks development workflow" (`PLAN.md:529`).

Met while modelling, and visible in the model, but not the subject of a run:

* `Stop` waits for clients (`broker.go:174`): it closes no connection, so with one `devlog run` connected a SIGTERM removes
  the socket and then waits for that client, although `README.md:171` promises a clean shutdown. `StopReturns` does not
  hold; `StopAwaitsClientsOnly` says what is left of it.
* When `CreateSession` fails the broker sends no reply (`broker.go:294`), and `RegisterSession` waits without a timeout
  (`client.go:80`): `Run` does not start to read the child's output, against the "non-fatal" of `runner.go:61`. This is the
  exception `Unanswered` of `PipesDrain` and `RunReturns`, and `ReconnectEnds` has the same.
* `devlog errors` without `--since` has no bound (`main.go:134`): both `--since` flags are bound to one variable, and the
  default of `search`, none, is set last, against "Default `--since` is `1h`" (`README.md:122`). `AnswersMatch` takes the
  hour as what is meant; it holds because it allows this one request to return more (`Widened`).
* `get_recent_logs` promises "ordered by most recent first" (`mcp/server.go:226`) and returns the order of the cache, oldest
  first (`ringbuffer.go:34`); `RecentShowsStored` states that order.
* `Recent` is in the order in which handlers reached the cache (`cache.go:78`), not by time: stamps of one connection may
  run backwards, and two clients of one service race. After a restart the same lines are in the order of their stamps.
* A `--since` that is no duration is dropped silently (`main.go:432`), where the MCP tools refuse theirs.
* `search` passes `%` and `_` to `LIKE` (`storage.go:146`). `errors` does not return fatal lines of stdout (`storage.go:188`).
* A reply beyond 1 MB fails as a whole (`codec.go:43`), and `search` and `errors` have no limit.
* A negative `max_age_days` switches the retention loop off but makes `devlog prune` delete every line (`main.go:359`).
* `EnsureBroker` starts `devlog broker` without passing `--data-dir` on (`broker_start.go:25`); `detect_levels` is read by nobody.

## Proofs

Every invariant and every safety property of a step that a passing run checks is a theorem, and so are all refinements. TLAPS checks
each leaf; the constants are arbitrary up to the named assumptions (`PipelineAssumption`, `SessionsAssumption`,
`ClientAssumption`, `RunnerAssumption`, `QueriesAssumption`, `RingAssumption`, `LifecycleAssumption`, `CacheAssumption`): sizes
are positive naturals, bounds are naturals, there is a first hour (`MaxTime` is not 0), and the connections of `Sessions` and the
services of `Queries` are finitely many. For a ring buffer the capacity is any integer, since `NewRingBuffer` clamps it. The counters that bound the
runs are in the specifications; since the theorems hold for every bound they hold of every finite behaviour.

No invariant below but the simplest types is inductive by itself. Each proof therefore has a stronger one, which TLC checked
first on the instance of the run, made of named parts; a step is shown to keep each part it can disturb.

* **`PipelineProofs`.** *Shutdown:* `NoSendOnClosedChannel` needs that the WaitGroup is
  empty only if no handler is at work. `ShutdownInv` says so (`HandlersCounted`: `connWg` is exactly the set of
  spawned handlers, one that is accepted and not counted yet implies a running acceptor, and neither is left once the channel is closed) and
  adds `WriterDrains` (the writer leaves only through its final flush); `NeverSendsOnClosedChannel` and
  `StoreClosesDrained` follow. *Order:* `LinesKeepOrder` speaks of a concatenation; `OrderInv` takes it apart into
  order within each part, order between any two (`Before`) and a bound on the places (`SentBy`), so that each
  action disturbs few conjuncts. `LinesStayInOrder` follows. *Refinement:* `ImplementsAbstractLog` maps each step to
  a step of `DurableLog` with `pending` = batch followed by channel; the lemmas on concatenation carry it.
  *Cache:* `RecentKeepsOrder` needs that every line in the cache may also precede what is still to be added, right after a
  warm-up too (`CacheInOrder`, with `Uncached(c)` for what the handler of `c` has ahead of it); nothing is assumed of the
  stamps, since `MayPrecede` compares them only where the database has sorted. `Generations` says that what is
  stored while a broker warms up was written before it listened, and what it has received or will receive afterwards.
  `CachedUntilStored` needs the lines that a handler has cached and not pushed yet (`Waiting`); that nothing waits during
  a warm-up rests on `ShutdownInv`. `CacheInv` gives `RecentStaysInOrder`, `CachedWhileWaiting` and, with the types of the
  queues, `TypeCorrect`.
* **`SessionsProofs`.** `ViewsAgree` speaks of handlers between two messages only. `ViewsInv` says for each place of a handler what
  table, manager and tracker have of its session at that moment (`SessionAt`), which places go together with which state of the client
  (`InStep`), and that no two connections know one id (`IdsApart`); a step of one handler then leaves the parts of all others alone
  (`OthersUnconcerned`). `ViewsStayInAgreement`, `IdsStayApart` and `SessionsEndForGood` follow. `TypeCorrect` adds the bound on the
  ids, that a connection registers once (`SeqBound`, by cardinality: hence the finite set of connections).
* **`LogCacheProofs`.** `IInv` = `TypeOK`, `Owned` (every buffer has one service, and whoever refers to it means that
  service) and `PushesReachTheMap`. It gives `AddsReachTheMap`, `ServicesStayApart` and, step by step,
  `ImplementsAbstractCache`. `RecentSeesThem` needs `KeptInv`: an entry whose `Add` has returned is in its buffer or the
  buffer is full, and a reader that expects entries is at the buffer that holds them.
* **`RingBufferProofs`.** `WindowInv` = `TypeOK` and `Filled`: each of the `count` slots behind `head` has been written. The
  abstract list is the window of those slots; `PushWindow` shows that a push appends to it and, when full, drops its
  oldest. From it `ImplementsAbstractLog`, `RecentIsAlwaysNewest` and `TypeCorrect`. The modulus is treated
  once, in `RemainderBelow` and `RemainderAbove`.
* **`ClientProofs`.** `TypeInv` adds to the types which goroutines can be where at the same time (`GoroutinesInStep`: a reconnect only
  while `Run` scans or closes, a lock only while a drained line is left). On it rest three invariants. `ConnectionsRegistered`:
  a connection carries nothing before its registration and one session after it, and the flag `open` of the current one
  implies that the client uses its session (`SessionsAreNotMixed`). `BufferedInOrder`: what is drained, what is buffered and what
  a scanner holds follow each other (`BufferKeepsOrder`). `OnePlace`: a line is with the client, on one connection or
  received, and there once (`ReceivedOnce`); the step that moves it is an `Arrive` or a loss of `AtMostOnce`
  (`ImplementsArrivals`). *Runner:* all of this is proved of `Step`, a step of the client or an end of the process at which no scanner has a
  line in hand. `RunnerStepIsStep` shows that every step of the composition is one, so that `ClientHoldsInRunner` and
  `RunnerImplementsArrivals` need no second proof. `OutputIsRead` needs `ChildInStep`: a scanner stops only on a finished stream, a
  finished stream stays so, and the session ends after the child.
* **`LifecycleProofs`.** `LockInv` ties the lock to the control point (exactly the processes past `acquireFlock` hold
  one, and no two on one inode); `PathInv` says that until a file is unlinked under another process all open files are
  the one at the path and the socket belongs to the holder. `FlockAdmitsOneBroker`, `ServingStaysReachable` and
  `OnlyBrokersRefuse` follow.
* **`QueriesProofs`.** `TablesInv` says why pruning two tables by two columns is safe: a line, stored or waiting, is no younger than
  the end of its session, the session of a waiting line has not ended before this hour (`LinesInSessions`), and that of a running
  client is open (`RunningIsOpen`), so that no cutoff of a positive age falls between them: `LinesKeepTheirSessions`, and with the
  configuration `RecentLinesAreKept`. `CacheInv` says of each service that its cache is in order (`Earlier`) and that every line,
  stored or waiting, is in it or has no room among later ones (`InPlace`), unless a warm-up failed; it uses that what a restart
  reads are the newest rows of a finite table. `RecentLinesAreShown` goes on through `handleQuery`, the limits and the `Decoder`.
  `AnswersAreMeant` goes through the other requests, parameter by parameter: since, level, service, wildcards, the lost default; an
  answer that fails is one whose rows, counted, are too many.
* **`OrderingProofs`.** A finite set with a strict total order has a list that holds each element once, in that order: the number of
  elements before one is a bijection to the places. `Ordered` is written with it, as the sorting operators of the community modules
  reach a Java implementation (`SortSeq`) that the prover cannot expand.

Only model-checked: all liveness (`AcceptedLinesSettle`, `StopAwaitsClientsOnly`, `GoneClientsEnd`, `ReconnectEnds`, `PipesDrain`,
`RunReturns`), which is outside this prover's reach, and the three properties that the code violates.

What the proofs changed in the model. `RecentShowsStored` said less than it should have and was false for a cache larger than the default
limit of a request: it now names the number of lines that may be left out (`Size`), which lines these are (`Earlier`) and when an error
is allowed. `LinesHaveSessions` needs positive ages (`AgesPositive`): with a negative one `devlog prune` deletes sessions that end now,
whose last lines wait in the batch. Ties of `started_at` had to be decided (`StartedLater`). Sorting is `Ordered`, as above. The
assumptions on the finite sets of connections and services and on the first hour were missing.

## Not modelled

* SQLite itself (a statement or transaction takes effect at once or fails; power loss is not modelled), JSON, terminal
  output, `Checkpoint`.
* The JSON-RPC loop of the MCP server, one request after the other without state; `devlog status` and `devlog init`;
  `data_dir`, which only chooses the files.
* Time as a quantity: the deadline of `EnsureBroker` may pass at any moment, ticks of the writer and of the retention
  loop come at any moment, and `Queries` knows hours only.
* A pipe as bytes: a pipe of `Runner` holds whole lines, and what a child writes after the last newline is a line, as
  for `bufio.Scanner`.
* Windows' named pipes, `LockFileEx` and process attributes.

## Plan

Done, in this order: `Pipeline` (the path every line takes), `Sessions`, `RingBuffer`, `Client`, `Lifecycle`, `LogCache`,
with their abstract specifications; then `Runner`, the composition of the client with the child, and
`Queries`, the composition of tables, cache, configuration and requests; then the proofs of every invariant and refinement
that the runs check. Left:

1. An abstract specification of `Sessions` (a session is registered, open, ended once, pruned) that the three views implement, with its proof.
2. One for `Lifecycle`: a lock that is taken and given back, implemented until the first unlink under another process.
3. What a request returns for `recent` while other requests and lines come in, which `Queries` takes as one step.
