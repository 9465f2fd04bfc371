------------------------------ MODULE Pipeline ------------------------------
(***************************************************************************)
(* The path of a log line through the broker (internal/broker/broker.go):  *)
(* a client writes it to its connection, the connection's goroutine        *)
(* (handleConnection, handleLog) puts it into the in-memory cache and then *)
(* pushes it, without blocking, onto the bounded channel eventCh, and one  *)
(* goroutine (batchWriter) moves it from the channel into a batch and from *)
(* there, in one transaction, into the table log_events.  Stop takes the   *)
(* goroutines down in phases; a crash takes down everything but the table. *)
(*                                                                         *)
(* A log line is the connection it was written to, its place n in the      *)
(* order of writing, which names it, and its timestamp ts.  The stamp is   *)
(* taken before the client locks its connection (runner.go scanLines), and *)
(* a line that waited in the buffer of a client keeps its old one, so      *)
(* stamps may decrease along a connection, and two lines may share one.    *)
(* The line a handler is working on stays at the head of its stream until  *)
(* the handler is done with it.                                            *)
(***************************************************************************)
EXTENDS Naturals, Sequences, FiniteSets, SequencesExt, Ordering

CONSTANTS Conns,        \* slots for client connections, reused after a disconnect
          Services,     \* names of services
          ServiceOf,    \* the service whose client uses a slot
          EventChSize,  \* capacity of eventCh
          BatchSize,    \* length at which a batch is flushed
          CacheSize,    \* entries the cache keeps per service
          MaxLogs,      \* bound: lines the clients write in all
          Delays,       \* how many lines may be written between the stamp and the writing of one
          MaxStarts     \* bound: broker processes started in all

ASSUME PipelineAssumption ==
  /\ ServiceOf \in [Conns -> Services]
  /\ EventChSize \in Nat \ {0}
  /\ BatchSize \in Nat \ {0}
  /\ CacheSize \in Nat \ {0}
  /\ MaxLogs \in Nat
  /\ Delays \subseteq Nat
  /\ MaxStarts \in Nat

VARIABLES
  phase,    \* where the broker process is between Start and the end of Stop
  starts,   \* how often a broker process was started
  before,   \* history: how many lines were written before this process listened
  conn,     \* conn[c]: the client's end of connection c
  sock,     \* sock[c]: lines written to c and not yet handled
  sent,     \* how many lines were written so far
  handler,  \* handler[c]: where the goroutine of c is in handleConnection
  acceptor, \* whether the goroutine acceptLoop is running
  connWg,   \* the handlers the WaitGroup connWg has been told to wait for
  eventCh,  \* the contents of the channel
  writer,   \* where the goroutine batchWriter is
  batch,    \* its batch
  cache,    \* cache[s]: the ring buffer of service s, oldest first
  log,      \* every row ever inserted into log_events, by AUTOINCREMENT id
  live      \* ids of the rows that were not pruned

procVars   == <<phase, starts, before>>
clientVars == <<conn, sock, sent>>
connVars   == <<handler, acceptor, connWg>>
queueVars  == <<eventCh, writer, batch>>
dbVars     == <<log, live>>
vars == <<procVars, clientVars, connVars, queueVars, cache, dbVars>>

Event == [conn : Conns, n : 1..MaxLogs, ts : 1..MaxLogs]

Phases == {"down", "warming", "serving", "closeListener", "waitConns",
           "waitWriter", "closeStore", "stuck"}

Listening == phase \in {"warming", "serving", "closeListener"}
DoneClosed == phase \notin {"down", "warming", "serving"}
ChannelOpen == phase \in {"warming", "serving", "closeListener", "waitConns"}

\* What a ring buffer of capacity n keeps of the entries pushed into it.
Newest(n, s) == IF Len(s) > n THEN SubSeq(s, Len(s) - n + 1, Len(s)) ELSE s

\* The ids of a service's rows that were not pruned, and which of two comes first: equal
\* stamps are ordered by id.
StoredRows(s) == {i \in live : ServiceOf[log[i].conn] = s}
ByTime(rows) ==
  {p \in rows \X rows : \/ log[p[1]].ts < log[p[2]].ts
                        \/ log[p[1]].ts = log[p[2]].ts /\ p[1] < p[2]}

\* The lines at a list of ids.
LinesAt(ids) == [i \in DOMAIN ids |-> log[ids[i]]]

\* A faulty StoredLines: the rows in the order of the query, newest first.
StoredNewestFirst(s) ==
  Reverse(LinesAt(Newest(CacheSize, Ordered(StoredRows(s), ByTime(StoredRows(s))))))

\* The rows QueryRecentLogs selects for a service, in the order in which
\* warmCache adds them to the cache: by timestamp, oldest first.
StoredLines(s) == LinesAt(Newest(CacheSize, Ordered(StoredRows(s), ByTime(StoredRows(s)))))

Init ==
  /\ phase = "down" /\ starts = 0 /\ before = 0
  /\ conn = [c \in Conns |-> "closed"]
  /\ sock = [c \in Conns |-> <<>>]
  /\ sent = 0
  /\ handler = [c \in Conns |-> "none"]
  /\ acceptor = "exited"
  /\ connWg = {}
  /\ eventCh = <<>> /\ writer = "exited" /\ batch = <<>>
  /\ cache = [s \in Services |-> <<>>]
  /\ log = <<>> /\ live = {}

-----------------------------------------------------------------------------
(* Faulty variants of definitions below. The runs show that each breaks a    *)
(* property; none is part of the specification.                              *)

\* connWg.Add(1) is left to the goroutine, which has not run yet.
SpawnUncounted(c) ==
  /\ handler[c] = "accepted"
  /\ handler' = [handler EXCEPT ![c] = "decode"]
  /\ UNCHANGED <<procVars, clientVars, acceptor, connWg, queueVars, cache, dbVars>>

\* handleConnection returns without connWg.Done().
LeaveConnNotDone(c) ==
  /\ handler' = [handler EXCEPT ![c] = "none"]
  /\ conn' = [conn EXCEPT ![c] = "closed"]
  /\ sock' = [sock EXCEPT ![c] = <<>>]
  /\ UNCHANGED <<procVars, sent, acceptor, connWg, queueVars, cache, dbVars>>

\* A full ring buffer ignores new entries.
CacheAddIfRoom(c) ==
  /\ handler[c] = "cache"
  /\ cache' = [cache EXCEPT ![ServiceOf[c]] =
                 IF Len(@) < CacheSize THEN Append(@, Head(sock[c])) ELSE @]
  /\ handler' = [handler EXCEPT ![c] = "push"]
  /\ UNCHANGED <<procVars, clientVars, acceptor, connWg, queueVars, dbVars>>

\* The line that fills the batch is not in the batch that is flushed.
ReceiveLosesLast ==
  /\ writer = "select" /\ eventCh # <<>>
  /\ eventCh' = Tail(eventCh)
  /\ batch' = IF Len(batch) + 1 >= BatchSize THEN batch ELSE Append(batch, Head(eventCh))
  /\ writer' = IF Len(batch) + 1 >= BatchSize THEN "flush" ELSE "select"
  /\ UNCHANGED <<procVars, clientVars, connVars, cache, dbVars>>

\* Only full batches are flushed.
TickIfFull ==
  /\ writer = "select" /\ Len(batch) >= BatchSize
  /\ writer' = "flush"
  /\ UNCHANGED <<procVars, clientVars, connVars, eventCh, batch, cache, dbVars>>

\* The writer returns on the closed channel without the final flush.
SeeClosedNoFlush ==
  /\ writer = "select" /\ eventCh = <<>> /\ ~ChannelOpen
  /\ writer' = "exited"
  /\ UNCHANGED <<procVars, clientVars, connVars, eventCh, batch, cache, dbVars>>

\* The batch is not reset after it was flushed.
FlushKeepsBatch ==
  /\ writer' = IF writer = "flush" THEN "select" ELSE "exited"
  /\ UNCHANGED <<procVars, clientVars, connVars, eventCh, batch, cache>>

\* Ids start at 0.
FlushFromZero ==
  /\ writer \in {"flush", "finalFlush"}
  /\ log' = log \o batch
  /\ live' = live \cup Len(log)..(Len(log) + Len(batch))
  /\ batch' = <<>>
  /\ writer' = IF writer = "flush" THEN "select" ELSE "exited"
  /\ UNCHANGED <<procVars, clientVars, connVars, eventCh, cache>>

-----------------------------------------------------------------------------
(* The clients. *)

\* ipc.Dial succeeds once the socket listens; the connection then waits in
\* the backlog for Accept.
Dial(c) ==
  /\ Listening
  /\ conn[c] = "closed" /\ handler[c] = "none"
  /\ conn' = [conn EXCEPT ![c] = "open"]
  /\ UNCHANGED <<procVars, sock, sent, connVars, queueVars, cache, dbVars>>

\* The line was stamped when it was read, before others that are written already.
Send(c) ==
  /\ conn[c] = "open" /\ sent < MaxLogs
  /\ sent' = sent + 1
  /\ \E ts \in 1..(sent + 1) :
       /\ sent + 1 - ts \in Delays
       /\ sock' = [sock EXCEPT ![c] = Append(@, [conn |-> c, n |-> sent + 1, ts |-> ts])]
  /\ UNCHANGED <<procVars, conn, connVars, queueVars, cache, dbVars>>

Hangup(c) ==
  /\ conn[c] = "open"
  /\ conn' = [conn EXCEPT ![c] = "hungup"]
  /\ UNCHANGED <<procVars, sock, sent, connVars, queueVars, cache, dbVars>>

-----------------------------------------------------------------------------
(* Accepting connections and reading from them. *)

Accept(c) ==
  /\ acceptor = "accept" /\ Listening
  /\ conn[c] # "closed" /\ handler[c] = "none"
  /\ \A d \in Conns : handler[d] # "accepted"
  /\ handler' = [handler EXCEPT ![c] = "accepted"]
  /\ UNCHANGED <<procVars, clientVars, acceptor, connWg, queueVars, cache, dbVars>>

\* connWg.Add(1), then the go statement.
Spawn(c) ==
  /\ handler[c] = "accepted"
  /\ handler' = [handler EXCEPT ![c] = "decode"]
  /\ connWg' = connWg \cup {c}
  /\ UNCHANGED <<procVars, clientVars, acceptor, queueVars, cache, dbVars>>

\* Accept fails on the closed listener and done is closed.
AcceptorExits ==
  /\ acceptor = "accept" /\ ~Listening /\ DoneClosed
  /\ \A c \in Conns : handler[c] # "accepted"
  /\ acceptor' = "exited"
  /\ UNCHANGED <<procVars, clientVars, handler, connWg, queueVars, cache, dbVars>>

Decode(c) ==
  /\ handler[c] = "decode" /\ sock[c] # <<>>
  /\ handler' = [handler EXCEPT ![c] = "cache"]
  /\ UNCHANGED <<procVars, clientVars, acceptor, connWg, queueVars, cache, dbVars>>

\* handleConnection returns: the connection is closed, what it still held is
\* gone, and the goroutine tells connWg that it is done.
LeaveConn(c) ==
  /\ handler' = [handler EXCEPT ![c] = "none"]
  /\ connWg' = connWg \ {c}
  /\ conn' = [conn EXCEPT ![c] = "closed"]
  /\ sock' = [sock EXCEPT ![c] = <<>>]
  /\ UNCHANGED <<procVars, sent, acceptor, queueVars, cache, dbVars>>

EndOfStream(c) ==
  /\ handler[c] = "decode" /\ conn[c] = "hungup" /\ sock[c] = <<>>
  /\ LeaveConn(c)

\* A line beyond the decoder's 1 MB limit ends the connection.
UndecodableLine(c) ==
  /\ handler[c] = "decode" /\ sock[c] # <<>>
  /\ LeaveConn(c)

-----------------------------------------------------------------------------
(* handleLog: the cache first, then the channel. *)

CacheAdd(c) ==
  /\ handler[c] = "cache"
  /\ cache' = [cache EXCEPT ![ServiceOf[c]] = Newest(CacheSize, Append(@, Head(sock[c])))]
  /\ handler' = [handler EXCEPT ![c] = "push"]
  /\ UNCHANGED <<procVars, clientVars, acceptor, connWg, queueVars, dbVars>>

LineHandled(c) ==
  /\ sock' = [sock EXCEPT ![c] = Tail(@)]
  /\ handler' = [handler EXCEPT ![c] = "decode"]
  /\ UNCHANGED <<procVars, conn, sent, acceptor, connWg, writer, batch, cache, dbVars>>

Push(c) ==
  /\ handler[c] = "push" /\ Len(eventCh) < EventChSize
  /\ eventCh' = Append(eventCh, Head(sock[c]))
  /\ LineHandled(c)

\* The default case of the select: the channel is full.
Shed(c) ==
  /\ handler[c] = "push" /\ Len(eventCh) >= EventChSize
  /\ UNCHANGED eventCh
  /\ LineHandled(c)

-----------------------------------------------------------------------------
(* batchWriter. *)

Receive ==
  /\ writer = "select" /\ eventCh # <<>>
  /\ eventCh' = Tail(eventCh)
  /\ batch' = Append(batch, Head(eventCh))
  /\ writer' = IF Len(batch') >= BatchSize THEN "flush" ELSE "select"
  /\ UNCHANGED <<procVars, clientVars, connVars, cache, dbVars>>

\* A tick with an empty batch changes nothing.
Tick ==
  /\ writer = "select" /\ batch # <<>>
  /\ writer' = "flush"
  /\ UNCHANGED <<procVars, clientVars, connVars, eventCh, batch, cache, dbVars>>

\* Receiving from a closed channel fails once it is empty.
SeeClosed ==
  /\ writer = "select" /\ eventCh = <<>> /\ ~ChannelOpen
  /\ writer' = "finalFlush"
  /\ UNCHANGED <<procVars, clientVars, connVars, eventCh, batch, cache, dbVars>>

FlushReturns ==
  /\ batch' = <<>>
  /\ writer' = IF writer = "flush" THEN "select" ELSE "exited"
  /\ UNCHANGED <<procVars, clientVars, connVars, eventCh, cache>>

\* InsertLogEvents commits: all rows of the batch or none.
Flush ==
  /\ writer \in {"flush", "finalFlush"}
  /\ log' = log \o batch
  /\ live' = live \cup (Len(log) + 1)..(Len(log) + Len(batch))
  /\ FlushReturns

\* InsertLogEvents fails (begin, insert or commit): the rows are rolled back
\* and the batch is reset all the same.
FlushFails ==
  /\ writer \in {"flush", "finalFlush"} /\ batch # <<>>
  /\ FlushReturns
  /\ UNCHANGED dbVars

-----------------------------------------------------------------------------
(* The life of a broker process. *)

\* Start up to ipc.Listen: clients can connect from here on.
Listen ==
  /\ phase = "down" /\ starts < MaxStarts
  /\ phase' = "warming" /\ starts' = starts + 1 /\ before' = sent
  /\ UNCHANGED <<clientVars, connVars, queueVars, cache, dbVars>>

\* warmCache, whose query may fail for any service, then the go statements.
WarmCache ==
  /\ phase = "warming"
  /\ phase' = "serving"
  /\ \E warmed \in SUBSET Services :
       cache' = [s \in Services |->
                   IF s \in warmed THEN Newest(CacheSize, cache[s] \o StoredLines(s))
                                   ELSE cache[s]]
  /\ acceptor' = "accept" /\ writer' = "select"
  /\ UNCHANGED <<starts, before, clientVars, handler, connWg, eventCh, batch, dbVars>>

\* signalHandler receives SIGINT or SIGTERM and Stop closes done.
Signal ==
  /\ phase = "serving"
  /\ phase' = "closeListener"
  /\ UNCHANGED <<starts, before, clientVars, connVars, queueVars, cache, dbVars>>

\* listener.Close resets the connections nobody has accepted.
CloseListener ==
  /\ phase = "closeListener"
  /\ phase' = "waitConns"
  /\ conn' = [c \in Conns |-> IF handler[c] = "none" THEN "closed" ELSE conn[c]]
  /\ sock' = [c \in Conns |-> IF handler[c] = "none" THEN <<>> ELSE sock[c]]
  /\ UNCHANGED <<starts, before, sent, connVars, queueVars, cache, dbVars>>

\* connWg.Wait returns and eventCh is closed.
CloseChannel ==
  /\ phase = "waitConns" /\ acceptor = "exited" /\ connWg = {}
  /\ phase' = "waitWriter"
  /\ UNCHANGED <<starts, before, clientVars, connVars, queueVars, cache, dbVars>>

AwaitWriter ==
  /\ phase = "waitWriter" /\ writer = "exited"
  /\ phase' = "closeStore"
  /\ UNCHANGED <<starts, before, clientVars, connVars, queueVars, cache, dbVars>>

\* The store closes, Wait returns and the process ends.
CloseStore ==
  /\ phase = "closeStore"
  /\ phase' = "down"
  /\ cache' = [s \in Services |-> <<>>]
  /\ UNCHANGED <<starts, before, clientVars, connVars, queueVars, dbVars>>

\* store.Close fails: Stop returns without closing quit.
CloseStoreFails ==
  /\ phase = "closeStore"
  /\ phase' = "stuck"
  /\ UNCHANGED <<starts, before, clientVars, connVars, queueVars, cache, dbVars>>

\* The process is killed: only the database survives.
Crash ==
  /\ phase # "down"
  /\ phase' = "down"
  /\ conn' = [c \in Conns |-> "closed"] /\ sock' = [c \in Conns |-> <<>>]
  /\ handler' = [c \in Conns |-> "none"] /\ acceptor' = "exited" /\ connWg' = {}
  /\ eventCh' = <<>> /\ batch' = <<>> /\ writer' = "exited"
  /\ cache' = [s \in Services |-> <<>>]
  /\ UNCHANGED <<starts, before, sent, dbVars>>

\* PruneByAge, called by retentionLoop or by the command devlog prune.
Prune ==
  /\ \E cutoff \in 1..MaxLogs :
       live' = {i \in live : log[i].ts >= cutoff}
  /\ UNCHANGED <<procVars, clientVars, connVars, queueVars, cache, log>>

-----------------------------------------------------------------------------
ClientStep(c)  == Dial(c) \/ Send(c) \/ Hangup(c)
HandlerStep(c) == \/ Spawn(c) \/ Decode(c) \/ CacheAdd(c) \/ Push(c) \/ Shed(c)
                  \/ EndOfStream(c) \/ UndecodableLine(c)
WriterStep     == Receive \/ Tick \/ SeeClosed \/ Flush \/ FlushFails
StopStep       == CloseListener \/ CloseChannel \/ AwaitWriter \/ CloseStore \/ CloseStoreFails

Next ==
  \/ \E c \in Conns : ClientStep(c) \/ Accept(c) \/ HandlerStep(c)
  \/ AcceptorExits \/ WriterStep \/ StopStep
  \/ Listen \/ WarmCache \/ Signal \/ Crash \/ Prune

Spec == Init /\ [][Next]_vars

(* Every goroutine of the broker keeps running: the Go scheduler starves     *)
(* none, and neither the channel nor the database blocks for ever. Nothing    *)
(* makes a client send or leave.                                             *)
BrokerFairness ==
  /\ \A c \in Conns : WF_vars(Accept(c)) /\ WF_vars(HandlerStep(c))
  /\ WF_vars(AcceptorExits) /\ WF_vars(WarmCache)
  /\ WF_vars(WriterStep) /\ WF_vars(StopStep)

FairSpec == Spec /\ BrokerFairness

-----------------------------------------------------------------------------
(* Properties. *)

PipelineTypeOK ==
  /\ phase \in Phases /\ starts \in 0..MaxStarts /\ before \in 0..MaxLogs
  /\ conn \in [Conns -> {"closed", "open", "hungup"}]
  /\ sock \in [Conns -> Seq(Event)]
  /\ sent \in 0..MaxLogs
  /\ handler \in [Conns -> {"none", "accepted", "decode", "cache", "push"}]
  /\ \A c \in Conns : handler[c] \in {"cache", "push"} => sock[c] # <<>>
  /\ acceptor \in {"accept", "exited"}
  /\ connWg \in SUBSET Conns
  /\ eventCh \in Seq(Event) /\ batch \in Seq(Event)
  /\ writer \in {"select", "flush", "finalFlush", "exited"}
  /\ log \in Seq(Event)
  /\ live \in SUBSET (1..Len(log))

\* Type correctness: every variable of the pipeline holds a value the broker can hold,
\* a handler that works on a line has one, and only rows of log_events are live.
TypeOK == PipelineTypeOK /\ cache \in [Services -> Seq(Event)]

\* No handler ever sends on the closed eventCh, which would panic: while one can still
\* reach the push of handleLog, Stop has not closed the channel (phases 1 and 2 of Stop).
NoSendOnClosedChannel ==
  \A c \in Conns : handler[c] # "none" => ChannelOpen

\* When Stop closes the store nothing accepted is left behind: the writer has received
\* and flushed every line that a handler pushed (batchWriter's final flush).
DrainedBeforeStoreCloses ==
  phase \in {"closeStore", "stuck"} => eventCh = <<>> /\ batch = <<>> /\ writer = "exited"

InSendOrder(s) ==
  \A i, j \in DOMAIN s : i < j /\ s[i].conn = s[j].conn => s[i].n < s[j].n

\* Lines of one connection keep the order in which the client sent them, each at most
\* once, all the way from the socket over channel and batch into log_events, whatever is
\* shed, fails, crashes or is pruned in between.
LinesKeepOrder ==
  \A c \in Conns : InSendOrder(log \o batch \o eventCh \o sock[c])

\* A line waiting for the database can be read from the cache (Recent) unless the ring
\* buffer is full and what it holds of the same connection is all newer.
CachedUntilStored ==
  \A e \in ToSet(batch \o eventCh) :
    LET recent == cache[ServiceOf[e.conn]]
    IN  \/ e \in ToSet(recent)
        \/ /\ Len(recent) = CacheSize
           /\ \A x \in ToSet(recent) : x.conn = e.conn => x.n > e.n

\* x may stand before y in the cache: the lines of earlier broker processes, which warmCache
\* read, come first and in the order of their stamps, those of this process in the order in
\* which each connection sent them, and no line is there twice.
MayPrecede(x, y) ==
  /\ x.n # y.n
  /\ y.n <= before => x.n <= before /\ x.ts <= y.ts
  /\ x.n > before /\ x.conn = y.conn => x.n < y.n

\* Recent shows the lines of a service oldest first, as far as the broker can know: what
\* warmCache read by time ("so the ring buffer ends up in chronological order",
\* broker.go:468), then what came in since, by connection in send order, although the stamps
\* of those may run backwards.
RecentKeepsOrder ==
  \A s \in Services : \A i, j \in DOMAIN cache[s] :
    i < j => MayPrecede(cache[s][i], cache[s][j])

\* A line the broker has accepted into eventCh does not linger: the writer receives it
\* and flushes it even when no further line ever fills the batch.
AcceptedLinesSettle ==
  \A e \in Event : e \in ToSet(batch \o eventCh) ~> e \notin ToSet(batch \o eventCh)

\* Once Stop was called the broker exits or, when the store cannot be closed, returns that
\* error. It does not always: Stop waits for the handlers and closes no connection.
StopReturns == phase = "closeListener" ~> phase \in {"down", "stuck"}

\* What is left of "It shuts down cleanly on SIGINT/SIGTERM" (README.md:171): nothing but a
\* client that stays connected keeps Stop from coming to an end; it waits for ever only at
\* connWg.Wait, and only for a connection whose client never hangs up.
StopAwaitsClientsOnly ==
  StopReturns \/ \E c \in Conns : <>[](phase = "waitConns" /\ conn[c] = "open")

Durable == INSTANCE DurableLog WITH Line <- Event, pending <- batch \o eventCh

\* The channel and the batch together are one queue in front of an append-only table: the
\* detailed broker implements DurableLog.
ImplementsDurableLog == Durable!Spec
=============================================================================
