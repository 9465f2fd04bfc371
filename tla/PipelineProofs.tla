--------------------------- MODULE PipelineProofs ---------------------------
(* What holds of Pipeline for all connections, capacities, stamps and bounds. *)
EXTENDS Pipeline, OrderingProofs, SequenceTheorems, TLAPS

\* Whom Stop still has to wait for: the WaitGroup counts exactly the handlers at work,
\* the accept loop runs while one is being handed over, and none of them is left once
\* the channel is closed.
HandlersCounted ==
  /\ connWg = {c \in Conns : handler[c] \notin {"none", "accepted"}}
  /\ \A c \in Conns : handler[c] = "accepted" => acceptor = "accept"
  /\ acceptor = "accept" => phase \in {"serving", "closeListener", "waitConns"}
  /\ phase \notin {"serving", "closeListener", "waitConns"} => connWg = {}

\* What the writer still has to do: it stops only on the closed, empty channel, and
\* leaves nothing in the batch.
WriterDrains ==
  /\ writer = "finalFlush" => phase = "waitWriter" /\ eventCh = <<>>
  /\ writer = "exited" => /\ phase \notin {"serving", "closeListener", "waitConns"}
                          /\ eventCh = <<>> /\ batch = <<>>
  /\ phase \in {"down", "warming", "closeStore", "stuck"} => writer = "exited"

ShutdownInv == HandlersCounted /\ WriterDrains

-----------------------------------------------------------------------------
\* A line that is written: it has the next name.
LEMMA SentLine ==
  ASSUME PipelineTypeOK, NEW c \in Conns, Send(c)
  PROVE  \E e \in Event : /\ e.conn = c /\ e.n = sent + 1
                         /\ sock' = [sock EXCEPT ![c] = Append(sock[c], e)]
<1>1. PICK ts \in 1..(sent + 1) :
        sock' = [sock EXCEPT ![c] = Append(@, [conn |-> c, n |-> sent + 1, ts |-> ts])]
  BY DEF Send
<1>2. sent < MaxLogs /\ sent \in Nat /\ MaxLogs \in Nat
  BY PipelineAssumption DEF Send, PipelineTypeOK
<1>3. [conn |-> c, n |-> sent + 1, ts |-> ts] \in Event
  BY <1>2 DEF Event
<1> QED BY <1>1, <1>3

\* Typing of the data: what a handler, the channel and the batch hold are log lines.
LEMMA TypeInit == Init => PipelineTypeOK
  BY PipelineAssumption DEF Init, PipelineTypeOK, Phases

\* A list something was added to is not empty.
LEMMA AppendNotEmpty ==
  ASSUME NEW S, NEW s \in Seq(S), NEW e \in S
  PROVE  Append(s, e) # <<>>
<1>1. Len(Append(s, e)) = Len(s) + 1 /\ Len(s) \in Nat
  BY AppendProperties
<1>2. Len(<<>>) = 0
  OBVIOUS
<1>3. Len(Append(s, e)) # Len(<<>>)
  BY <1>1, <1>2
<1> QED BY <1>3

\* Every action keeps the types.
LEMMA TypeStep == PipelineTypeOK /\ [Next]_vars => PipelineTypeOK'
<1> SUFFICES ASSUME PipelineTypeOK, [Next]_vars PROVE PipelineTypeOK'
  OBVIOUS
<1> USE PipelineAssumption DEF PipelineTypeOK, Phases, procVars, clientVars, connVars, queueVars, dbVars
<1>1. ASSUME NEW c \in Conns, ClientStep(c) PROVE PipelineTypeOK'
  <2>1. CASE Dial(c)
    BY <2>1 DEF Dial
  <2>2. CASE Send(c)
    <3>1. PICK e \in Event : sock' = [sock EXCEPT ![c] = Append(sock[c], e)]
      BY <2>2, SentLine
    <3>2. sock' \in [Conns -> Seq(Event)]
      BY <3>1
    <3>3. \A d \in Conns : sock[d] # <<>> => sock'[d] # <<>>
      <4>1. sock[c] \in Seq(Event)
        OBVIOUS
      <4>2. Append(sock[c], e) # <<>>
        BY <4>1, AppendNotEmpty
      <4> QED BY <3>1, <4>2
    <3>4. sent' \in 0..MaxLogs
      BY <2>2 DEF Send
    <3> QED BY <3>2, <3>3, <3>4, <2>2 DEF Send
  <2>3. CASE Hangup(c)
    BY <2>3 DEF Hangup
  <2> QED BY <1>1, <2>1, <2>2, <2>3 DEF ClientStep
<1>2. ASSUME NEW c \in Conns, Accept(c) PROVE PipelineTypeOK'
  BY <1>2 DEF Accept
<1>3. ASSUME NEW c \in Conns, HandlerStep(c) PROVE PipelineTypeOK'
  <2>1. CASE Spawn(c)
    BY <2>1 DEF Spawn
  <2>2. CASE Decode(c)
    BY <2>2 DEF Decode
  <2>3. CASE CacheAdd(c)
    BY <2>3 DEF CacheAdd
  <2>4. CASE Push(c)
    BY <2>4 DEF Push, LineHandled
  <2>5. CASE Shed(c)
    BY <2>5 DEF Shed, LineHandled
  <2>6. CASE EndOfStream(c) \/ UndecodableLine(c)
    <3>1. LeaveConn(c)
      BY <2>6 DEF EndOfStream, UndecodableLine
    <3>2. sock' \in [Conns -> Seq(Event)]
      BY <3>1 DEF LeaveConn
    <3>3. \A d \in Conns : handler'[d] \in {"cache", "push"} => sock'[d] # <<>>
      BY <3>1 DEF LeaveConn
    <3>4. /\ conn' \in [Conns -> {"closed", "open", "hungup"}]
          /\ handler' \in [Conns -> {"none", "accepted", "decode", "cache", "push"}]
          /\ connWg' \in SUBSET Conns
      BY <3>1 DEF LeaveConn
    <3> QED BY <3>1, <3>2, <3>3, <3>4 DEF LeaveConn
  <2> QED BY <1>3, <2>1, <2>2, <2>3, <2>4, <2>5, <2>6 DEF HandlerStep
<1>4. CASE AcceptorExits
  BY <1>4 DEF AcceptorExits
<1>5. CASE WriterStep
  <2>1. CASE Receive
    BY <2>1 DEF Receive
  <2>2. CASE Tick \/ SeeClosed
    BY <2>2 DEF Tick, SeeClosed
  <2>3. CASE Flush
    <3>1. log' \in Seq(Event) /\ Len(log') = Len(log) + Len(batch)
      BY <2>3 DEF Flush
    <3>2. Len(log) \in Nat /\ Len(batch) \in Nat
      OBVIOUS
    <3>3. ASSUME NEW i \in live' PROVE i \in 1..Len(log')
      BY <3>1, <3>2, <3>3, <2>3 DEF Flush
    <3>4. live' \in SUBSET (1..Len(log'))
      BY <3>3
    <3>5. batch' = <<>> /\ writer' \in {"select", "flush", "finalFlush", "exited"}
      BY <2>3 DEF Flush, FlushReturns
    <3>6. UNCHANGED <<procVars, clientVars, connVars, eventCh>>
      BY <2>3 DEF Flush, FlushReturns
    <3> QED BY <3>1, <3>4, <3>5, <3>6
  <2>4. CASE FlushFails
    BY <2>4 DEF FlushFails, FlushReturns
  <2> QED BY <1>5, <2>1, <2>2, <2>3, <2>4 DEF WriterStep
<1>6. CASE StopStep
  <2>1. CASE CloseListener
    <3>1. /\ conn' \in [Conns -> {"closed", "open", "hungup"}]
          /\ sock' \in [Conns -> Seq(Event)]
          /\ \A c \in Conns : handler[c] \in {"cache", "push"} => sock'[c] # <<>>
      BY <2>1 DEF CloseListener
    <3> QED BY <3>1, <2>1 DEF CloseListener
  <2>2. CASE CloseChannel \/ AwaitWriter \/ CloseStore \/ CloseStoreFails
    BY <2>2 DEF CloseChannel, AwaitWriter, CloseStore, CloseStoreFails
  <2> QED BY <1>6, <2>1, <2>2 DEF StopStep
<1>7. CASE Listen
  BY <1>7 DEF Listen
<1>8. CASE WarmCache \/ Signal
  BY <1>8 DEF WarmCache, Signal
<1>9. CASE Crash
  BY <1>9 DEF Crash
<1>10. CASE Prune
  BY <1>10 DEF Prune
<1>11. CASE UNCHANGED vars
  BY <1>11 DEF vars
<1> QED
  BY <1>1, <1>2, <1>3, <1>4, <1>5, <1>6, <1>7, <1>8, <1>9, <1>10, <1>11 DEF Next

\* Type correctness of everything but the contents of the cache.
LEMMA QueueTypesCorrect == Spec => []PipelineTypeOK
  BY TypeInit, TypeStep, PTL DEF Spec

-----------------------------------------------------------------------------
LEMMA ShutdownInit == Init => ShutdownInv
  BY DEF Init, ShutdownInv, HandlersCounted, WriterDrains

\* Every action keeps ShutdownInv.
LEMMA ShutdownStep == PipelineTypeOK /\ ShutdownInv /\ [Next]_vars => ShutdownInv'
<1> SUFFICES ASSUME PipelineTypeOK, ShutdownInv, [Next]_vars PROVE ShutdownInv'
  OBVIOUS
<1> USE DEF PipelineTypeOK, Phases, ShutdownInv, HandlersCounted, WriterDrains,
            Listening, DoneClosed, ChannelOpen,
            procVars, clientVars, connVars, queueVars, dbVars
<1>1. ASSUME NEW c \in Conns, ClientStep(c) PROVE ShutdownInv'
  BY <1>1 DEF ClientStep, Dial, Send, Hangup
<1>2. ASSUME NEW c \in Conns, Accept(c) PROVE ShutdownInv'
  BY <1>2 DEF Accept
<1>3. ASSUME NEW c \in Conns, HandlerStep(c) PROVE ShutdownInv'
  <2>1. CASE Spawn(c)
    BY <2>1 DEF Spawn
  <2>2. CASE Decode(c)
    BY <2>2 DEF Decode
  <2>3. CASE CacheAdd(c)
    BY <2>3 DEF CacheAdd
  <2>4. CASE Push(c)
    BY <2>4 DEF Push, LineHandled
  <2>5. CASE Shed(c)
    BY <2>5 DEF Shed, LineHandled
  <2>6. CASE EndOfStream(c) \/ UndecodableLine(c)
    <3>1. /\ handler[c] = "decode" /\ handler' = [handler EXCEPT ![c] = "none"]
          /\ connWg' = connWg \ {c}
          /\ UNCHANGED <<phase, acceptor, eventCh, writer, batch>>
      BY <2>6 DEF EndOfStream, UndecodableLine, LeaveConn
    <3>2. HandlersCounted'
      BY <3>1
    <3>3. WriterDrains'
      BY <3>1
    <3> QED BY <3>2, <3>3
  <2> QED BY <1>3, <2>1, <2>2, <2>3, <2>4, <2>5, <2>6 DEF HandlerStep
<1>4. CASE AcceptorExits
  BY <1>4 DEF AcceptorExits
<1>5. CASE WriterStep
  BY <1>5 DEF WriterStep, Receive, Tick, SeeClosed, Flush, FlushFails, FlushReturns
<1>6. CASE StopStep
  <2>1. CASE CloseListener
    BY <2>1 DEF CloseListener
  <2>2. CASE CloseChannel
    BY <2>2 DEF CloseChannel
  <2>3. CASE AwaitWriter \/ CloseStore \/ CloseStoreFails
    BY <2>3 DEF AwaitWriter, CloseStore, CloseStoreFails
  <2> QED BY <1>6, <2>1, <2>2, <2>3 DEF StopStep
<1>7. CASE Listen
  BY <1>7 DEF Listen
<1>8. CASE WarmCache \/ Signal
  BY <1>8 DEF WarmCache, Signal
<1>9. CASE Crash
  BY <1>9 DEF Crash
<1>10. CASE Prune
  BY <1>10 DEF Prune
<1>11. CASE UNCHANGED vars
  BY <1>11 DEF vars
<1> QED
  BY <1>1, <1>2, <1>3, <1>4, <1>5, <1>6, <1>7, <1>8, <1>9, <1>10, <1>11 DEF Next

LEMMA ShutdownInvariant == Spec => []ShutdownInv
<1>1. PipelineTypeOK /\ ShutdownInv /\ [Next]_vars => ShutdownInv'
  BY ShutdownStep
<1> QED BY ShutdownInit, <1>1, QueueTypesCorrect, PTL DEF Spec

\* No handler ever sends on the closed channel, for any number of connections: the
\* WaitGroup counts every handler that can still reach the push, and Stop closes the
\* channel only when it counts none and the accept loop has ended.
THEOREM NeverSendsOnClosedChannel == Spec => []NoSendOnClosedChannel
<1>1. PipelineTypeOK /\ ShutdownInv => NoSendOnClosedChannel
  BY DEF PipelineTypeOK, Phases, ShutdownInv, HandlersCounted, NoSendOnClosedChannel, ChannelOpen
<1> QED BY <1>1, QueueTypesCorrect, ShutdownInvariant, PTL

\* A graceful Stop closes the store only after the writer has stored, or tried to store,
\* everything that was accepted.
THEOREM StoreClosesDrained == Spec => []DrainedBeforeStoreCloses
<1>1. ShutdownInv => DrainedBeforeStoreCloses
  BY DEF ShutdownInv, WriterDrains, DrainedBeforeStoreCloses
<1> QED BY <1>1, ShutdownInvariant, PTL

-----------------------------------------------------------------------------
(* The pipeline implements DurableLog: pending is batch \o eventCh.         *)

\* Appending to the second part of a concatenation.
LEMMA ConcatAppend ==
  ASSUME NEW S, NEW s \in Seq(S), NEW t \in Seq(S), NEW e \in S
  PROVE  s \o Append(t, e) = Append(s \o t, e)
<1>1. Append(t, e) = t \o <<e>> /\ Append(s \o t, e) = (s \o t) \o <<e>>
  BY AppendIsConcat, ConcatProperties
<1> QED BY <1>1, ConcatAssociative, <<e>> \in Seq(S)

\* A list is its head and its tail.
LEMMA HeadThenTail ==
  ASSUME NEW S, NEW t \in Seq(S), t # <<>>
  PROVE  /\ <<Head(t)>> \in Seq(S) /\ Tail(t) \in Seq(S)
         /\ <<Head(t)>> \o Tail(t) = t
<1>1. Head(t) \in S /\ Tail(t) \in Seq(S) /\ <<Head(t)>> \in Seq(S)
  OBVIOUS
<1>2. ASSUME NEW i \in 1..Len(t) PROVE (<<Head(t)>> \o Tail(t))[i] = t[i]
  BY <1>1, HeadTailProperties, ConcatProperties
<1>3. <<Head(t)>> \o Tail(t) \in Seq(S) /\ Len(<<Head(t)>> \o Tail(t)) = Len(t)
  BY <1>1, HeadTailProperties, ConcatProperties
<1> QED BY <1>1, <1>2, <1>3, SeqEqual

\* Moving the head of one sequence to the end of the one before it.
LEMMA ShiftHead ==
  ASSUME NEW S, NEW s \in Seq(S), NEW t \in Seq(S), t # <<>>
  PROVE  Append(s, Head(t)) \o Tail(t) = s \o t
<1>1. Head(t) \in S /\ Tail(t) \in Seq(S) /\ <<Head(t)>> \in Seq(S)
  OBVIOUS
<1>2. Append(s, Head(t)) = s \o <<Head(t)>>
  BY <1>1, AppendIsConcat
<1> QED BY <1>1, <1>2, HeadThenTail, ConcatAssociative

\* The two parts of a concatenation are its first elements and the rest.
LEMMA SplitConcat ==
  ASSUME NEW S, NEW s \in Seq(S), NEW t \in Seq(S)
  PROVE  /\ SubSeq(s \o t, 1, Len(s)) = s
         /\ SubSeq(s \o t, Len(s) + 1, Len(s \o t)) = t
<1> DEFINE u == s \o t
<1>1. u \in Seq(S) /\ Len(u) = Len(s) + Len(t) /\ Len(s) \in Nat /\ Len(t) \in Nat
  BY ConcatProperties
<1>2. \A i \in 1..Len(u) : u[i] = IF i <= Len(s) THEN s[i] ELSE t[i - Len(s)]
  BY ConcatProperties, <1>1
<1>3. \A i \in 1..Len(u) : u[i] \in S
  BY <1>1, ElementOfSeq
<1> HIDE DEF u
<1>4. SubSeq(u, 1, Len(s)) = s
  <2>1. /\ SubSeq(u, 1, Len(s)) \in Seq(S)
        /\ Len(SubSeq(u, 1, Len(s))) = Len(s)
        /\ \A i \in 1..Len(s) : SubSeq(u, 1, Len(s))[i] = s[i]
    BY <1>1, <1>2, <1>3, SubSeqProperties
  <2> QED BY <2>1, SeqEqual
<1>5. SubSeq(u, Len(s) + 1, Len(u)) = t
  <2> DEFINE v == SubSeq(u, Len(s) + 1, Len(u))
  <2>1. \A i \in Len(s) + 1..Len(u) : u[i] \in S
    BY <1>1, <1>3
  <2>2. /\ v \in Seq(S)
        /\ Len(v) = IF Len(s) + 1 <= Len(u) THEN Len(u) - (Len(s) + 1) + 1 ELSE 0
        /\ \A i \in 1..Len(v) : v[i] = u[Len(s) + 1 + i - 1]
    BY <1>1, <2>1, SubSeqProperties
  <2> HIDE DEF v
  <2>3. Len(v) = Len(t)
    BY <1>1, <2>2
  <2>4. \A i \in 1..Len(t) : v[i] = t[i]
    <3> SUFFICES ASSUME NEW i \in 1..Len(t) PROVE v[i] = t[i]
      OBVIOUS
    <3>1. v[i] = u[Len(s) + i]
      BY <1>1, <2>2, <2>3
    <3>2. Len(s) + i \in 1..Len(u) /\ ~(Len(s) + i <= Len(s)) /\ Len(s) + i - Len(s) = i
      BY <1>1
    <3> QED BY <3>1, <3>2, <1>2
  <2> QED BY <2>2, <2>3, <2>4, SeqEqual DEF v
<1> QED BY <1>4, <1>5 DEF u

LEMMA RefinementInit == Init => Durable!Init
  BY DEF Init, Durable!Init

\* A step of the pipeline is one of DurableLog, or changes nothing of it.
LEMMA RefinementStep ==
  PipelineTypeOK /\ [Next]_vars => [Durable!Next]_(Durable!vars)
<1> SUFFICES ASSUME PipelineTypeOK, [Next]_vars PROVE [Durable!Next]_(Durable!vars)
  OBVIOUS
<1> DEFINE pending == batch \o eventCh
           Stutter == UNCHANGED <<batch, eventCh, dbVars>>
<1>1. /\ batch \in Seq(Event) /\ eventCh \in Seq(Event) /\ log \in Seq(Event)
      /\ live \in SUBSET (1..Len(log)) /\ Len(batch) \in Nat /\ Len(eventCh) \in Nat
      /\ pending \in Seq(Event) /\ Len(pending) = Len(batch) + Len(eventCh)
  BY ConcatProperties DEF PipelineTypeOK
<1>2. Stutter => UNCHANGED Durable!vars
  BY DEF Durable!vars, dbVars
<1>3. ASSUME NEW c \in Conns, HandlerStep(c) PROVE [Durable!Next]_(Durable!vars)
  <2>1. CASE Push(c)
    <3>1. Head(sock[c]) \in Event
      BY <2>1 DEF Push, PipelineTypeOK
    <3>2. pending' = Append(pending, Head(sock[c]))
      BY <1>1, <3>1, <2>1, ConcatAppend DEF Push, LineHandled
    <3>3. Durable!Accept
      BY <3>1, <3>2, <2>1 DEF Push, LineHandled, Durable!Accept, dbVars
    <3> QED BY <3>3 DEF Durable!Next
  <2>2. CASE ~Push(c)
    BY <1>2, <1>3, <2>2 DEF HandlerStep, Spawn, Decode, CacheAdd, Shed, LineHandled, EndOfStream,
                      UndecodableLine, LeaveConn, queueVars, dbVars
  <2> QED BY <2>1, <2>2
<1>4. CASE Receive
  <2>1. pending' = pending
    BY <1>1, <1>4, ShiftHead DEF Receive
  <2> QED BY <2>1, <1>4 DEF Receive, Durable!vars, dbVars
<1>5. ASSUME FlushReturns PROVE Durable!Settle(Len(batch))
  <2>1. pending' = eventCh
    BY <1>1, <1>5, ConcatEmptySeq DEF FlushReturns
  <2> QED BY <1>1, <2>1, SplitConcat DEF Durable!Settle
<1>6. CASE Flush
  <2>1. Durable!Commit(Len(batch))
    BY <1>1, <1>5, <1>6, SplitConcat DEF Flush, Durable!Commit, Durable!Oldest
  <2>2. CASE batch = <<>>
    <3>1. log' = log /\ live' = live
      <4>1. log' = log /\ live' = live \cup (Len(log) + 1)..(Len(log) + 0)
        BY <1>1, <1>6, <2>2, ConcatEmptySeq DEF Flush
      <4>2. (Len(log) + 1)..(Len(log) + 0) = {}
        BY <1>1
      <4> QED BY <4>1, <4>2
    <3> QED BY <1>6, <2>2, <3>1 DEF Flush, FlushReturns, Durable!vars
  <2>3. CASE batch # <<>>
    <3>1. Len(batch) \in 1..Len(pending)
      BY <1>1, <2>3
    <3> QED BY <2>1, <3>1 DEF Durable!Next
  <2> QED BY <2>2, <2>3
<1>7. CASE FlushFails
  <2>1. Durable!Lose(Len(batch))
    BY <1>5, <1>7 DEF FlushFails, Durable!Lose, dbVars
  <2>2. Len(batch) \in 1..Len(pending)
    BY <1>1, <1>7 DEF FlushFails
  <2> QED BY <2>1, <2>2 DEF Durable!Next
<1>8. CASE Crash
  <2>1. pending' = <<>> /\ UNCHANGED <<log, live>>
    BY <1>8, ConcatEmptySeq DEF Crash, dbVars
  <2>2. CASE pending = <<>>
    BY <2>1, <2>2 DEF Durable!vars
  <2>3. CASE pending # <<>>
    <3>1. Len(pending) \in 1..Len(pending)
      BY <1>1, <2>3
    <3>2. SubSeq(pending, Len(pending) + 1, Len(pending)) = <<>>
      BY <1>1, SubSeqEmpty
    <3>3. Durable!Lose(Len(pending))
      BY <2>1, <3>2 DEF Durable!Lose, Durable!Settle
    <3> QED BY <3>1, <3>3 DEF Durable!Next
  <2> QED BY <2>2, <2>3
<1>9. CASE Prune
  BY <1>9 DEF Prune, Durable!Next, Durable!Expire, queueVars
<1>10. ASSUME \/ \E c \in Conns : ClientStep(c) \/ Accept(c)
              \/ AcceptorExits \/ Tick \/ SeeClosed \/ StopStep
              \/ Listen \/ WarmCache \/ Signal \/ UNCHANGED vars
       PROVE  Stutter
  BY <1>10 DEF ClientStep, Dial, Send, Hangup, Accept, AcceptorExits, Tick, SeeClosed,
               StopStep, CloseListener, CloseChannel, AwaitWriter, CloseStore, CloseStoreFails,
               Listen, WarmCache, Signal, vars, queueVars, dbVars
<1> QED
  BY <1>2, <1>3, <1>4, <1>6, <1>7, <1>8, <1>9, <1>10 DEF Next, WriterStep

\* For all sizes of channel and batch, and whatever is shed, fails or crashes: accepted
\* lines are stored in the order of acceptance, each once, in whole batches.
THEOREM ImplementsAbstractLog == Spec => ImplementsDurableLog
  BY RefinementInit, RefinementStep, QueueTypesCorrect, PTL DEF Spec, ImplementsDurableLog, Durable!Spec

-----------------------------------------------------------------------------
(* Lines keep the order of their connection.                               *)

\* Of two lines of the same connection the one in s was sent before the one in t.
Before(s, t) ==
  \A i \in DOMAIN s, j \in DOMAIN t : s[i].conn = t[j].conn => s[i].n < t[j].n

SentBy(n, s) == \A i \in DOMAIN s : s[i].n <= n

\* The queues a line passes through one after the other.
OrderInv ==
  /\ InSendOrder(log) /\ InSendOrder(batch) /\ InSendOrder(eventCh)
  /\ Before(log, batch) /\ Before(log, eventCh) /\ Before(batch, eventCh)
  /\ SentBy(sent, log) /\ SentBy(sent, batch) /\ SentBy(sent, eventCh)
  /\ \A c \in Conns :
       /\ InSendOrder(sock[c]) /\ SentBy(sent, sock[c])
       /\ Before(log, sock[c]) /\ Before(batch, sock[c]) /\ Before(eventCh, sock[c])
       /\ \A i \in DOMAIN sock[c] : sock[c][i].conn = c

\* What comes before both parts comes before the whole, and the other way round.
LEMMA BeforeConcat ==
  ASSUME NEW s \in Seq(Event), NEW t \in Seq(Event), NEW u \in Seq(Event)
  PROVE  /\ Before(s \o t, u) <=> Before(s, u) /\ Before(t, u)
         /\ Before(u, s \o t) <=> Before(u, s) /\ Before(u, t)
<1> DEFINE w == s \o t
<1>1. /\ DOMAIN s = 1..Len(s) /\ DOMAIN t = 1..Len(t) /\ DOMAIN w = 1..(Len(s) + Len(t))
      /\ Len(s) \in Nat /\ Len(t) \in Nat
  BY ConcatProperties, LenProperties
<1>2. \A i \in 1..Len(s) : i \in DOMAIN w /\ w[i] = s[i]
  BY ConcatProperties, <1>1
<1>3. \A i \in 1..Len(t) : Len(s) + i \in DOMAIN w /\ w[Len(s) + i] = t[i]
  BY ConcatProperties, <1>1
<1>4. \A i \in DOMAIN w : \/ i \in 1..Len(s) /\ w[i] = s[i]
                          \/ i - Len(s) \in 1..Len(t) /\ w[i] = t[i - Len(s)]
  BY ConcatProperties, <1>1
<1> HIDE DEF w
<1>5. Before(w, u) <=> Before(s, u) /\ Before(t, u)
  <2>1. ASSUME Before(w, u) PROVE Before(s, u)
    BY <1>1, <1>2, <2>1 DEF Before
  <2>2. ASSUME Before(w, u) PROVE Before(t, u)
    BY <1>1, <1>3, <2>2 DEF Before
  <2>3. ASSUME Before(s, u), Before(t, u) PROVE Before(w, u)
    <3>1. SUFFICES ASSUME NEW i \in DOMAIN w, NEW j \in DOMAIN u, w[i].conn = u[j].conn PROVE w[i].n < u[j].n
      BY DEF Before
    <3>2. CASE i \in 1..Len(s) /\ w[i] = s[i]
      BY <1>1, <2>3, <3>1, <3>2 DEF Before
    <3>3. CASE i - Len(s) \in 1..Len(t) /\ w[i] = t[i - Len(s)]
      BY <1>1, <2>3, <3>1, <3>3 DEF Before
    <3> QED BY <1>4, <3>2, <3>3
  <2> QED BY <2>1, <2>2, <2>3
<1>6. Before(u, w) <=> Before(u, s) /\ Before(u, t)
  <2>1. ASSUME Before(u, w) PROVE Before(u, s)
    BY <1>1, <1>2, <2>1 DEF Before
  <2>2. ASSUME Before(u, w) PROVE Before(u, t)
    BY <1>1, <1>3, <2>2 DEF Before
  <2>3. ASSUME Before(u, s), Before(u, t) PROVE Before(u, w)
    <3>1. SUFFICES ASSUME NEW j \in DOMAIN u, NEW i \in DOMAIN w, u[j].conn = w[i].conn PROVE u[j].n < w[i].n
      BY DEF Before
    <3>2. CASE i \in 1..Len(s) /\ w[i] = s[i]
      BY <1>1, <2>3, <3>1, <3>2 DEF Before
    <3>3. CASE i - Len(s) \in 1..Len(t) /\ w[i] = t[i - Len(s)]
      BY <1>1, <2>3, <3>1, <3>3 DEF Before
    <3> QED BY <1>4, <3>2, <3>3
  <2> QED BY <2>1, <2>2, <2>3
<1> QED BY <1>5, <1>6 DEF w

\* A concatenation is in order when its parts are, the first before the second.
LEMMA OrderConcat ==
  ASSUME NEW s \in Seq(Event), NEW t \in Seq(Event)
  PROVE  InSendOrder(s \o t) <=> InSendOrder(s) /\ InSendOrder(t) /\ Before(s, t)
<1> DEFINE w == s \o t
<1>1. /\ DOMAIN s = 1..Len(s) /\ DOMAIN t = 1..Len(t) /\ DOMAIN w = 1..(Len(s) + Len(t))
      /\ Len(s) \in Nat /\ Len(t) \in Nat
  BY ConcatProperties, LenProperties
<1>2. \A i \in 1..Len(s) : i \in DOMAIN w /\ w[i] = s[i]
  BY ConcatProperties, <1>1
<1>3. \A i \in 1..Len(t) : Len(s) + i \in DOMAIN w /\ w[Len(s) + i] = t[i]
  BY ConcatProperties, <1>1
<1>4. \A i \in DOMAIN w : i > Len(s) => i - Len(s) \in 1..Len(t) /\ w[i] = t[i - Len(s)]
  BY ConcatProperties, <1>1
<1>5. \A i \in DOMAIN w : i <= Len(s) => i \in 1..Len(s)
  BY <1>1
<1> HIDE DEF w
<1>6. ASSUME InSendOrder(w) PROVE InSendOrder(s) /\ InSendOrder(t) /\ Before(s, t)
  <2>1. InSendOrder(s)
    BY <1>1, <1>2, <1>6 DEF InSendOrder
  <2>2. InSendOrder(t)
    <3>1. SUFFICES ASSUME NEW i \in 1..Len(t), NEW j \in 1..Len(t), i < j, t[i].conn = t[j].conn
                   PROVE  t[i].n < t[j].n
      BY <1>1 DEF InSendOrder
    <3>2. Len(s) + i < Len(s) + j
      BY <1>1, <3>1
    <3> QED BY <1>3, <1>6, <3>1, <3>2 DEF InSendOrder
  <2>3. Before(s, t)
    <3>1. SUFFICES ASSUME NEW i \in 1..Len(s), NEW j \in 1..Len(t), s[i].conn = t[j].conn
                   PROVE  s[i].n < t[j].n
      BY <1>1 DEF Before
    <3>2. i < Len(s) + j
      BY <1>1
    <3> QED BY <1>2, <1>3, <1>6, <3>1, <3>2 DEF InSendOrder
  <2> QED BY <2>1, <2>2, <2>3
<1>7. ASSUME InSendOrder(s), InSendOrder(t), Before(s, t) PROVE InSendOrder(w)
  <2>1. SUFFICES ASSUME NEW i \in DOMAIN w, NEW j \in DOMAIN w, i < j, w[i].conn = w[j].conn
                 PROVE  w[i].n < w[j].n
    BY DEF InSendOrder
  <2>2. CASE j <= Len(s)
    <3>1. i \in 1..Len(s) /\ j \in 1..Len(s)
      BY <1>1, <2>1, <2>2
    <3> QED BY <1>1, <1>2, <1>7, <2>1, <3>1 DEF InSendOrder
  <2>3. CASE i > Len(s)
    <3>1. /\ i - Len(s) \in 1..Len(t) /\ w[i] = t[i - Len(s)]
          /\ j - Len(s) \in 1..Len(t) /\ w[j] = t[j - Len(s)]
          /\ i - Len(s) < j - Len(s)
      BY <1>1, <1>4, <2>1, <2>3
    <3> QED BY <1>1, <1>7, <2>1, <3>1 DEF InSendOrder
  <2>4. CASE i <= Len(s) /\ j > Len(s)
    <3>1. /\ i \in 1..Len(s) /\ w[i] = s[i]
          /\ j - Len(s) \in 1..Len(t) /\ w[j] = t[j - Len(s)]
      BY <1>1, <1>2, <1>4, <2>1, <2>4
    <3> QED BY <1>1, <1>7, <2>1, <3>1 DEF Before
  <2> QED BY <1>1, <2>1, <2>2, <2>3, <2>4
<1> QED BY <1>6, <1>7 DEF w

\* The bound on the names of a concatenation.
LEMMA SentByConcat ==
  ASSUME NEW n, NEW s \in Seq(Event), NEW t \in Seq(Event)
  PROVE  SentBy(n, s \o t) <=> SentBy(n, s) /\ SentBy(n, t)
<1> DEFINE w == s \o t
<1>1. /\ DOMAIN s = 1..Len(s) /\ DOMAIN t = 1..Len(t) /\ DOMAIN w = 1..(Len(s) + Len(t))
      /\ Len(s) \in Nat /\ Len(t) \in Nat
  BY ConcatProperties, LenProperties
<1>2. \A i \in 1..Len(s) : i \in DOMAIN w /\ w[i] = s[i]
  BY ConcatProperties, <1>1
<1>3. \A i \in 1..Len(t) : Len(s) + i \in DOMAIN w /\ w[Len(s) + i] = t[i]
  BY ConcatProperties, <1>1
<1>4. \A i \in DOMAIN w : \/ i \in 1..Len(s) /\ w[i] = s[i]
                          \/ i - Len(s) \in 1..Len(t) /\ w[i] = t[i - Len(s)]
  BY ConcatProperties, <1>1
<1> HIDE DEF w
<1>5. ASSUME SentBy(n, w) PROVE SentBy(n, s) /\ SentBy(n, t)
  BY <1>1, <1>2, <1>3, <1>5 DEF SentBy
<1>6. ASSUME SentBy(n, s), SentBy(n, t) PROVE SentBy(n, w)
  BY <1>1, <1>4, <1>6 DEF SentBy
<1> QED BY <1>5, <1>6 DEF w

\* What holds of a queue holds of its head and of the rest.
LEMMA HeadTailOrder ==
  ASSUME NEW t \in Seq(Event), t # <<>>, InSendOrder(t)
  PROVE  /\ InSendOrder(Tail(t)) /\ Before(<<Head(t)>>, Tail(t))
         /\ \A s \in Seq(Event) :
              /\ Before(s, t) => Before(s, <<Head(t)>>) /\ Before(s, Tail(t))
              /\ Before(t, s) => Before(<<Head(t)>>, s) /\ Before(Tail(t), s)
         /\ \A n : SentBy(n, t) => SentBy(n, <<Head(t)>>) /\ SentBy(n, Tail(t))
<1> DEFINE h == <<Head(t)>>
           r == Tail(t)
<1>1. h \in Seq(Event) /\ r \in Seq(Event) /\ h \o r = t
  BY HeadThenTail
<1> HIDE DEF h, r
<1>2. InSendOrder(r) /\ Before(h, r)
  BY <1>1, OrderConcat
<1>3. ASSUME NEW s \in Seq(Event)
      PROVE  /\ Before(s, t) => Before(s, h) /\ Before(s, r)
             /\ Before(t, s) => Before(h, s) /\ Before(r, s)
  BY <1>1, BeforeConcat
<1>4. ASSUME NEW n PROVE SentBy(n, t) => SentBy(n, h) /\ SentBy(n, r)
  BY <1>1, SentByConcat
<1> QED BY <1>2, <1>3, <1>4 DEF h, r

\* What holds of an empty queue and of one with a single line.
LEMMA EmptyOrder ==
  /\ InSendOrder(<<>>)
  /\ \A s : Before(s, <<>>) /\ Before(<<>>, s)
  /\ \A n : SentBy(n, <<>>)
  /\ \A e \in Event : InSendOrder(<<e>>)
<1>1. DOMAIN <<>> = {} /\ \A e \in Event : DOMAIN <<e>> = {1}
  OBVIOUS
<1> QED BY <1>1 DEF InSendOrder, Before, SentBy

\* Adding a line e at the end of the queue q.
LEMMA AppendOrder ==
  ASSUME NEW q \in Seq(Event), NEW e \in Event, InSendOrder(q), Before(q, <<e>>)
  PROVE  /\ InSendOrder(Append(q, e))
         /\ \A s \in Seq(Event) :
              /\ Before(s, q) /\ Before(s, <<e>>) => Before(s, Append(q, e))
              /\ Before(q, s) /\ Before(<<e>>, s) => Before(Append(q, e), s)
         /\ \A n : SentBy(n, q) /\ SentBy(n, <<e>>) => SentBy(n, Append(q, e))
<1>1. <<e>> \in Seq(Event) /\ Append(q, e) = q \o <<e>> /\ InSendOrder(<<e>>)
  BY AppendIsConcat, EmptyOrder
<1>2. InSendOrder(Append(q, e))
  <2>1. InSendOrder(q \o <<e>>)
    BY <1>1, OrderConcat
  <2> QED BY <1>1, <2>1
<1>3. ASSUME NEW s \in Seq(Event)
      PROVE  /\ Before(s, q) /\ Before(s, <<e>>) => Before(s, Append(q, e))
             /\ Before(q, s) /\ Before(<<e>>, s) => Before(Append(q, e), s)
  <2>1. /\ Before(q \o <<e>>, s) <=> Before(q, s) /\ Before(<<e>>, s)
        /\ Before(s, q \o <<e>>) <=> Before(s, q) /\ Before(s, <<e>>)
    BY <1>1, BeforeConcat
  <2> QED BY <1>1, <2>1
<1>4. ASSUME NEW n PROVE SentBy(n, q) /\ SentBy(n, <<e>>) => SentBy(n, Append(q, e))
  <2>1. SentBy(n, q \o <<e>>) <=> SentBy(n, q) /\ SentBy(n, <<e>>)
    BY <1>1, SentByConcat
  <2> QED BY <1>1, <2>1
<1> QED BY <1>2, <1>3, <1>4

\* Every action keeps OrderInv.
LEMMA OrderStep == PipelineTypeOK /\ OrderInv /\ [Next]_vars => OrderInv'
<1> SUFFICES ASSUME PipelineTypeOK, OrderInv, [Next]_vars PROVE OrderInv'
  OBVIOUS
<1>t. /\ log \in Seq(Event) /\ batch \in Seq(Event) /\ eventCh \in Seq(Event)
      /\ sock \in [Conns -> Seq(Event)] /\ sent \in Nat
  BY PipelineAssumption DEF PipelineTypeOK
\* Steps that forget lines of some queues and move none.
<1>f. ASSUME UNCHANGED <<sent, log>>,
             batch' \in {batch, <<>>}, eventCh' \in {eventCh, <<>>},
             \A d \in Conns : sock'[d] \in {sock[d], <<>>}
      PROVE  OrderInv'
  <2>1. InSendOrder(batch') /\ Before(log, batch') /\ SentBy(sent, batch')
    BY <1>f, EmptyOrder DEF OrderInv
  <2>2. InSendOrder(eventCh') /\ Before(log, eventCh') /\ SentBy(sent, eventCh')
    BY <1>f, EmptyOrder DEF OrderInv
  <2>3. Before(batch', eventCh')
    BY <1>f, EmptyOrder DEF OrderInv
  <2>4. ASSUME NEW d \in Conns
        PROVE  /\ InSendOrder(sock'[d]) /\ SentBy(sent, sock'[d])
               /\ Before(log, sock'[d]) /\ Before(batch', sock'[d]) /\ Before(eventCh', sock'[d])
               /\ \A i \in DOMAIN sock'[d] : sock'[d][i].conn = d
    <3>1. CASE sock'[d] = <<>>
      <4>1. \A i \in DOMAIN <<>> : <<>>[i].conn = d
        OBVIOUS
      <4> QED BY <3>1, <4>1, EmptyOrder
    <3>2. CASE sock'[d] = sock[d]
      BY <1>f, <3>2, EmptyOrder DEF OrderInv
    <3> QED BY <1>f, <3>1, <3>2
  <2> QED BY <1>f, <2>1, <2>2, <2>3, <2>4 DEF OrderInv
<1>1. ASSUME NEW c \in Conns, Send(c) PROVE OrderInv'
  <2>1. PICK e \in Event : /\ e.conn = c /\ e.n = sent + 1
                          /\ sock' = [sock EXCEPT ![c] = Append(sock[c], e)]
    BY <1>1, SentLine
  <2>2. sent' = sent + 1 /\ UNCHANGED <<log, batch, eventCh>>
    BY <1>1 DEF Send, queueVars, dbVars
  <2>3. ASSUME NEW q \in Seq(Event), SentBy(sent, q)
        PROVE  Before(q, <<e>>) /\ SentBy(sent + 1, q)
    <3>1. \A i \in DOMAIN q : q[i] \in Event /\ q[i].n \in Nat
      <4>1. \A i \in DOMAIN q : q[i] \in Event
        OBVIOUS
      <4>2. \A x \in Event : x.n \in Nat
        BY PipelineAssumption DEF Event
      <4> QED BY <4>1, <4>2
    <3> QED BY <1>t, <2>1, <2>3, <3>1 DEF Before, SentBy
  <2>4. SentBy(sent + 1, <<e>>)
    BY <1>t, <2>1 DEF SentBy
  <2>5. /\ InSendOrder(sock'[c]) /\ SentBy(sent', sock'[c])
        /\ Before(log, sock'[c]) /\ Before(batch, sock'[c]) /\ Before(eventCh, sock'[c])
    BY <1>t, <2>1, <2>2, <2>3, <2>4, AppendOrder DEF OrderInv
  <2>6. \A i \in DOMAIN sock'[c] : sock'[c][i].conn = c
    BY <1>t, <2>1, <2>2 DEF OrderInv
  <2>7. \A d \in Conns \ {c} : sock'[d] = sock[d]
    BY <1>t, <2>1
  <2> QED BY <1>t, <2>2, <2>3, <2>5, <2>6, <2>7 DEF OrderInv
<1>2. ASSUME NEW c \in Conns, HandlerStep(c) PROVE OrderInv'
  <2>1. CASE Spawn(c) \/ Decode(c) \/ CacheAdd(c)
    BY <1>f, <2>1 DEF Spawn, Decode, CacheAdd, clientVars, queueVars, dbVars
  <2>2. CASE EndOfStream(c) \/ UndecodableLine(c)
    BY <1>f, <1>t, <2>2 DEF EndOfStream, UndecodableLine, LeaveConn, queueVars, dbVars
  <2>3. ASSUME Push(c) \/ Shed(c)
        PROVE  /\ InSendOrder(sock'[c]) /\ SentBy(sent, sock'[c])
               /\ Before(log, sock'[c]) /\ Before(batch, sock'[c]) /\ Before(eventCh, sock'[c])
               /\ \A i \in DOMAIN sock'[c] : sock'[c][i].conn = c
    <3>1. sock[c] # <<>> /\ sock'[c] = Tail(sock[c])
      BY <1>t, <2>3 DEF Push, Shed, LineHandled, PipelineTypeOK
    <3>2. \A i \in DOMAIN Tail(sock[c]) : Tail(sock[c])[i].conn = c
      <4>1. \A i \in DOMAIN Tail(sock[c]) : i + 1 \in DOMAIN sock[c] /\ Tail(sock[c])[i] = sock[c][i + 1]
        BY <1>t, <3>1
      <4> QED BY <4>1 DEF OrderInv
    <3>3. sock[c] \in Seq(Event) /\ InSendOrder(sock[c]) /\ SentBy(sent, sock[c])
      BY <1>t DEF OrderInv
    <3>4. InSendOrder(Tail(sock[c])) /\ SentBy(sent, Tail(sock[c]))
      BY <3>1, <3>3, HeadTailOrder
    <3>5. UNCHANGED <<log, batch>> /\ \A s \in Seq(Event) : Before(s, sock[c]) => Before(s, Tail(sock[c]))
      BY <2>3, <3>1, <3>3, HeadTailOrder DEF Push, Shed, LineHandled, dbVars
    <3>6. Before(log, Tail(sock[c])) /\ Before(batch, Tail(sock[c])) /\ Before(eventCh, Tail(sock[c]))
      BY <1>t, <3>5 DEF OrderInv
    <3> QED BY <3>1, <3>2, <3>4, <3>6
  <2>4. CASE Shed(c)
    <3>1. UNCHANGED <<sent, log, batch, eventCh>> /\ \A d \in Conns \ {c} : sock'[d] = sock[d]
      BY <1>t, <2>4 DEF Shed, LineHandled, dbVars
    <3> QED BY <2>3, <2>4, <3>1 DEF OrderInv
  <2>5. CASE Push(c)
    <3> DEFINE h == Head(sock[c])
    <3>1. sock[c] # <<>> /\ sock'[c] = Tail(sock[c]) /\ Tail(sock[c]) \in Seq(Event)
      BY <1>t, <2>5 DEF Push, LineHandled, PipelineTypeOK
    <3>2. /\ UNCHANGED <<sent, log, batch>> /\ eventCh' = Append(eventCh, h)
          /\ \A d \in Conns \ {c} : sock'[d] = sock[d]
      BY <1>t, <2>5 DEF Push, LineHandled, dbVars
    <3>3. h \in Event /\ h.conn = c
      BY <1>t, <3>1, HeadTailProperties DEF OrderInv
    <3>4. /\ Before(log, <<h>>) /\ Before(batch, <<h>>) /\ Before(eventCh, <<h>>)
          /\ Before(<<h>>, sock'[c]) /\ SentBy(sent, <<h>>)
      BY <1>t, <3>1, HeadTailOrder DEF OrderInv
    <3> HIDE DEF h
    <3>5. ASSUME NEW d \in Conns \ {c} PROVE Before(<<h>>, sock[d])
      BY <3>3, <3>5 DEF OrderInv, Before
    <3>6. /\ InSendOrder(eventCh') /\ SentBy(sent, eventCh')
          /\ Before(log, eventCh') /\ Before(batch, eventCh')
      BY <1>t, <3>2, <3>3, <3>4, AppendOrder DEF OrderInv
    <3>7. ASSUME NEW d \in Conns PROVE Before(eventCh', sock'[d])
      <4>1. Before(<<h>>, sock'[d]) /\ Before(eventCh, sock'[d]) /\ sock'[d] \in Seq(Event)
        BY <1>t, <2>3, <2>5, <3>1, <3>2, <3>4, <3>5 DEF OrderInv
      <4> QED BY <1>t, <3>2, <3>3, <3>4, <4>1, AppendOrder DEF OrderInv
    <3> QED BY <2>3, <2>5, <3>2, <3>6, <3>7 DEF OrderInv
  <2> QED BY <1>2, <2>1, <2>2, <2>4, <2>5 DEF HandlerStep
<1>3. CASE Receive
  <2> DEFINE h == Head(eventCh)
  <2>1. /\ eventCh # <<>> /\ eventCh' = Tail(eventCh) /\ batch' = Append(batch, h)
        /\ UNCHANGED <<sent, log, sock>> /\ h \in Event
        /\ eventCh' \in Seq(Event)
    BY <1>t, <1>3 DEF Receive, clientVars, dbVars
  <2>2. /\ InSendOrder(eventCh') /\ SentBy(sent, eventCh') /\ Before(log, eventCh')
        /\ Before(batch, eventCh') /\ \A c \in Conns : Before(eventCh', sock[c])
    BY <1>t, <2>1, HeadTailOrder DEF OrderInv
  <2>3. /\ Before(<<h>>, eventCh') /\ SentBy(sent, <<h>>) /\ Before(log, <<h>>)
        /\ Before(batch, <<h>>) /\ \A c \in Conns : Before(<<h>>, sock[c])
    BY <1>t, <2>1, HeadTailOrder DEF OrderInv
  <2> HIDE DEF h
  <2>4. /\ InSendOrder(batch') /\ SentBy(sent, batch') /\ Before(log, batch')
        /\ Before(batch', eventCh') /\ \A c \in Conns : Before(batch', sock[c])
    BY <1>t, <2>1, <2>2, <2>3, AppendOrder DEF OrderInv
  <2> QED BY <2>1, <2>2, <2>4 DEF OrderInv
<1>4. CASE Flush
  <2>1. log' = log \o batch /\ batch' = <<>> /\ UNCHANGED <<eventCh, sent, sock>>
    BY <1>4 DEF Flush, FlushReturns, clientVars
  <2>2. /\ InSendOrder(log') /\ SentBy(sent, log') /\ Before(log', eventCh)
        /\ \A c \in Conns : Before(log', sock[c])
    BY <1>t, <2>1, OrderConcat, BeforeConcat, SentByConcat DEF OrderInv
  <2> QED BY <2>1, <2>2, EmptyOrder DEF OrderInv
<1>5. CASE FlushFails
  BY <1>f, <1>5 DEF FlushFails, FlushReturns, clientVars, dbVars
<1>6. CASE CloseListener
  BY <1>f, <1>t, <1>6 DEF CloseListener, queueVars, dbVars
<1>7. CASE Crash
  BY <1>f, <1>t, <1>7 DEF Crash, dbVars
<1>8. ASSUME \/ \E c \in Conns : Dial(c) \/ Hangup(c) \/ Accept(c)
             \/ AcceptorExits \/ Tick \/ SeeClosed
             \/ CloseChannel \/ AwaitWriter \/ CloseStore \/ CloseStoreFails
             \/ Listen \/ WarmCache \/ Signal \/ Prune \/ UNCHANGED vars
      PROVE  OrderInv'
  <2>1. UNCHANGED <<sent, sock, log, batch, eventCh>>
    BY <1>8 DEF Dial, Hangup, Accept, AcceptorExits, Tick, SeeClosed, CloseChannel, AwaitWriter,
                CloseStore, CloseStoreFails, Listen, WarmCache, Signal, Prune, vars,
                clientVars, queueVars, dbVars
  <2> QED BY <2>1, <1>f
<1> QED
  BY <1>1, <1>2, <1>3, <1>4, <1>5, <1>6, <1>7, <1>8 DEF Next, ClientStep, WriterStep, StopStep

LEMMA OrderInvariant == Spec => []OrderInv
<1>1. Init => OrderInv
  BY EmptyOrder DEF Init, OrderInv
<1>2. PipelineTypeOK /\ OrderInv /\ [Next]_vars => OrderInv'
  BY OrderStep
<1> QED BY <1>1, <1>2, QueueTypesCorrect, PTL DEF Spec

\* Along every connection, lines keep the order in which the client sent them, none
\* twice, from the socket to the table: no two of the five queues overlap or swap.
THEOREM LinesStayInOrder == Spec => []LinesKeepOrder
<1>1. PipelineTypeOK /\ OrderInv => LinesKeepOrder
  <2> SUFFICES ASSUME PipelineTypeOK, OrderInv, NEW c \in Conns
               PROVE  InSendOrder(log \o batch \o eventCh \o sock[c])
    BY DEF LinesKeepOrder
  <2>1. /\ log \in Seq(Event) /\ batch \in Seq(Event) /\ eventCh \in Seq(Event)
        /\ sock[c] \in Seq(Event)
    BY DEF PipelineTypeOK
  <2>2. log \o batch \in Seq(Event) /\ InSendOrder(log \o batch)
    BY <2>1, ConcatProperties, OrderConcat DEF OrderInv
  <2>3. Before(log \o batch, eventCh) /\ Before(log \o batch, sock[c])
    BY <2>1, BeforeConcat DEF OrderInv
  <2>4. (log \o batch) \o eventCh \in Seq(Event) /\ InSendOrder((log \o batch) \o eventCh)
    BY <2>1, <2>2, <2>3, ConcatProperties, OrderConcat DEF OrderInv
  <2>5. Before((log \o batch) \o eventCh, sock[c])
    BY <2>1, <2>2, <2>3, BeforeConcat DEF OrderInv
  <2> QED BY <2>1, <2>4, <2>5, OrderConcat DEF OrderInv
<1> QED BY <1>1, OrderInvariant, QueueTypesCorrect, PTL

-----------------------------------------------------------------------------
(* The cache holds what waits for the database.                            *)

\* The log lines on their way from a socket to the table, and those anywhere.
Fresh == ToSet(batch) \cup ToSet(eventCh) \cup UNION {ToSet(sock[c]) : c \in Conns}
Lines == ToSet(log) \cup Fresh

\* No two of them have the same name.
NamesApart == \A x, y \in Lines : x.n = y.n => x = y

\* What the handler of c has not put into the cache yet.
Uncached(c) == IF handler[c] = "push" THEN Tail(sock[c]) ELSE sock[c]

CacheTypes ==
  /\ cache \in [Services -> Seq(Event)]
  /\ \A s \in Services : Len(cache[s]) <= CacheSize /\ SentBy(sent, cache[s])
  /\ phase \in {"down", "warming"} => \A s \in Services : cache[s] = <<>>

\* q is a list as Recent shows it.
RecentOrder(q) == \A i, j \in DOMAIN q : i < j => MayPrecede(q[i], q[j])

\* The cache has its lines in order, and the lines that are still to come may follow them.
CacheInOrder ==
  \A s \in Services :
    /\ RecentOrder(cache[s])
    /\ \A c \in Conns : \A x \in ToSet(cache[s]), y \in ToSet(Uncached(c)) : MayPrecede(x, y)

\* The lines that wait for the database: those a handler is about to push, too.
Waiting == ToSet(batch) \cup ToSet(eventCh) \cup {Head(sock[c]) : c \in {d \in Conns : handler[d] = "push"}}

\* e is in the list q, or was pushed out of it by lines that came after it.
FoundOrPushedOut(e, q) ==
  \/ e \in ToSet(q)
  \/ Len(q) = CacheSize /\ \A x \in ToSet(q) : x.conn = e.conn => x.n > e.n

WaitingCached == \A e \in Waiting : FoundOrPushedOut(e, cache[ServiceOf[e.conn]])

CacheInv == CacheTypes /\ CacheInOrder /\ WaitingCached

-----------------------------------------------------------------------------
(* What a ring buffer keeps.                                               *)

\* The newest n elements of a list are an end of it.
LEMMA NewestSplits ==
  ASSUME NEW S, NEW n \in Nat, NEW q \in Seq(S)
  PROVE  /\ Newest(n, q) \in Seq(S)
         /\ Len(Newest(n, q)) = IF Len(q) > n THEN n ELSE Len(q)
         /\ \E p \in Seq(S) : q = p \o Newest(n, q)
<1>0. Len(q) \in Nat
  OBVIOUS
<1>1. CASE Len(q) > n
  <2> DEFINE k == Len(q) - n
             r == SubSeq(q, k + 1, Len(q))
             p == SubSeq(q, 1, k)
  <2>1. k \in Nat /\ k + 1 \in 1..(Len(q) + 1) /\ k <= Len(q)
    BY <1>0, <1>1
  <2>2. Newest(n, q) = r
    BY <1>1 DEF Newest
  <2>3. \A i \in 1..Len(q) : q[i] \in S
    BY ElementOfSeq
  <2>4. r \in Seq(S) /\ Len(r) = n
    <3>1. \A i \in (k + 1)..Len(q) : q[i] \in S
      BY <1>0, <2>1, <2>3
    <3>2. /\ r \in Seq(S)
          /\ Len(r) = IF k + 1 <= Len(q) THEN Len(q) - (k + 1) + 1 ELSE 0
      BY <1>0, <2>1, <3>1, SubSeqProperties
    <3> HIDE DEF r
    <3> QED BY <1>0, <1>1, <3>2
  <2>5. p \in Seq(S)
    <3>1. \A i \in 1..k : q[i] \in S
      BY <1>0, <2>1, <2>3
    <3> QED BY <2>1, <3>1, SubSeqProperties
  <2>6. p \o r = SubSeq(q, 1, Len(q))
    <3>1. 1 \in 1..(Len(q) + 1) /\ k \in (1 - 1)..Len(q) /\ Len(q) \in k..Len(q)
      BY <1>0, <2>1
    <3> HIDE DEF k
    <3> QED BY <3>1, ConcatAdjacentSubSeq
  <2>7. q = p \o r
    BY <2>6, SubSeqFull
  <2> HIDE DEF p, r
  <2> QED BY <1>1, <2>2, <2>4, <2>5, <2>7
<1>2. CASE ~(Len(q) > n)
  <2>1. Newest(n, q) = q /\ <<>> \in Seq(S) /\ q = <<>> \o q
    BY <1>2, ConcatEmptySeq DEF Newest
  <2> QED BY <1>2, <2>1
<1> QED BY <1>1, <1>2

\* They fit in the ring buffer.
LEMMA NewestFits ==
  ASSUME NEW q \in Seq(Event)
  PROVE  Newest(CacheSize, q) \in Seq(Event) /\ Len(Newest(CacheSize, q)) <= CacheSize
<1>1. CacheSize \in Nat /\ Len(q) \in Nat
  BY PipelineAssumption
<1>2. /\ Newest(CacheSize, q) \in Seq(Event)
      /\ Len(Newest(CacheSize, q)) = IF Len(q) > CacheSize THEN CacheSize ELSE Len(q)
  BY <1>1, NewestSplits
<1> QED BY <1>1, <1>2

\* The newest elements of a list are found in it at the same distances.
LEMMA NewestPlaces ==
  ASSUME NEW S, NEW n \in Nat, NEW q \in Seq(S)
  PROVE  /\ Newest(n, q) \in Seq(S)
         /\ \E k \in Nat : \A i \in DOMAIN Newest(n, q) :
              k + i \in DOMAIN q /\ Newest(n, q)[i] = q[k + i]
<1> DEFINE r == Newest(n, q)
<1>1. r \in Seq(S)
  BY NewestSplits
<1>2. PICK p \in Seq(S) : q = p \o r
  BY NewestSplits
<1> HIDE DEF r
<1>3. /\ DOMAIN q = 1..(Len(p) + Len(r)) /\ DOMAIN r = 1..Len(r)
      /\ Len(p) \in Nat /\ Len(r) \in Nat
  BY <1>1, <1>2, ConcatProperties, LenProperties
<1>4. \A i \in 1..(Len(p) + Len(r)) : q[i] = IF i <= Len(p) THEN p[i] ELSE r[i - Len(p)]
  BY <1>1, <1>2, ConcatProperties
<1>5. \A i \in DOMAIN r : Len(p) + i \in DOMAIN q /\ r[i] = q[Len(p) + i]
  BY <1>3, <1>4
<1> QED BY <1>1, <1>3, <1>5 DEF r

\* What holds of a list holds of its newest elements.
LEMMA NewestOrder ==
  ASSUME NEW n \in Nat, NEW q \in Seq(Event), RecentOrder(q)
  PROVE  /\ RecentOrder(Newest(n, q))
         /\ ToSet(Newest(n, q)) \subseteq ToSet(q)
         /\ \A m : SentBy(m, q) => SentBy(m, Newest(n, q))
<1> DEFINE r == Newest(n, q)
<1>1. PICK k \in Nat : \A i \in DOMAIN r : k + i \in DOMAIN q /\ r[i] = q[k + i]
  BY NewestPlaces
<1>2. r \in Seq(Event) /\ \A i \in DOMAIN r : i \in Nat
  BY NewestPlaces
<1> HIDE DEF r
<1>3. RecentOrder(r)
  <2> SUFFICES ASSUME NEW i \in DOMAIN r, NEW j \in DOMAIN r, i < j PROVE MayPrecede(r[i], r[j])
    BY DEF RecentOrder
  <2>1. k + i \in DOMAIN q /\ k + j \in DOMAIN q /\ k + i < k + j
    BY <1>1, <1>2
  <2>2. MayPrecede(q[k + i], q[k + j])
    BY <2>1 DEF RecentOrder
  <2> QED BY <1>1, <2>2
<1>4. ToSet(r) \subseteq ToSet(q)
  BY <1>1 DEF ToSet
<1>5. ASSUME NEW m, SentBy(m, q) PROVE SentBy(m, r)
  BY <1>1, <1>5 DEF SentBy
<1> QED BY <1>3, <1>4, <1>5 DEF r

\* Adding a line that may follow all the others.
LEMMA AddOrder ==
  ASSUME NEW q \in Seq(Event), NEW h \in Event, RecentOrder(q),
         \A x \in ToSet(q) : MayPrecede(x, h)
  PROVE  RecentOrder(Append(q, h))
<1> DEFINE a == Append(q, h)
<1>1. /\ DOMAIN a = 1..(Len(q) + 1) /\ DOMAIN q = 1..Len(q) /\ Len(q) \in Nat
      /\ a[Len(q) + 1] = h /\ \A i \in 1..Len(q) : a[i] = q[i]
  BY AppendProperties
<1> HIDE DEF a
<1>2. SUFFICES ASSUME NEW i \in DOMAIN a, NEW j \in DOMAIN a, i < j PROVE MayPrecede(a[i], a[j])
  BY DEF RecentOrder, a
<1>3. CASE j = Len(q) + 1
  <2>1. i \in DOMAIN q /\ a[i] = q[i] /\ a[j] = h
    BY <1>1, <1>2, <1>3
  <2> QED BY <2>1 DEF ToSet
<1>4. CASE j # Len(q) + 1
  <2>1. i \in DOMAIN q /\ j \in DOMAIN q /\ a[i] = q[i] /\ a[j] = q[j]
    BY <1>1, <1>2, <1>4
  <2>2. MayPrecede(q[i], q[j])
    BY <1>2, <2>1 DEF RecentOrder
  <2> QED BY <2>1, <2>2
<1> QED BY <1>3, <1>4

\* An element of a list is still in it after a line was added, or, if this broker process
\* handled it, the list is full and of its connection only newer lines are left.
LEMMA AddKeeps ==
  ASSUME NEW q \in Seq(Event), NEW h \in Event, Len(q) <= CacheSize,
         RecentOrder(Append(q, h))
  PROVE  LET r == Newest(CacheSize, Append(q, h)) IN
         /\ h \in ToSet(r)
         /\ Len(q) = CacheSize => Len(r) = CacheSize
         /\ ToSet(r) \subseteq ToSet(q) \cup {h}
         /\ \A e \in ToSet(q) : e.n > before => FoundOrPushedOut(e, r)
<1> DEFINE a == Append(q, h)
           r == Newest(CacheSize, a)
<1>0. CacheSize \in Nat \ {0} /\ Len(q) \in Nat
  BY PipelineAssumption
<1>1. /\ a \in Seq(Event) /\ Len(a) = Len(q) + 1 /\ a[Len(q) + 1] = h
      /\ \A i \in 1..Len(q) : a[i] = q[i]
  BY AppendProperties
<1>2. RecentOrder(a) /\ DOMAIN a = 1..(Len(q) + 1) /\ DOMAIN q = 1..Len(q)
  BY <1>0, <1>1
<1> HIDE DEF a
<1>3. CASE Len(q) < CacheSize
  <2>1. r = a
    BY <1>0, <1>1, <1>3 DEF Newest
  <2>2. ToSet(a) = ToSet(q) \cup {h}
    BY <1>0, <1>1, <1>2 DEF ToSet
  <2> QED BY <1>0, <1>3, <2>1, <2>2 DEF FoundOrPushedOut, a
<1>4. CASE Len(q) = CacheSize
  <2>1. r = SubSeq(a, 2, Len(a))
    <3>1. Len(a) > CacheSize /\ Len(a) - CacheSize + 1 = 2
      BY <1>0, <1>1, <1>4
    <3> QED BY <3>1 DEF Newest
  <2>2. /\ Len(r) = CacheSize /\ DOMAIN r = 1..CacheSize
        /\ \A i \in 1..CacheSize : r[i] = a[i + 1]
    <3>1. \A i \in 2..Len(a) : a[i] \in Event
      BY <1>0, <1>1, ElementOfSeq
    <3>2. /\ Len(a) \in Int /\ r \in Seq(Event)
          /\ Len(r) = IF 2 <= Len(a) THEN Len(a) - 2 + 1 ELSE 0
          /\ \A i \in 1..(Len(a) - 2 + 1) : r[i] = a[2 + i - 1]
      BY <1>0, <1>1, <2>1, <3>1, SubSeqProperties
    <3> HIDE DEF r
    <3>3. Len(r) = CacheSize /\ Len(a) - 2 + 1 = CacheSize
      BY <1>0, <1>1, <1>4, <3>2
    <3>4. \A i \in 1..CacheSize : r[i] = a[i + 1]
      BY <1>0, <3>2, <3>3
    <3> QED BY <3>2, <3>3, <3>4
  <2> HIDE DEF r
  <2>3. h \in ToSet(r)
    <3>1. CacheSize \in 1..CacheSize /\ r[CacheSize] = h
      BY <1>0, <1>1, <1>4, <2>2
    <3> QED BY <2>2, <3>1 DEF ToSet
  <2>4. ASSUME NEW x \in ToSet(r) PROVE \E j \in 2..(Len(q) + 1) : x = a[j]
    <3>1. PICK i \in 1..CacheSize : x = r[i]
      BY <2>2 DEF ToSet
    <3>2. i + 1 \in 2..(Len(q) + 1) /\ x = a[i + 1]
      BY <1>0, <1>4, <2>2, <3>1
    <3> QED BY <3>2
  <2>5. ASSUME NEW x \in ToSet(r) PROVE x \in ToSet(q) \cup {h}
    <3>1. PICK j \in 2..(Len(q) + 1) : x = a[j]
      BY <2>4
    <3>2. CASE j = Len(q) + 1
      BY <1>1, <3>1, <3>2
    <3>3. CASE j # Len(q) + 1
      <4>1. j \in 1..Len(q) /\ x = q[j]
        BY <1>0, <1>1, <3>1, <3>3
      <4> QED BY <1>2, <4>1 DEF ToSet
    <3> QED BY <3>2, <3>3
  <2>6. ASSUME NEW e \in ToSet(q), e.n > before PROVE FoundOrPushedOut(e, r)
    <3>1. PICK i \in 1..Len(q) : e = q[i]
      BY <1>2 DEF ToSet
    <3>2. CASE i = 1
      <4>1. ASSUME NEW x \in ToSet(r), x.conn = e.conn PROVE x.n > e.n
        <5>1. PICK j \in 2..(Len(q) + 1) : x = a[j]
          BY <2>4
        <5>2. 1 \in DOMAIN a /\ j \in DOMAIN a /\ 1 < j /\ a[1] = e
          BY <1>0, <1>1, <1>2, <3>1, <3>2
        <5>3. a[1].n < a[j].n
          BY <1>2, <2>6, <4>1, <5>1, <5>2 DEF RecentOrder, MayPrecede
        <5>4. a[1] \in Event /\ a[j] \in Event
          BY <1>1, <5>2, ElementOfSeq
        <5>5. a[1].n \in Int /\ a[j].n \in Int
          BY <5>4 DEF Event
        <5> QED BY <5>1, <5>2, <5>3, <5>5
      <4> QED BY <2>2, <4>1 DEF FoundOrPushedOut
    <3>3. CASE i # 1
      <4>1. i - 1 \in 1..CacheSize /\ r[i - 1] = a[i] /\ a[i] = e
        BY <1>0, <1>1, <1>4, <2>2, <3>1, <3>3
      <4>2. e \in ToSet(r)
        BY <2>2, <4>1 DEF ToSet
      <4> QED BY <4>2 DEF FoundOrPushedOut
    <3> QED BY <3>2, <3>3
  <2> QED BY <2>2, <2>3, <2>5, <2>6 DEF r, a
<1> QED BY <1>0, <1>3, <1>4

-----------------------------------------------------------------------------
(* Every line has a name of its own.                                       *)

\* What is in a list after an element was added at the end or taken from the front.
LEMMA ElementsOf ==
  ASSUME NEW q \in Seq(Event)
  PROVE  /\ \A e \in Event : ToSet(Append(q, e)) = ToSet(q) \cup {e}
         /\ \A r \in Seq(Event) : ToSet(q \o r) = ToSet(q) \cup ToSet(r)
         /\ q # <<>> => Head(q) \in ToSet(q) /\ ToSet(Tail(q)) \subseteq ToSet(q)
<1>0. Len(q) \in Nat /\ DOMAIN q = 1..Len(q)
  OBVIOUS
<1>1. ASSUME NEW e \in Event PROVE ToSet(Append(q, e)) = ToSet(q) \cup {e}
  <2> DEFINE a == Append(q, e)
  <2>1. /\ DOMAIN a = 1..(Len(q) + 1) /\ a[Len(q) + 1] = e
        /\ \A i \in 1..Len(q) : a[i] = q[i]
    BY AppendProperties
  <2> HIDE DEF a
  <2>2. ToSet(a) = ToSet(q) \cup {e}
    BY <1>0, <2>1 DEF ToSet
  <2> QED BY <2>2 DEF a
<1>2. ASSUME NEW r \in Seq(Event) PROVE ToSet(q \o r) = ToSet(q) \cup ToSet(r)
  <2> DEFINE w == q \o r
  <2>1. /\ DOMAIN w = 1..(Len(q) + Len(r)) /\ Len(r) \in Nat /\ DOMAIN r = 1..Len(r)
        /\ \A i \in 1..(Len(q) + Len(r)) : w[i] = IF i <= Len(q) THEN q[i] ELSE r[i - Len(q)]
    BY ConcatProperties, LenProperties
  <2> HIDE DEF w
  <2>2. ASSUME NEW x \in ToSet(w) PROVE x \in ToSet(q) \cup ToSet(r)
    <3>1. PICK i \in 1..(Len(q) + Len(r)) : x = w[i]
      BY <2>1 DEF ToSet
    <3>2. CASE i <= Len(q)
      <4>1. i \in DOMAIN q /\ x = q[i]
        BY <1>0, <2>1, <3>1, <3>2
      <4> QED BY <4>1 DEF ToSet
    <3>3. CASE ~(i <= Len(q))
      <4>1. i - Len(q) \in DOMAIN r /\ x = r[i - Len(q)]
        BY <1>0, <2>1, <3>1, <3>3
      <4> QED BY <4>1 DEF ToSet
    <3> QED BY <3>2, <3>3
  <2>3. ToSet(q) \subseteq ToSet(w)
    BY <1>0, <2>1 DEF ToSet
  <2>4. \A i \in 1..Len(r) : Len(q) + i \in DOMAIN w /\ w[Len(q) + i] = r[i]
    BY <1>0, <2>1
  <2>5. ToSet(r) \subseteq ToSet(w)
    BY <2>1, <2>4 DEF ToSet
  <2> QED BY <2>2, <2>3, <2>5 DEF w
<1>3. ASSUME q # <<>> PROVE Head(q) \in ToSet(q) /\ ToSet(Tail(q)) \subseteq ToSet(q)
  <2>1. 1 \in DOMAIN q /\ Head(q) = q[1]
    BY <1>0, <1>3
  <2>2. \A i \in DOMAIN Tail(q) : i + 1 \in DOMAIN q /\ Tail(q)[i] = q[i + 1]
    BY <1>0, <1>3
  <2> QED BY <2>1, <2>2 DEF ToSet
<1> QED BY <1>1, <1>2, <1>3

\* Nothing is in the empty list.
LEMMA EmptySet == ToSet(<<>>) = {}
  BY DEF ToSet

\* A step moves lines, drops some, or adds one with the next name.
LEMMA LinesStep ==
  ASSUME PipelineTypeOK, [Next]_vars
  PROVE  \/ Lines' \subseteq Lines /\ Fresh' \subseteq Fresh
         \/ \E e \in Event : e.n = sent + 1 /\ Lines' = Lines \cup {e} /\ Fresh' = Fresh \cup {e}
<1>t. /\ log \in Seq(Event) /\ batch \in Seq(Event) /\ eventCh \in Seq(Event)
      /\ sock \in [Conns -> Seq(Event)] /\ sent \in Nat
  BY PipelineAssumption DEF PipelineTypeOK
\* Steps that forget lines of some queues and move none.
<1>f. ASSUME UNCHANGED log,
             batch' \in {batch, <<>>}, eventCh' \in {eventCh, <<>>},
             \A d \in Conns : sock'[d] \in {sock[d], <<>>}
      PROVE  Lines' \subseteq Lines /\ Fresh' \subseteq Fresh
  <2>1. ToSet(batch') \subseteq ToSet(batch) /\ ToSet(eventCh') \subseteq ToSet(eventCh)
    BY <1>f, EmptySet
  <2>2. \A d \in Conns : ToSet(sock'[d]) \subseteq ToSet(sock[d])
    BY <1>f, EmptySet
  <2>3. ToSet(log)' = ToSet(log)
    BY <1>f DEF ToSet
  <2> QED BY <2>1, <2>2, <2>3 DEF Lines, Fresh
<1>1. ASSUME NEW c \in Conns, Send(c)
      PROVE  \E e \in Event : e.n = sent + 1 /\ Lines' = Lines \cup {e} /\ Fresh' = Fresh \cup {e}
  <2>1. PICK e \in Event : /\ e.conn = c /\ e.n = sent + 1
                          /\ sock' = [sock EXCEPT ![c] = Append(sock[c], e)]
    BY <1>1, SentLine
  <2>2. /\ sock'[c] = Append(sock[c], e) /\ \A d \in Conns \ {c} : sock'[d] = sock[d]
        /\ UNCHANGED <<log, batch, eventCh>>
    BY <1>t, <1>1, <2>1 DEF Send, queueVars, dbVars
  <2>3. ToSet(sock'[c]) = ToSet(sock[c]) \cup {e}
    BY <1>t, <2>1, <2>2, ElementsOf
  <2>4. Fresh' = Fresh \cup {e}
    BY <2>2, <2>3 DEF Fresh
  <2>5. Lines' = Lines \cup {e}
    BY <2>2, <2>4 DEF Lines
  <2> QED BY <2>1, <2>4, <2>5
<1>2. ASSUME NEW c \in Conns, HandlerStep(c) PROVE Lines' \subseteq Lines /\ Fresh' \subseteq Fresh
  <2>1. CASE Spawn(c) \/ Decode(c) \/ CacheAdd(c)
    BY <1>f, <2>1 DEF Spawn, Decode, CacheAdd, clientVars, queueVars, dbVars
  <2>2. CASE EndOfStream(c) \/ UndecodableLine(c)
    BY <1>f, <1>t, <2>2 DEF EndOfStream, UndecodableLine, LeaveConn, queueVars, dbVars
  <2>3. CASE Push(c) \/ Shed(c)
    <3>1. sock[c] # <<>> /\ sock'[c] = Tail(sock[c]) /\ \A d \in Conns \ {c} : sock'[d] = sock[d]
      BY <1>t, <2>3 DEF Push, Shed, LineHandled, PipelineTypeOK
    <3>2. UNCHANGED <<log, batch>> /\ eventCh' \in {eventCh, Append(eventCh, Head(sock[c]))}
      BY <2>3 DEF Push, Shed, LineHandled, dbVars
    <3>3. /\ ToSet(sock'[c]) \subseteq ToSet(sock[c]) /\ Head(sock[c]) \in ToSet(sock[c])
          /\ Head(sock[c]) \in Event
      BY <1>t, <3>1, ElementsOf
    <3>4. ToSet(eventCh') \subseteq ToSet(eventCh) \cup ToSet(sock[c])
      <4>1. ToSet(Append(eventCh, Head(sock[c]))) = ToSet(eventCh) \cup {Head(sock[c])}
        BY <1>t, <3>3, ElementsOf
      <4> QED BY <3>2, <3>3, <4>1
    <3> QED BY <3>1, <3>2, <3>3, <3>4 DEF Lines, Fresh
  <2> QED BY <1>2, <2>1, <2>2, <2>3 DEF HandlerStep
<1>3. CASE Receive
  <2>1. /\ eventCh # <<>> /\ eventCh' = Tail(eventCh) /\ batch' = Append(batch, Head(eventCh))
        /\ UNCHANGED <<log, sock>>
    BY <1>3 DEF Receive, clientVars, dbVars
  <2>2. /\ ToSet(eventCh') \subseteq ToSet(eventCh) /\ Head(eventCh) \in ToSet(eventCh)
        /\ Head(eventCh) \in Event
    BY <1>t, <2>1, ElementsOf
  <2>3. ToSet(batch') = ToSet(batch) \cup {Head(eventCh)}
    BY <1>t, <2>1, <2>2, ElementsOf
  <2> QED BY <2>1, <2>2, <2>3 DEF Lines, Fresh
<1>4. CASE Flush
  <2>1. log' = log \o batch /\ batch' = <<>> /\ UNCHANGED <<eventCh, sock>>
    BY <1>4 DEF Flush, FlushReturns, clientVars
  <2>2. ToSet(log') = ToSet(log) \cup ToSet(batch) /\ ToSet(batch') = {}
    BY <1>t, <2>1, ElementsOf, EmptySet
  <2> QED BY <2>1, <2>2 DEF Lines, Fresh
<1>5. CASE FlushFails
  BY <1>f, <1>5 DEF FlushFails, FlushReturns, clientVars, dbVars
<1>6. CASE CloseListener
  BY <1>f, <1>t, <1>6 DEF CloseListener, queueVars, dbVars
<1>7. CASE Crash
  BY <1>f, <1>t, <1>7 DEF Crash, dbVars
<1>8. ASSUME \/ \E c \in Conns : Dial(c) \/ Hangup(c) \/ Accept(c)
             \/ AcceptorExits \/ Tick \/ SeeClosed
             \/ CloseChannel \/ AwaitWriter \/ CloseStore \/ CloseStoreFails
             \/ Listen \/ WarmCache \/ Signal \/ Prune \/ UNCHANGED vars
      PROVE  Lines' \subseteq Lines /\ Fresh' \subseteq Fresh
  <2>1. UNCHANGED <<sock, log, batch, eventCh>>
    BY <1>8 DEF Dial, Hangup, Accept, AcceptorExits, Tick, SeeClosed, CloseChannel, AwaitWriter,
                CloseStore, CloseStoreFails, Listen, WarmCache, Signal, Prune, vars,
                clientVars, queueVars, dbVars
  <2> QED BY <2>1, <1>f
<1> QED
  BY <1>1, <1>2, <1>3, <1>4, <1>5, <1>6, <1>7, <1>8 DEF Next, ClientStep, WriterStep, StopStep

\* A new name is above all others.
LEMMA NamesStep ==
  ASSUME PipelineTypeOK, OrderInv, NamesApart, [Next]_vars
  PROVE  NamesApart'
<1>1. \A x \in Lines : x.n <= sent
  BY DEF Lines, Fresh, OrderInv, SentBy, ToSet
<1>2. sent \in Nat
  BY PipelineAssumption DEF PipelineTypeOK
<1>3. CASE Lines' \subseteq Lines
  BY <1>3 DEF NamesApart
<1>4. ASSUME NEW e \in Event, e.n = sent + 1, Lines' = Lines \cup {e}
      PROVE  NamesApart'
  <2>1. \A x \in Lines : x.n # e.n
    BY <1>1, <1>2, <1>4
  <2> QED BY <1>4, <2>1 DEF NamesApart
<1> QED BY <1>3, <1>4, LinesStep

LEMMA NamesInvariant == Spec => []NamesApart
<1>1. Init => NamesApart
  BY EmptySet DEF Init, NamesApart, Lines, Fresh
<1>2. PipelineTypeOK /\ OrderInv /\ NamesApart /\ [Next]_vars => NamesApart'
  BY NamesStep
<1> QED BY <1>1, <1>2, QueueTypesCorrect, OrderInvariant, PTL DEF Spec

-----------------------------------------------------------------------------
(* Which lines this broker process can have seen.                          *)

\* Before a process serves, the table holds only lines of earlier ones; what is on its way is
\* newer. Outside the time in which the socket listens, a connection without a handler is
\* closed and holds nothing.
Generations ==
  /\ before <= sent
  /\ phase = "warming" => SentBy(before, log)
  /\ phase # "down" => \A x \in Fresh : x.n > before
  /\ ~Listening => \A c \in Conns : handler[c] = "none" => conn[c] = "closed" /\ sock[c] = <<>>

\* Only Listen begins a generation.
LEMMA GenerationFrame ==
  ASSUME [Next]_vars, ~Listen
  PROVE  /\ before' = before /\ sent' \in {sent, sent + 1}
         /\ phase' = "warming" => phase = "warming"
         /\ phase = "down" => phase' = "down"
<1> USE DEF procVars, clientVars
<1>1. ASSUME NEW c \in Conns, ClientStep(c) \/ Accept(c)
      PROVE  UNCHANGED <<phase, before>> /\ sent' \in {sent, sent + 1}
  BY <1>1 DEF ClientStep, Dial, Send, Hangup, Accept
<1>2. ASSUME NEW c \in Conns, HandlerStep(c) PROVE UNCHANGED <<phase, before, sent>>
  BY <1>2 DEF HandlerStep, Spawn, Decode, CacheAdd, Push, Shed, LineHandled, EndOfStream, UndecodableLine, LeaveConn
<1>3. CASE AcceptorExits \/ WriterStep
  BY <1>3 DEF AcceptorExits, WriterStep, Receive, Tick, SeeClosed, Flush, FlushFails, FlushReturns
<1>4. CASE StopStep
  BY <1>4 DEF StopStep, CloseListener, CloseChannel, AwaitWriter, CloseStore, CloseStoreFails
<1>5. CASE WarmCache \/ Signal \/ Crash \/ Prune \/ UNCHANGED vars
  BY <1>5 DEF WarmCache, Signal, Crash, Prune, vars
<1> QED BY <1>1, <1>2, <1>3, <1>4, <1>5 DEF Next

\* While the broker is down nothing is on its way.
LEMMA DownIsEmpty ==
  ASSUME PipelineTypeOK, ShutdownInv, Generations, phase = "down"
  PROVE  Fresh = {}
<1>1. \A c \in Conns : handler[c] = "none"
  BY DEF ShutdownInv, HandlersCounted, PipelineTypeOK
<1>2. \A c \in Conns : sock[c] = <<>>
  BY <1>1 DEF Generations, Listening
<1>3. eventCh = <<>> /\ batch = <<>>
  BY DEF ShutdownInv, WriterDrains
<1> QED BY <1>2, <1>3, EmptySet DEF Fresh

\* A connection is given up before or when the listener closes.
LEMMA ConnStep ==
  ASSUME PipelineTypeOK, ShutdownInv, Generations, [Next]_vars, ~Listening',
         NEW c \in Conns, handler'[c] = "none"
  PROVE  conn'[c] = "closed" /\ sock'[c] = <<>>
<1> USE DEF PipelineTypeOK, Listening, procVars, clientVars, connVars
<1>0. ~Listening /\ handler[c] = "none" => conn[c] = "closed" /\ sock[c] = <<>>
  BY DEF Generations
<1>1. ASSUME NEW d \in Conns, ClientStep(d) \/ Accept(d) PROVE conn'[c] = "closed" /\ sock'[c] = <<>>
  BY <1>0, <1>1 DEF ClientStep, Dial, Send, Hangup, Accept
<1>2. ASSUME NEW d \in Conns, HandlerStep(d) PROVE conn'[c] = "closed" /\ sock'[c] = <<>>
  <2>1. CASE Spawn(d) \/ Decode(d) \/ CacheAdd(d)
    BY <1>0, <2>1 DEF Spawn, Decode, CacheAdd
  <2>2. CASE Push(d) \/ Shed(d)
    BY <1>0, <2>2 DEF Push, Shed, LineHandled
  <2>3. CASE LeaveConn(d)
    BY <1>0, <2>3 DEF LeaveConn
  <2> QED BY <1>2, <2>1, <2>2, <2>3 DEF HandlerStep, EndOfStream, UndecodableLine
<1>3. CASE AcceptorExits \/ WriterStep
  BY <1>0, <1>3 DEF AcceptorExits, WriterStep, Receive, Tick, SeeClosed, Flush, FlushFails, FlushReturns
<1>4. CASE StopStep
  <2>1. CASE CloseListener
    BY <2>1 DEF CloseListener
  <2>2. CASE CloseChannel \/ AwaitWriter \/ CloseStore \/ CloseStoreFails
    BY <1>0, <2>2 DEF CloseChannel, AwaitWriter, CloseStore, CloseStoreFails
  <2> QED BY <1>4, <2>1, <2>2 DEF StopStep
<1>5. CASE Listen \/ WarmCache \/ Signal \/ Prune \/ UNCHANGED vars
  BY <1>0, <1>5 DEF Listen, WarmCache, Signal, Prune, vars
<1>6. CASE Crash
  BY <1>6 DEF Crash
<1> QED BY <1>1, <1>2, <1>3, <1>4, <1>5, <1>6 DEF Next

\* Every action keeps Generations.
LEMMA GenerationsStep ==
  ASSUME PipelineTypeOK, ShutdownInv, OrderInv, Generations, [Next]_vars
  PROVE  Generations'
<1>t. sent \in Nat /\ before \in Nat
  BY PipelineAssumption DEF PipelineTypeOK
<1>1. CASE Listen
  <2>1. /\ phase = "down" /\ phase' = "warming" /\ before' = sent
        /\ UNCHANGED <<sent, conn, sock, handler, batch, eventCh, log>>
    BY <1>1 DEF Listen, clientVars, connVars, queueVars, dbVars
  <2>2. Fresh' = {}
    <3>1. Fresh = {}
      BY <2>1, DownIsEmpty
    <3>2. Fresh' = Fresh
      BY <2>1 DEF Fresh, ToSet
    <3> QED BY <3>1, <3>2
  <2>3. SentBy(before', log')
    BY <2>1 DEF OrderInv
  <2> QED BY <1>t, <2>1, <2>2, <2>3 DEF Generations, Listening
<1>2. CASE ~Listen
  <2>1. /\ before' = before /\ sent' \in {sent, sent + 1}
        /\ phase' = "warming" => phase = "warming"
        /\ phase = "down" => phase' = "down"
    BY <1>2, GenerationFrame
  <2>2. ASSUME phase' = "warming" PROVE SentBy(before', log')
    <3>1. phase = "warming" /\ writer = "exited"
      BY <2>1, <2>2 DEF ShutdownInv, WriterDrains
    <3>2. log' = log
      <4>1. ~Flush
        BY <3>1 DEF Flush
      <4> QED BY <4>1 DEF Next, ClientStep, Dial, Send, Hangup, Accept, HandlerStep, Spawn, Decode, CacheAdd,
                          Push, Shed, LineHandled, EndOfStream, UndecodableLine, LeaveConn,
                          AcceptorExits, WriterStep, Receive, Tick, SeeClosed, FlushFails,
                          StopStep, CloseListener, CloseChannel, AwaitWriter, CloseStore, CloseStoreFails,
                          Listen, WarmCache, Signal, Crash, Prune, vars, dbVars
    <3> QED BY <2>1, <3>1, <3>2 DEF Generations
  <2>3. ASSUME phase' # "down" PROVE \A x \in Fresh' : x.n > before'
    <3>1. \A x \in Fresh : x.n > before
      BY <2>1, <2>3 DEF Generations
    <3>2. \A e : e.n = sent + 1 => e.n > before
      BY <1>t DEF Generations
    <3> QED BY <2>1, <3>1, <3>2, LinesStep
  <2>4. before' <= sent'
    BY <1>t, <2>1 DEF Generations
  <2>5. ~Listening' => \A c \in Conns : handler'[c] = "none" => conn'[c] = "closed" /\ sock'[c] = <<>>
    BY ConnStep
  <2> QED BY <2>2, <2>3, <2>4, <2>5 DEF Generations, Listening
<1> QED BY <1>1, <1>2

LEMMA GenerationsInvariant == Spec => []Generations
<1>1. Init => Generations
  BY EmptySet DEF Init, Generations, Fresh, Listening
<1>2. PipelineTypeOK /\ ShutdownInv /\ OrderInv /\ Generations /\ [Next]_vars => Generations'
  BY GenerationsStep
<1> QED BY <1>1, <1>2, QueueTypesCorrect, ShutdownInvariant, OrderInvariant, PTL DEF Spec

-----------------------------------------------------------------------------
(* What warmCache reads.                                                   *)

\* The rows of a service are rows of the table, and time and id order them.
LEMMA RowsOrdered ==
  ASSUME PipelineTypeOK, NEW s \in Services
  PROVE  /\ IsFiniteSet(StoredRows(s)) /\ StoredRows(s) \subseteq DOMAIN log
         /\ StrictlyOrders(ByTime(StoredRows(s)), StoredRows(s))
<1> DEFINE rows == StoredRows(s)
<1>1. log \in Seq(Event) /\ live \subseteq 1..Len(log) /\ DOMAIN log = 1..Len(log) /\ Len(log) \in Nat
  BY DEF PipelineTypeOK
<1>2. \A i \in DOMAIN log : log[i].ts \in Int /\ i \in Int
  <2>1. \A i \in DOMAIN log : log[i] \in Event
    BY <1>1, ElementOfSeq
  <2>2. \A x \in Event : x.ts \in Int
    BY DEF Event
  <2> QED BY <1>1, <2>1, <2>2
<1>3. rows \subseteq DOMAIN log
  BY <1>1 DEF StoredRows
<1>4. IsFiniteSet(rows)
  <2>1. IsFiniteSet(1..Len(log))
    BY <1>1, FS_Interval
  <2> HIDE DEF rows
  <2> QED BY <1>1, <1>3, <2>1, FS_Subset
<1>5. \A p, q \in rows : <<p, q>> \in ByTime(rows) <=> log[p].ts < log[q].ts \/ (log[p].ts = log[q].ts /\ p < q)
  BY DEF ByTime
<1> HIDE DEF rows
<1>6. StrictlyOrders(ByTime(rows), rows)
  BY <1>2, <1>3, <1>5 DEF StrictlyOrders
<1> QED BY <1>3, <1>4, <1>6 DEF rows

\* Every line of a list is one of the table.
FromLog(q) == \A i \in DOMAIN q : \E j \in DOMAIN log : q[i] = log[j]

\* Two rows of the table in the order in which warmCache adds them.
LEMMA RowsMayPrecede ==
  ASSUME PipelineTypeOK, OrderInv, NamesApart, Generations, phase = "warming",
         NEW p \in DOMAIN log, NEW q \in DOMAIN log,
         log[p].ts < log[q].ts \/ (log[p].ts = log[q].ts /\ p < q)
  PROVE  MayPrecede(log[p], log[q])
<1>1. log \in Seq(Event) /\ DOMAIN log = 1..Len(log) /\ Len(log) \in Nat
  BY DEF PipelineTypeOK
<1>2. log[p] \in Event /\ log[q] \in Event /\ p \in Int /\ q \in Int
  BY <1>1, ElementOfSeq
<1>3. /\ log[p].ts \in Int /\ log[q].ts \in Int /\ log[p].n \in Int /\ log[q].n \in Int
      /\ before \in Int
  BY <1>2 DEF Event, PipelineTypeOK
<1>4. log[p].n <= before /\ log[q].n <= before
  BY DEF Generations, SentBy
<1>5. log[p].n # log[q].n
  <2>1. SUFFICES ASSUME log[p].n = log[q].n PROVE FALSE
    OBVIOUS
  <2>2. log[p] = log[q]
    BY <2>1 DEF NamesApart, Lines, ToSet
  <2>3. p < q \/ q < p
    BY <1>2, <1>3, <2>2
  <2>4. log[p].n < log[q].n \/ log[q].n < log[p].n
    BY <2>2, <2>3 DEF OrderInv, InSendOrder
  <2> QED BY <1>3, <2>1, <2>4
<1> QED BY <1>3, <1>4, <1>5 DEF MayPrecede

\* The cache is filled with lines of the table, in the order of their stamps.
LEMMA StoredLinesInOrder ==
  ASSUME PipelineTypeOK, OrderInv, NamesApart, Generations, phase = "warming", NEW s \in Services
  PROVE  StoredLines(s) \in Seq(Event) /\ RecentOrder(StoredLines(s)) /\ FromLog(StoredLines(s))
<1> DEFINE rows == StoredRows(s)
           list == Ordered(rows, ByTime(rows))
           ids  == Newest(CacheSize, list)
<1>1. /\ IsFiniteSet(rows) /\ rows \subseteq DOMAIN log /\ StrictlyOrders(ByTime(rows), rows)
  BY RowsOrdered
<1>2. \A p, q \in rows : <<p, q>> \in ByTime(rows) => log[p].ts < log[q].ts \/ (log[p].ts = log[q].ts /\ p < q)
  BY DEF ByTime
<1>3. StoredLines(s) = [i \in DOMAIN ids |-> log[ids[i]]]
  BY DEF StoredLines, LinesAt
<1> HIDE DEF rows
<1>4. /\ list \in Seq(rows)
      /\ \A i, j \in DOMAIN list : i < j => <<list[i], list[j]>> \in ByTime(rows)
  BY <1>1, OrderedProperties
<1>5. CacheSize \in Nat
  BY PipelineAssumption
<1> HIDE DEF list
<1>6. ids \in Seq(rows)
  BY <1>4, <1>5, NewestPlaces
<1>7. PICK k \in Nat : \A i \in DOMAIN ids : k + i \in DOMAIN list /\ ids[i] = list[k + i]
  BY <1>4, <1>5, NewestPlaces
<1> HIDE DEF ids
<1>8. /\ DOMAIN ids = 1..Len(ids) /\ Len(ids) \in Nat /\ \A i \in DOMAIN ids : ids[i] \in rows
  BY <1>6
<1>9. \A i \in DOMAIN log : log[i] \in Event
  BY ElementOfSeq DEF PipelineTypeOK
<1>10. StoredLines(s) \in Seq(Event) /\ DOMAIN StoredLines(s) = DOMAIN ids
  BY <1>1, <1>3, <1>8, <1>9
<1>11. FromLog(StoredLines(s))
  BY <1>1, <1>3, <1>8, <1>10 DEF FromLog
<1>12. RecentOrder(StoredLines(s))
  <2> SUFFICES ASSUME NEW i \in DOMAIN ids, NEW j \in DOMAIN ids, i < j
               PROVE  MayPrecede(StoredLines(s)[i], StoredLines(s)[j])
    BY <1>10 DEF RecentOrder
  <2>1. k + i < k + j
    BY <1>8
  <2>2. <<ids[i], ids[j]>> \in ByTime(rows)
    BY <1>4, <1>7, <2>1
  <2>3. MayPrecede(log[ids[i]], log[ids[j]])
    BY <1>1, <1>2, <1>8, <2>2, RowsMayPrecede
  <2> QED BY <1>3, <2>3
<1> QED BY <1>10, <1>11, <1>12

-----------------------------------------------------------------------------
(* The contents of the cache.                                              *)

\* Only a handler, warmCache and the end of the process change the cache.
CacheKept == /\ UNCHANGED cache /\ sent' \in {sent, sent + 1}
             /\ phase # "down" => before' = before
             /\ phase' \in {"down", "warming"} => phase \in {"down", "warming"}

\* Every other step leaves the cache alone.
LEMMA CacheSteps ==
  ASSUME [Next]_vars
  PROVE  CacheKept \/ (\E c \in Conns : CacheAdd(c)) \/ WarmCache \/ CloseStore \/ Crash
<1> USE DEF CacheKept, procVars, clientVars
<1>1. ASSUME NEW c \in Conns, ClientStep(c) \/ Accept(c) PROVE CacheKept
  BY <1>1 DEF ClientStep, Dial, Send, Hangup, Accept
<1>2. ASSUME NEW c \in Conns, HandlerStep(c), ~CacheAdd(c) PROVE CacheKept
  BY <1>2 DEF HandlerStep, Spawn, Decode, Push, Shed, LineHandled, EndOfStream, UndecodableLine, LeaveConn
<1>3. CASE AcceptorExits \/ WriterStep
  BY <1>3 DEF AcceptorExits, WriterStep, Receive, Tick, SeeClosed, Flush, FlushFails, FlushReturns
<1>4. CASE CloseListener \/ CloseChannel \/ AwaitWriter \/ CloseStoreFails
  BY <1>4 DEF CloseListener, CloseChannel, AwaitWriter, CloseStoreFails
<1>5. CASE Listen \/ Signal \/ Prune \/ UNCHANGED vars
  BY <1>5 DEF Listen, Signal, Prune, vars
<1> QED BY <1>1, <1>2, <1>3, <1>4, <1>5 DEF Next, StopStep

\* The line a handler is about to put into the cache.
LEMMA LineAtHand ==
  ASSUME PipelineTypeOK, OrderInv, NEW c \in Conns, handler[c] \in {"cache", "push"}
  PROVE  /\ sock[c] \in Seq(Event) /\ sock[c] # <<>> /\ Head(sock[c]) \in Event
         /\ Head(sock[c]).conn = c /\ Tail(sock[c]) \in Seq(Event)
<1>1. sock[c] \in Seq(Event) /\ sock[c] # <<>>
  BY DEF PipelineTypeOK
<1>2. 1 \in DOMAIN sock[c] /\ Head(sock[c]) = sock[c][1]
  BY <1>1
<1>3. sock[c][1].conn = c
  BY <1>2 DEF OrderInv
<1> QED BY <1>1, <1>2, <1>3

\* A service's part of the cache is filled with the newest of the stored lines, or stays empty
\* because the query failed.
LEMMA Warmed ==
  ASSUME PipelineTypeOK, OrderInv, NamesApart, Generations, CacheTypes, WarmCache, NEW s \in Services
  PROVE  \/ cache'[s] = <<>>
         \/ \E q \in Seq(Event) : RecentOrder(q) /\ FromLog(q) /\ cache'[s] = Newest(CacheSize, q)
<1> DEFINE q == StoredLines(s)
<1>1. cache[s] = <<>>
  BY DEF WarmCache, CacheTypes
<1>2. cache'[s] = <<>> \/ cache'[s] = Newest(CacheSize, <<>> \o q)
  BY <1>1 DEF WarmCache
<1>3. q \in Seq(Event) /\ RecentOrder(q) /\ FromLog(q)
  BY StoredLinesInOrder DEF WarmCache
<1> HIDE DEF q
<1>4. <<>> \o q = q
  BY <1>3, ConcatEmptySeq
<1> QED BY <1>2, <1>3, <1>4

\* The cache keeps its types and sizes.
LEMMA CacheTypesStep ==
  ASSUME PipelineTypeOK, ShutdownInv, OrderInv, NamesApart, Generations, CacheTypes, [Next]_vars
  PROVE  CacheTypes'
<1>t. sent \in Nat /\ CacheSize \in Nat \ {0} /\ \A s \in Services : cache[s] \in Seq(Event)
  BY PipelineAssumption DEF PipelineTypeOK, CacheTypes
<1>1. CASE CacheKept
  <2>1. ASSUME NEW s \in Services PROVE SentBy(sent', cache'[s])
    <3>1. \A i \in DOMAIN cache[s] : cache[s][i].n \in Nat
      <4>1. \A i \in DOMAIN cache[s] : cache[s][i] \in Event
        BY <1>t
      <4>2. \A x \in Event : x.n \in Nat
        BY PipelineAssumption DEF Event
      <4> QED BY <4>1, <4>2
    <3> QED BY <1>t, <1>1, <3>1 DEF CacheKept, CacheTypes, SentBy
  <2> QED BY <1>1, <2>1 DEF CacheKept, CacheTypes
<1>2. ASSUME NEW c \in Conns, CacheAdd(c) PROVE CacheTypes'
  <2> DEFINE s == ServiceOf[c]
             h == Head(sock[c])
             q == Append(cache[s], h)
  <2>1. s \in Services
    BY PipelineAssumption
  <2>2. h \in Event /\ sock[c] \in Seq(Event) /\ sock[c] # <<>>
    BY <1>2, LineAtHand DEF CacheAdd
  <2>3. phase \notin {"down", "warming"} /\ UNCHANGED <<phase, sent>>
    BY <1>2 DEF CacheAdd, ShutdownInv, HandlersCounted, procVars, clientVars
  <2>4. /\ cache'[s] = Newest(CacheSize, q)
        /\ cache' \in [Services -> {cache[r] : r \in Services} \cup {Newest(CacheSize, q)}]
        /\ \A r \in Services \ {s} : cache'[r] = cache[r]
    BY <1>2, <2>1 DEF CacheAdd, CacheTypes
  <2>5. q \in Seq(Event) /\ SentBy(sent, q)
    <3>1. SentBy(sent, <<h>>)
      BY <2>2, HeadTailOrder DEF OrderInv
    <3>2. SentBy(sent, cache[s]) /\ cache[s] \in Seq(Event) /\ <<h>> \in Seq(Event)
      BY <1>t, <2>1, <2>2 DEF CacheTypes
    <3> HIDE DEF h
    <3>3. q = cache[s] \o <<h>>
      BY <2>2, <3>2, AppendIsConcat
    <3> QED BY <2>2, <3>1, <3>2, <3>3, SentByConcat, ConcatProperties
  <2> HIDE DEF q, h
  <2>6. PICK p \in Seq(Event) : q = p \o Newest(CacheSize, q)
    BY <1>t, <2>5, NewestSplits
  <2>7. Newest(CacheSize, q) \in Seq(Event) /\ Len(Newest(CacheSize, q)) <= CacheSize
    BY <2>5, NewestFits
  <2>8. SentBy(sent, Newest(CacheSize, q))
    BY <2>5, <2>6, <2>7, SentByConcat
  <2> HIDE DEF s
  <2> QED BY <1>t, <2>1, <2>3, <2>4, <2>7, <2>8 DEF CacheTypes
<1>3. CASE WarmCache
  <2>1. phase' = "serving" /\ sent' = sent /\ DOMAIN cache' = Services /\ cache' = [s \in Services |-> cache'[s]]
    BY <1>3 DEF WarmCache, CacheTypes, clientVars
  <2>2. ASSUME NEW s \in Services
        PROVE  cache'[s] \in Seq(Event) /\ Len(cache'[s]) <= CacheSize /\ SentBy(sent, cache'[s])
    <3>1. CASE cache'[s] = <<>>
      BY <1>t, <3>1, EmptyOrder
    <3>2. ASSUME NEW q \in Seq(Event), RecentOrder(q), FromLog(q), cache'[s] = Newest(CacheSize, q)
          PROVE  cache'[s] \in Seq(Event) /\ Len(cache'[s]) <= CacheSize /\ SentBy(sent, cache'[s])
      <4>1. SentBy(sent, q)
        BY <3>2 DEF FromLog, SentBy, OrderInv
      <4>2. SentBy(sent, Newest(CacheSize, q))
        BY <1>t, <3>2, <4>1, NewestOrder
      <4> QED BY <3>2, <4>2, NewestFits
    <3> QED BY <1>3, <3>1, <3>2, Warmed
  <2> QED BY <2>1, <2>2 DEF CacheTypes
<1>4. CASE CloseStore \/ Crash
  <2>1. cache' = [s \in Services |-> <<>>]
    BY <1>4 DEF CloseStore, Crash
  <2> QED BY <1>t, <2>1, EmptyOrder DEF CacheTypes
<1> QED BY <1>1, <1>2, <1>3, <1>4, CacheSteps

\* How far a handler is behind its client: only CacheAdd brings it on, Send adds to it.
LEMMA UncachedFrame ==
  ASSUME PipelineTypeOK, [Next]_vars, NEW d \in Conns, ~CacheAdd(d)
  PROVE  \/ Uncached(d)' \in {Uncached(d), <<>>}
         \/ \E e \in Event : e.n = sent + 1 /\ Uncached(d)' = Append(Uncached(d), e)
<1>t. sock \in [Conns -> Seq(Event)] /\ sent \in Nat
      /\ handler \in [Conns -> {"none", "accepted", "decode", "cache", "push"}]
  BY PipelineAssumption DEF PipelineTypeOK
<1>1. CASE sock'[d] = sock[d] /\ (handler'[d] = "push" <=> handler[d] = "push")
  BY <1>1 DEF Uncached
<1>2. CASE sock'[d] = <<>> /\ handler'[d] # "push"
  BY <1>2 DEF Uncached
<1>3. CASE sock'[d] = Tail(sock[d]) /\ handler[d] = "push" /\ handler'[d] # "push"
  BY <1>3 DEF Uncached
<1>4. ASSUME Send(d)
      PROVE  \E e \in Event : e.n = sent + 1 /\ Uncached(d)' = Append(Uncached(d), e)
  <2>1. PICK e \in Event : e.n = sent + 1 /\ sock' = [sock EXCEPT ![d] = Append(sock[d], e)]
    BY <1>4, SentLine
  <2>2. sock'[d] = Append(sock[d], e) /\ handler' = handler
    BY <1>t, <1>4, <2>1 DEF Send, connVars
  <2>3. CASE handler[d] = "push"
    <3>1. sock[d] # <<>> /\ sock[d] \in Seq(Event)
      BY <2>3 DEF PipelineTypeOK
    <3>2. Tail(Append(sock[d], e)) = Append(Tail(sock[d]), e)
      BY <3>1, HeadTailAppend
    <3> QED BY <2>1, <2>2, <2>3, <3>2 DEF Uncached
  <2>4. CASE handler[d] # "push"
    BY <2>1, <2>2, <2>4 DEF Uncached
  <2> QED BY <2>3, <2>4
<1>5. ASSUME NEW c \in Conns, ClientStep(c) \/ Accept(c), ~Send(d)
      PROVE  sock'[d] = sock[d] /\ (handler'[d] = "push" <=> handler[d] = "push")
  BY <1>t, <1>5 DEF ClientStep, Dial, Hangup, Accept, Send, clientVars, connVars
<1>6. ASSUME NEW c \in Conns, HandlerStep(c), c # d
      PROVE  sock'[d] = sock[d] /\ (handler'[d] = "push" <=> handler[d] = "push")
  BY <1>t, <1>6 DEF HandlerStep, Spawn, Decode, CacheAdd, Push, Shed, LineHandled, EndOfStream, UndecodableLine,
                    LeaveConn, clientVars
<1>7. CASE Spawn(d) \/ Decode(d)
  BY <1>t, <1>1, <1>7 DEF Spawn, Decode, clientVars
<1>8. CASE Push(d) \/ Shed(d)
  BY <1>t, <1>3, <1>8 DEF Push, Shed, LineHandled
<1>9. CASE EndOfStream(d) \/ UndecodableLine(d)
  BY <1>t, <1>2, <1>9 DEF EndOfStream, UndecodableLine, LeaveConn
<1>10. CASE CloseListener
  BY <1>t, <1>1, <1>2, <1>10 DEF CloseListener, connVars
<1>11. CASE Crash
  BY <1>t, <1>2, <1>11 DEF Crash
<1>12. CASE \/ AcceptorExits \/ WriterStep
            \/ CloseChannel \/ AwaitWriter \/ CloseStore \/ CloseStoreFails
            \/ Listen \/ WarmCache \/ Signal \/ Prune \/ UNCHANGED vars
  <2>1. UNCHANGED <<sock, handler>>
    BY <1>12 DEF AcceptorExits, WriterStep, Receive, Tick, SeeClosed, Flush, FlushFails, FlushReturns,
                 CloseChannel, AwaitWriter, CloseStore, CloseStoreFails, Listen, WarmCache, Signal, Prune,
                 vars, clientVars, connVars
  <2> QED BY <1>1, <2>1
<1>13. ASSUME NEW c \in Conns, ClientStep(c) \/ Accept(c) \/ HandlerStep(c)
       PROVE  \/ Uncached(d)' \in {Uncached(d), <<>>}
              \/ \E e \in Event : e.n = sent + 1 /\ Uncached(d)' = Append(Uncached(d), e)
  BY <1>1, <1>4, <1>5, <1>6, <1>7, <1>8, <1>9, <1>13 DEF HandlerStep
<1> QED BY <1>10, <1>11, <1>12, <1>13 DEF Next, StopStep

\* What is still to be cached is a list of lines.
LEMMA UncachedTypes ==
  ASSUME PipelineTypeOK, NEW d \in Conns
  PROVE  Uncached(d) \in Seq(Event)
  BY DEF PipelineTypeOK, Uncached

\* Within a generation the order of two lines stays what it is.
LEMMA OrderKept ==
  ASSUME before' = before,
         \A s \in Services :
           /\ RecentOrder(cache'[s])
           /\ \A d \in Conns : \A x \in ToSet(cache'[s]), y \in ToSet(Uncached(d)') : MayPrecede(x, y)
  PROVE  CacheInOrder'
<1>1. ASSUME NEW s \in Services PROVE RecentOrder(cache[s])'
  BY DEF RecentOrder, MayPrecede
<1>2. ASSUME NEW s \in Services, NEW d \in Conns, NEW x \in ToSet(cache'[s]), NEW y \in ToSet(Uncached(d)')
      PROVE  MayPrecede(x, y)'
  <2>1. MayPrecede(x, y)
    OBVIOUS
  <2> QED BY <2>1 DEF MayPrecede
<1> QED BY <1>1, <1>2 DEF CacheInOrder, ToSet

\* Every action keeps the order of the cache.
LEMMA CacheOrderStep ==
  ASSUME PipelineTypeOK, PipelineTypeOK', ShutdownInv, OrderInv, NamesApart, Generations,
         CacheTypes, CacheTypes', CacheInOrder, [Next]_vars
  PROVE  CacheInOrder'
<1>t. /\ sent \in Nat /\ before \in Nat /\ CacheSize \in Nat \ {0}
      /\ \A s \in Services : cache[s] \in Seq(Event) /\ cache'[s] \in Seq(Event)
      /\ \A d \in Conns : Uncached(d) \in Seq(Event)
  BY PipelineAssumption, UncachedTypes DEF PipelineTypeOK, CacheTypes
\* A line that is sent may follow all in the cache.
<1>n. ASSUME NEW s \in Services, NEW x \in ToSet(cache[s]), NEW y, y.n = sent + 1
      PROVE  MayPrecede(x, y)
  <2>1. x \in Event /\ x.n <= sent
    BY <1>t DEF CacheTypes, SentBy, ToSet
  <2>2. x.n \in Nat
    BY <2>1 DEF Event
  <2> QED BY <1>t, <1>n, <2>1, <2>2 DEF Generations, MayPrecede
<1>u. ASSUME NEW s \in Services, NEW d \in Conns, ~CacheAdd(d),
             NEW x \in ToSet(cache[s]), NEW y \in ToSet(Uncached(d)')
      PROVE  MayPrecede(x, y)
  <2>1. y \in ToSet(Uncached(d)) \/ y.n = sent + 1
    <3>1. CASE Uncached(d)' \in {Uncached(d), <<>>}
      BY <1>u, <3>1, EmptySet
    <3>2. ASSUME NEW e \in Event, e.n = sent + 1, Uncached(d)' = Append(Uncached(d), e)
          PROVE  y \in ToSet(Uncached(d)) \/ y.n = sent + 1
      <4>1. ToSet(Uncached(d)') = ToSet(Uncached(d)) \cup {e}
        BY <1>t, <3>2, ElementsOf
      <4> QED BY <1>u, <3>2, <4>1
    <3> QED BY <1>u, <3>1, <3>2, UncachedFrame
  <2> QED BY <1>n, <2>1 DEF CacheInOrder
<1>1. CASE CacheKept /\ \A d \in Conns : ~CacheAdd(d)
  <2>1. CASE phase = "down"
    <3>1. \A s \in Services : cache'[s] = <<>>
      BY <1>1, <2>1 DEF CacheKept, CacheTypes
    <3> QED BY <3>1, EmptySet DEF CacheInOrder, RecentOrder
  <2>2. CASE phase # "down"
    <3>1. before' = before /\ cache' = cache
      BY <1>1, <2>2 DEF CacheKept
    <3>2. ASSUME NEW s \in Services, NEW d \in Conns, NEW x \in ToSet(cache'[s]), NEW y \in ToSet(Uncached(d)')
          PROVE  MayPrecede(x, y)
      BY <1>1, <1>u, <3>1
    <3> QED BY <3>1, <3>2, OrderKept DEF CacheInOrder
  <2> QED BY <2>1, <2>2
<1>2. ASSUME NEW c \in Conns, CacheAdd(c) PROVE CacheInOrder'
  <2> DEFINE s == ServiceOf[c]
             h == Head(sock[c])
             q == Append(cache[s], h)
  <2>1. s \in Services /\ handler[c] = "cache"
    BY <1>2, PipelineAssumption DEF CacheAdd
  <2>2. /\ h \in Event /\ h.conn = c /\ sock[c] \in Seq(Event) /\ sock[c] # <<>>
        /\ Tail(sock[c]) \in Seq(Event) /\ h \in ToSet(sock[c])
        /\ ToSet(Tail(sock[c])) \subseteq ToSet(sock[c])
    BY <2>1, LineAtHand, ElementsOf
  <2>3. /\ cache'[s] = Newest(CacheSize, q) /\ \A r \in Services \ {s} : cache'[r] = cache[r]
        /\ UNCHANGED <<sock, before>> /\ handler' = [handler EXCEPT ![c] = "push"]
    BY <1>2, <2>1 DEF CacheAdd, CacheTypes, clientVars, procVars
  <2>4. Uncached(c) = sock[c] /\ Uncached(c)' = Tail(sock[c])
    BY <2>1, <2>3 DEF Uncached, PipelineTypeOK
  <2>5. \A d \in Conns \ {c} : Uncached(d)' = Uncached(d)
    BY <2>3 DEF Uncached, PipelineTypeOK
  <2>6. ASSUME NEW r \in Services, NEW x \in ToSet(cache[r]), NEW d \in Conns,
               NEW y \in ToSet(Uncached(d)) \cup ToSet(Uncached(d)')
        PROVE  MayPrecede(x, y)
    <3>1. y \in ToSet(Uncached(d))
      BY <2>2, <2>4, <2>5
    <3> QED BY <3>1 DEF CacheInOrder
  <2>7. phase # "down"
    BY <2>1 DEF ShutdownInv, HandlersCounted
  <2>8. ASSUME NEW d \in Conns, NEW y \in ToSet(Uncached(d)') PROVE MayPrecede(h, y)
    <3>1. y \in ToSet(sock[d]) /\ sock[d] \in Seq(Event)
      <4>1. sock[d] \in Seq(Event) /\ (handler[d] = "push" => sock[d] # <<>>)
        BY DEF PipelineTypeOK
      <4>2. ToSet(Uncached(d)) \subseteq ToSet(sock[d])
        BY <4>1, ElementsOf DEF Uncached
      <4> QED BY <2>2, <2>4, <2>5, <4>1, <4>2
    <3>2. h \in Fresh /\ y \in Fresh
      BY <2>2, <3>1 DEF Fresh
    <3>3. y.conn = d /\ y \in Event
      BY <3>1 DEF OrderInv, ToSet
    <3>4. h.n > before /\ y.n > before
      BY <2>7, <3>2 DEF Generations
    <3>5. h.n \in Int /\ y.n \in Int
      BY <2>2, <3>3 DEF Event
    <3>6. CASE d = c
      <4>1. Before(<<h>>, Tail(sock[c]))
        BY <2>2, HeadTailOrder DEF OrderInv
      <4>2. y \in ToSet(Tail(sock[c]))
        BY <2>4, <3>6
      <4>3. h.n < y.n
        BY <2>2, <3>3, <3>6, <4>1, <4>2 DEF Before, ToSet
      <4> QED BY <1>t, <3>4, <3>5, <4>3 DEF MayPrecede
    <3>7. CASE d # c
      <4>1. h.n # y.n
        BY <2>2, <3>2, <3>3, <3>7 DEF NamesApart, Lines
      <4> QED BY <1>t, <2>2, <3>3, <3>4, <3>5, <3>7, <4>1 DEF MayPrecede
    <3> QED BY <3>6, <3>7
  <2>9. /\ q \in Seq(Event) /\ ToSet(q) = ToSet(cache[s]) \cup {h} /\ RecentOrder(q)
    <3>1. RecentOrder(cache[s]) /\ cache[s] \in Seq(Event)
      BY <1>t, <2>1 DEF CacheInOrder
    <3>2. \A x \in ToSet(cache[s]) : MayPrecede(x, h)
      BY <2>1, <2>2, <2>4, <2>6
    <3> HIDE DEF h, s
    <3> QED BY <2>2, <3>1, <3>2, AddOrder, ElementsOf
  <2> HIDE DEF h, q
  <2>10. RecentOrder(cache'[s]) /\ ToSet(cache'[s]) \subseteq ToSet(cache[s]) \cup {h}
    BY <1>t, <2>3, <2>9, NewestOrder
  <2>11. ASSUME NEW r \in Services
         PROVE  /\ RecentOrder(cache'[r])
                /\ \A d \in Conns : \A x \in ToSet(cache'[r]), y \in ToSet(Uncached(d)') : MayPrecede(x, y)
    <3>1. CASE r = s
      BY <2>1, <2>6, <2>8, <2>10, <3>1
    <3>2. CASE r # s
      BY <2>3, <2>6, <3>2 DEF CacheInOrder
    <3> QED BY <3>1, <3>2
  <2> QED BY <2>3, <2>11, OrderKept
<1>3. CASE WarmCache
  <2>1. UNCHANGED <<sock, handler, before>> /\ phase = "warming"
    BY <1>3 DEF WarmCache, clientVars
  <2>2. ASSUME NEW d \in Conns, NEW y \in ToSet(Uncached(d)') PROVE y.n > before /\ y \in Event
    <3>1. sock[d] \in Seq(Event) /\ (handler[d] = "push" => sock[d] # <<>>)
      BY DEF PipelineTypeOK
    <3>2. y \in ToSet(sock[d])
      <4>1. ToSet(Uncached(d)) \subseteq ToSet(sock[d])
        BY <3>1, ElementsOf DEF Uncached
      <4>2. Uncached(d)' = Uncached(d)
        BY <2>1 DEF Uncached
      <4> QED BY <4>1, <4>2
    <3>3. y \in Fresh
      BY <3>2 DEF Fresh
    <3>4. y \in Event
      BY <3>1, <3>2 DEF ToSet
    <3> QED BY <2>1, <3>3, <3>4 DEF Generations
  <2>3. ASSUME NEW s \in Services
        PROVE  /\ RecentOrder(cache'[s])
               /\ \A d \in Conns : \A x \in ToSet(cache'[s]), y \in ToSet(Uncached(d)') : MayPrecede(x, y)
    <3>1. CASE cache'[s] = <<>>
      BY <3>1, EmptySet DEF RecentOrder
    <3>2. ASSUME NEW q \in Seq(Event), RecentOrder(q), FromLog(q), cache'[s] = Newest(CacheSize, q)
          PROVE  /\ RecentOrder(cache'[s])
                 /\ \A d \in Conns : \A x \in ToSet(cache'[s]), y \in ToSet(Uncached(d)') : MayPrecede(x, y)
      <4>1. RecentOrder(cache'[s]) /\ ToSet(cache'[s]) \subseteq ToSet(q)
        BY <1>t, <3>2, NewestOrder
      <4>2. \A x \in ToSet(q) : x.n <= before /\ x \in Event
        BY <2>1, <3>2 DEF FromLog, Generations, SentBy, ToSet
      <4>3. \A x, y \in Event : x.n <= before /\ y.n > before => MayPrecede(x, y)
        BY <1>t DEF MayPrecede, Event
      <4> QED BY <2>2, <4>1, <4>2, <4>3
    <3> QED BY <1>3, <3>1, <3>2, Warmed
  <2> QED BY <2>1, <2>3, OrderKept
<1>4. CASE CloseStore \/ Crash
  <2>1. \A s \in Services : cache'[s] = <<>>
    BY <1>4 DEF CloseStore, Crash
  <2> QED BY <2>1, EmptySet DEF CacheInOrder, RecentOrder
<1> QED BY <1>1, <1>2, <1>3, <1>4, CacheSteps

\* Only a line that a handler puts into the cache starts to wait for the database.
LEMMA WaitingFrame ==
  ASSUME PipelineTypeOK, [Next]_vars, \A c \in Conns : ~CacheAdd(c)
  PROVE  Waiting' \subseteq Waiting
<1>t. /\ sock \in [Conns -> Seq(Event)] /\ batch \in Seq(Event) /\ eventCh \in Seq(Event)
      /\ handler \in [Conns -> {"none", "accepted", "decode", "cache", "push"}]
      /\ \A c \in Conns : handler[c] = "push" => sock[c] # <<>>
  BY DEF PipelineTypeOK
\* Steps that push nothing.
<1>f. ASSUME batch' \in {batch, <<>>}, eventCh' \in {eventCh, <<>>},
             \A d \in Conns : handler'[d] = "push" => handler[d] = "push" /\ Head(sock'[d]) = Head(sock[d])
      PROVE  Waiting' \subseteq Waiting
  <2>1. ToSet(batch') \subseteq ToSet(batch) /\ ToSet(eventCh') \subseteq ToSet(eventCh)
    BY <1>f, EmptySet
  <2> QED BY <1>f, <2>1 DEF Waiting
<1>1. ASSUME NEW c \in Conns, ClientStep(c) \/ Accept(c) PROVE Waiting' \subseteq Waiting
  <2>1. UNCHANGED <<batch, eventCh>> /\ \A d \in Conns : handler'[d] = "push" => handler[d] = "push"
    BY <1>t, <1>1 DEF ClientStep, Dial, Send, Hangup, Accept, connVars, queueVars
  <2>2. ASSUME NEW d \in Conns, handler'[d] = "push" PROVE Head(sock'[d]) = Head(sock[d])
    <3>1. sock[d] # <<>> /\ sock[d] \in Seq(Event)
      BY <1>t, <2>1, <2>2
    <3>2. CASE Send(c)
      <4>1. PICK e \in Event : sock' = [sock EXCEPT ![c] = Append(sock[c], e)]
        BY <3>2, SentLine
      <4>2. sock'[d] = sock[d] \/ sock'[d] = Append(sock[d], e)
        BY <1>t, <4>1
      <4>3. Head(Append(sock[d], e)) = Head(sock[d])
        BY <3>1, HeadTailAppend
      <4> QED BY <4>2, <4>3
    <3>3. CASE ~Send(c)
      BY <1>t, <1>1, <3>3 DEF ClientStep, Dial, Hangup, Accept, clientVars
    <3> QED BY <3>2, <3>3
  <2> QED BY <1>f, <2>1, <2>2
<1>2. ASSUME NEW c \in Conns, HandlerStep(c) PROVE Waiting' \subseteq Waiting
  <2>1. CASE Spawn(c) \/ Decode(c)
    BY <1>f, <1>t, <2>1 DEF Spawn, Decode, clientVars, queueVars
  <2>2. CASE EndOfStream(c) \/ UndecodableLine(c)
    BY <1>f, <1>t, <2>2 DEF EndOfStream, UndecodableLine, LeaveConn, queueVars
  <2>3. CASE Shed(c)
    BY <1>f, <1>t, <2>3 DEF Shed, LineHandled
  <2>4. CASE Push(c)
    <3>1. /\ handler[c] = "push" /\ eventCh' = Append(eventCh, Head(sock[c])) /\ batch' = batch
          /\ \A d \in Conns : handler'[d] = "push" => handler[d] = "push" /\ sock'[d] = sock[d]
      BY <1>t, <2>4 DEF Push, LineHandled
    <3>2. ToSet(eventCh') = ToSet(eventCh) \cup {Head(sock[c])}
      BY <1>t, <3>1, ElementsOf
    <3> QED BY <3>1, <3>2 DEF Waiting
  <2>5. ~CacheAdd(c)
    OBVIOUS
  <2> QED BY <1>2, <2>1, <2>2, <2>3, <2>4, <2>5 DEF HandlerStep
<1>3. CASE Receive
  <2>1. /\ eventCh # <<>> /\ eventCh' = Tail(eventCh) /\ batch' = Append(batch, Head(eventCh))
        /\ UNCHANGED <<sock, handler>>
    BY <1>3 DEF Receive, clientVars, connVars
  <2>2. /\ ToSet(eventCh') \subseteq ToSet(eventCh) /\ Head(eventCh) \in ToSet(eventCh)
        /\ Head(eventCh) \in Event
    BY <1>t, <2>1, ElementsOf
  <2>3. ToSet(batch') = ToSet(batch) \cup {Head(eventCh)}
    BY <1>t, <2>1, <2>2, ElementsOf
  <2> QED BY <2>1, <2>2, <2>3 DEF Waiting
<1>4. CASE Flush \/ FlushFails
  <2>1. batch' = <<>> /\ UNCHANGED <<eventCh, sock, handler>>
    BY <1>4 DEF Flush, FlushFails, FlushReturns, clientVars, connVars
  <2> QED BY <1>f, <2>1
<1>5. CASE CloseListener
  BY <1>f, <1>t, <1>5 DEF CloseListener, connVars, queueVars
<1>6. CASE Crash
  BY <1>f, <1>6 DEF Crash
<1>7. CASE \/ AcceptorExits \/ Tick \/ SeeClosed
           \/ CloseChannel \/ AwaitWriter \/ CloseStore \/ CloseStoreFails
           \/ Listen \/ WarmCache \/ Signal \/ Prune \/ UNCHANGED vars
  <2>1. UNCHANGED <<sock, handler, batch, eventCh>>
    BY <1>7 DEF AcceptorExits, Tick, SeeClosed, CloseChannel, AwaitWriter,
                CloseStore, CloseStoreFails, Listen, WarmCache, Signal, Prune, vars,
                clientVars, connVars, queueVars
  <2> QED BY <1>f, <2>1
<1> QED BY <1>1, <1>2, <1>3, <1>4, <1>5, <1>6, <1>7 DEF Next, WriterStep, StopStep

\* Nothing waits while the broker is not serving.
LEMMA NothingWaits ==
  ASSUME PipelineTypeOK, ShutdownInv, phase \in {"down", "warming", "closeStore", "stuck"}
  PROVE  Waiting = {}
<1>1. eventCh = <<>> /\ batch = <<>>
  BY DEF ShutdownInv, WriterDrains
<1>2. connWg = {}
  BY DEF ShutdownInv, HandlersCounted
<1>3. \A c \in Conns : handler[c] # "push"
  BY <1>2 DEF ShutdownInv, HandlersCounted
<1> QED BY <1>1, <1>3, EmptySet DEF Waiting

\* What waits is a log line.
LEMMA WaitingTypes ==
  ASSUME PipelineTypeOK, NEW e \in Waiting
  PROVE  e \in Event
<1>1. \A q \in Seq(Event) : ToSet(q) \subseteq Event
  BY DEF ToSet
<1>2. \A c \in Conns : handler[c] = "push" => Head(sock[c]) \in Event
  BY DEF PipelineTypeOK
<1> QED BY <1>1, <1>2 DEF Waiting, PipelineTypeOK

\* It came in since the process started.
LEMMA WaitingIsFresh ==
  ASSUME PipelineTypeOK, ShutdownInv, Generations, NEW e \in Waiting
  PROVE  e.n > before
<1>1. phase # "down"
  BY NothingWaits
<1>2. \A c \in Conns : handler[c] = "push" => Head(sock[c]) \in ToSet(sock[c])
  BY ElementsOf DEF PipelineTypeOK
<1>3. e \in Fresh
  BY <1>2 DEF Waiting, Fresh
<1> QED BY <1>1, <1>3 DEF Generations

\* What waits stays in the cache until newer lines push it out.
LEMMA WaitingStep ==
  ASSUME PipelineTypeOK, ShutdownInv, ShutdownInv', PipelineTypeOK', OrderInv, Generations,
         CacheTypes, CacheInOrder, WaitingCached,
         [Next]_vars
  PROVE  WaitingCached'
<1>1. CASE CacheKept /\ \A c \in Conns : ~CacheAdd(c)
  <2>1. Waiting' \subseteq Waiting
    BY <1>1, WaitingFrame
  <2> QED BY <1>1, <2>1 DEF WaitingCached, CacheKept
<1>2. ASSUME NEW c \in Conns, CacheAdd(c) PROVE WaitingCached'
  <2> DEFINE s == ServiceOf[c]
             h == Head(sock[c])
             r == Newest(CacheSize, Append(cache[s], h))
  <2>1. s \in Services /\ handler[c] = "cache"
    BY <1>2, PipelineAssumption DEF CacheAdd
  <2>2. /\ h \in Event /\ h.conn = c /\ sock[c] \in Seq(Event) /\ sock[c] # <<>>
    BY <2>1, LineAtHand
  <2>3. /\ cache'[s] = r /\ \A t \in Services \ {s} : cache'[t] = cache[t]
        /\ UNCHANGED <<sock, batch, eventCh>> /\ handler' = [handler EXCEPT ![c] = "push"]
    BY <1>2, <2>1 DEF CacheAdd, CacheTypes, clientVars, queueVars
  <2>4. Waiting' \subseteq Waiting \cup {h}
    BY <2>3 DEF Waiting, PipelineTypeOK
  <2>5. RecentOrder(Append(cache[s], h))
    <3>1. cache[s] \in Seq(Event) /\ RecentOrder(cache[s])
      BY <2>1 DEF CacheInOrder, CacheTypes
    <3>2. \A x \in ToSet(cache[s]) : MayPrecede(x, h)
      <4>1. Uncached(c) = sock[c] /\ h \in ToSet(sock[c])
        BY <2>1, <2>2, ElementsOf DEF Uncached
      <4> QED BY <2>1, <4>1 DEF CacheInOrder
    <3> HIDE DEF h, s
    <3> QED BY <2>2, <3>1, <3>2, AddOrder
  <2>6. /\ h \in ToSet(r) /\ (Len(cache[s]) = CacheSize => Len(r) = CacheSize)
        /\ ToSet(r) \subseteq ToSet(cache[s]) \cup {h}
        /\ \A e \in ToSet(cache[s]) : e.n > before => FoundOrPushedOut(e, r)
    <3>1. cache[s] \in Seq(Event) /\ Len(cache[s]) <= CacheSize
      BY <2>1 DEF CacheTypes
    <3> HIDE DEF h, s
    <3> QED BY <2>2, <2>5, <3>1, AddKeeps
  <2>7. ASSUME NEW e \in Waiting, e.conn = c PROVE h.n > e.n
    <3>1. ASSUME NEW q \in Seq(Event), Before(q, sock[c]), e \in ToSet(q) PROVE h.n > e.n
      <4>1. PICK i \in DOMAIN q : e = q[i]
        BY <3>1 DEF ToSet
      <4>2. 1 \in DOMAIN sock[c] /\ sock[c][1] = h
        BY <2>2
      <4>3. e.n < h.n
        BY <2>2, <2>7, <3>1, <4>1, <4>2 DEF Before
      <4>4. e \in Event
        BY <4>1
      <4>5. e.n \in Int /\ h.n \in Int
        BY <2>2, <4>4 DEF Event
      <4> QED BY <4>3, <4>5
    <3>2. CASE e \in ToSet(batch)
      BY <3>1, <3>2 DEF PipelineTypeOK, OrderInv
    <3>3. CASE e \in ToSet(eventCh)
      BY <3>1, <3>3 DEF PipelineTypeOK, OrderInv
    <3>4. CASE \E d \in Conns : handler[d] = "push" /\ e = Head(sock[d])
      <4>1. PICK d \in Conns : handler[d] = "push" /\ e = Head(sock[d])
        BY <3>4
      <4>2. e.conn = d
        BY <4>1, LineAtHand
      <4> QED BY <2>1, <2>7, <4>1, <4>2
    <3> QED BY <3>2, <3>3, <3>4 DEF Waiting
  <2> HIDE DEF h, r
  <2>8. ASSUME NEW e \in Waiting PROVE FoundOrPushedOut(e, cache'[ServiceOf[e.conn]])
    <3>1. FoundOrPushedOut(e, cache[ServiceOf[e.conn]])
      BY DEF WaitingCached
    <3>2. CASE ServiceOf[e.conn] # s
      <4>1. ServiceOf[e.conn] \in Services
        BY WaitingTypes, PipelineAssumption DEF Event
      <4> QED BY <2>3, <3>1, <3>2, <4>1
    <3>3. CASE ServiceOf[e.conn] = s /\ e \in ToSet(cache[s])
      BY <2>3, <2>6, <3>3, WaitingIsFresh
    <3>4. CASE ServiceOf[e.conn] = s /\ e \notin ToSet(cache[s])
      <4>1. Len(cache[s]) = CacheSize /\ \A x \in ToSet(cache[s]) : x.conn = e.conn => x.n > e.n
        BY <3>1, <3>4 DEF FoundOrPushedOut
      <4>2. h.conn = e.conn => h.n > e.n
        BY <2>2, <2>7
      <4>3. \A x \in ToSet(r) : x.conn = e.conn => x.n > e.n
        BY <2>6, <4>1, <4>2
      <4>4. Len(r) = CacheSize
        BY <2>6, <4>1
      <4> QED BY <2>3, <3>4, <4>3, <4>4 DEF FoundOrPushedOut
    <3> QED BY <3>2, <3>3, <3>4
  <2>9. FoundOrPushedOut(h, cache'[ServiceOf[h.conn]])
    BY <2>2, <2>3, <2>6 DEF FoundOrPushedOut
  <2> QED BY <2>4, <2>8, <2>9 DEF WaitingCached
<1>3. CASE WarmCache
  <2>1. Waiting = {}
    BY <1>3, NothingWaits DEF WarmCache
  <2>2. UNCHANGED <<sock, handler, batch, eventCh>>
    BY <1>3 DEF WarmCache, clientVars
  <2>3. Waiting' = Waiting
    BY <2>2 DEF Waiting, ToSet
  <2> QED BY <2>1, <2>3 DEF WaitingCached
<1>4. CASE CloseStore \/ Crash
  <2>2. CASE CloseStore
    <3>1. Waiting = {}
      BY <2>2, NothingWaits DEF CloseStore
    <3>2. Waiting' = Waiting
      BY <2>2 DEF Waiting, ToSet, CloseStore, clientVars, connVars, queueVars
    <3> QED BY <3>1, <3>2 DEF WaitingCached
  <2>3. CASE Crash
    <3>1. Waiting' = {}
      BY <2>3, EmptySet DEF Waiting, Crash
    <3> QED BY <3>1 DEF WaitingCached
  <2> QED BY <1>4, <2>2, <2>3
<1> QED BY <1>1, <1>2, <1>3, <1>4, CacheSteps

-----------------------------------------------------------------------------
LEMMA CacheInvariant == Spec => []CacheInv
<1>1. Init => CacheInv
  <2> SUFFICES ASSUME Init PROVE CacheInv
    OBVIOUS
  <2>1. \A s \in Services : cache[s] = <<>>
    BY DEF Init
  <2>2. CacheTypes
    BY <2>1, EmptyOrder, PipelineAssumption DEF Init, CacheTypes
  <2>3. CacheInOrder
    BY <2>1, EmptySet DEF CacheInOrder, RecentOrder
  <2>4. WaitingCached
    BY EmptySet DEF Init, WaitingCached, Waiting
  <2> QED BY <2>2, <2>3, <2>4 DEF CacheInv
<1>2. /\ PipelineTypeOK /\ PipelineTypeOK' /\ ShutdownInv /\ ShutdownInv' /\ OrderInv
      /\ NamesApart /\ Generations /\ CacheInv /\ [Next]_vars
      => CacheInv'
  BY CacheTypesStep, CacheOrderStep, WaitingStep DEF CacheInv
<1> QED BY <1>1, <1>2, QueueTypesCorrect, ShutdownInvariant, OrderInvariant, NamesInvariant,
       GenerationsInvariant, PTL DEF Spec

\* Every variable of the broker's pipeline, the cache included, holds a value it can hold,
\* for any number of connections and any sizes of channel, batch and cache.
THEOREM TypeCorrect == Spec => []TypeOK
<1>1. PipelineTypeOK /\ CacheInv => TypeOK
  BY DEF CacheInv, CacheTypes, TypeOK
<1> QED BY <1>1, QueueTypesCorrect, CacheInvariant, PTL

\* Whatever the stamps are, and however often the broker was restarted: Recent returns the
\* lines of earlier processes first and by time, then those that came in since, of every
\* connection in the order in which it sent them, and none twice. Lines that are still to
\* come are newer than all that warmCache can have read, so they never get in between.
THEOREM RecentStaysInOrder == Spec => []RecentKeepsOrder
<1>1. CacheInv => RecentKeepsOrder
  BY DEF CacheInv, CacheInOrder, RecentOrder, RecentKeepsOrder
<1> QED BY <1>1, CacheInvariant, PTL

\* A line that the database does not have yet is in the cache, unless newer lines filled it:
\* handleLog adds to the cache before it pushes, and only adding removes.
THEOREM CachedWhileWaiting == Spec => []CachedUntilStored
<1>1. PipelineTypeOK /\ CacheInv => CachedUntilStored
  <2> SUFFICES ASSUME PipelineTypeOK, CacheInv, NEW e \in ToSet(batch \o eventCh)
               PROVE  FoundOrPushedOut(e, cache[ServiceOf[e.conn]])
    BY DEF CachedUntilStored, FoundOrPushedOut
  <2>1. ToSet(batch \o eventCh) = ToSet(batch) \cup ToSet(eventCh)
    BY ElementsOf DEF PipelineTypeOK
  <2> QED BY <2>1 DEF CacheInv, WaitingCached, Waiting
<1> QED BY <1>1, QueueTypesCorrect, CacheInvariant, PTL
=============================================================================
