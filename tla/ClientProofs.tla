---------------------------- MODULE ClientProofs ----------------------------
(* What holds of Client for any streams, buffer capacity and bounds, and of  *)
(* Runner, the client with its child process, for any sizes of the pipes.    *)
EXTENDS Runner, SequenceTheorems, FiniteSetTheorems, TLAPS

\* What is written to a connection, and what the brokers have read.
Message ==
  [type : {"log"}, line : Line, session : Nat] \cup [type : {"session_start"}]
    \cup [type : {"session_end"}, session : Nat]
Record == [line : Line, session : Nat, conn : Links]

\* TypeOK, and the contents of the connections.
RunTypes ==
  /\ run \in {"ensure", "poll", "dial", "register", "await", "scan", "close", "exited"}
  /\ scanner \in [Streams -> {"read", "send", "push", "trigger", "eof"}]
  /\ lines \in 0..MaxLines /\ ts \in [Streams -> 0..lines]
LoopTypes ==
  /\ held \in BOOLEAN /\ reconnecting \in BOOLEAN /\ up \in BOOLEAN /\ starting \in BOOLEAN
  /\ loop \in {"none", "close", "ensure", "poll", "dial", "register", "await", "swap",
               "drain", "lock", "flush", "finish"}
  /\ breaks \in 0..MaxBreaks /\ silent \in 0..MaxSilent
QueueTypes == buffer \in Seq(Line) /\ Len(buffer) <= BufCapacity /\ flushing \in Seq(Line)
LinkTypes ==
  /\ dials \in 0..(1 + MaxLines + MaxBreaks)
  /\ current \in 0..dials /\ fresh \in 0..dials /\ sessionID \in 0..dials
  /\ state \in [Links -> {"unused", "open", "closed", "broken"}]
  /\ response \in [Links -> 0..dials]
  /\ \A k \in Links : k > dials => state[k] = "unused" /\ pipe[k] = <<>> /\ response[k] = 0
PipeTypes == pipe \in [Links -> Seq(Message)] /\ received \in Seq(Record)

ClientTypeOK == RunTypes /\ LoopTypes /\ QueueTypes /\ LinkTypes /\ PipeTypes

\* Which goroutine can be where while another is somewhere else.
GoroutinesInStep ==
  /\ \A s \in Streams : scanner[s] \in {"send", "push", "trigger"} => run = "scan" /\ ts[s] > 0
  /\ run = "close" => \A s \in Streams : scanner[s] = "eof"
  /\ run \in {"register", "await", "scan", "close"} => current > 0
  /\ loop # "none" => run \in {"scan", "close"} /\ reconnecting
  /\ loop \in {"register", "await", "swap"} => current < fresh
  /\ loop \in {"lock", "flush"} <=> flushing # <<>>

TypeInv == ClientTypeOK /\ GoroutinesInStep

\* A connection carries nothing before its registration, the registration alone, and after
\* that one session; lines are only written to a connection that was registered.
OneSession(k) ==
  \A i \in DOMAIN pipe[k] :
    IF pipe[k][i].type = "session_start" THEN Len(pipe[k]) = 1 /\ response[k] = 0
    ELSE pipe[k][i].session = response[k] /\ response[k] # 0
ReceivedInSession ==
  \A i \in DOMAIN received :
    received[i].session = response[received[i].conn] /\ response[received[i].conn] # 0

ConnectionsRegistered ==
  /\ run = "register" => pipe[current] = <<>> /\ response[current] = 0
  /\ loop = "register" => pipe[fresh] = <<>> /\ response[fresh] = 0
  /\ loop = "swap" => response[fresh] # 0
  /\ run \in {"scan", "close"} /\ state[current] = "open" =>
       response[current] # 0 /\ sessionID = response[current]
  /\ \A k \in Links : OneSession(k)
  /\ ReceivedInSession

\* Of two lines of one stream the one in q is older than the one in r.
Older(q, r) == \A i \in DOMAIN q, j \in DOMAIN r : q[i].stream = r[j].stream => q[i].ts < r[j].ts
InOrder(q) == \A i, j \in DOMAIN q : i < j /\ q[i].stream = q[j].stream => q[i].ts < q[j].ts
\* The lines that may have been read from their stream before the one its scanner has in hand.
Earlier ==
  {l \in Line : /\ l.ts <= ts[l.stream]
                /\ scanner[l.stream] \in {"send", "push"} => l.ts < ts[l.stream]}
ReadBefore(q) == \A i \in DOMAIN q : q[i] \in Earlier

BufferedInOrder ==
  /\ InOrder(flushing) /\ InOrder(buffer) /\ Older(flushing, buffer)
  /\ ReadBefore(flushing) /\ ReadBefore(buffer)

\* Where a line can be on its way: with the client (in the hand of a scanner, in the buffer or
\* drained from it), written to a connection, or received.
Held == {InHand(s) : s \in {t \in Streams : scanner[t] \in {"send", "push"}}}
Own == Held \cup ToSet(buffer) \cup ToSet(flushing)
Sent(k) == Lines(pipe[k])
OnceIn(q) == \A i, j \in DOMAIN q :
               i # j /\ "line" \in DOMAIN q[i] /\ "line" \in DOMAIN q[j] => q[i].line # q[j].line

\* A line is in one of these places, and there once.
OnePlace ==
  /\ Own \cap Lines(received) = {} /\ OnceIn(received)
  /\ \A k \in Links : /\ Own \cap Sent(k) = {} /\ Sent(k) \cap Lines(received) = {} /\ OnceIn(pipe[k])
                     /\ \A m \in Links \ {k} : Sent(k) \cap Sent(m) = {}
  /\ \A l \in Lines(received) \cup UNION {Sent(k) : k \in Links} : l.ts <= lines

-----------------------------------------------------------------------------
(* Types, and which goroutines run together.                                *)

\* No scanner has a line in hand: the state in which the process may end.
Quiet == \A s \in Streams : scanner[s] \in {"read", "eof"}

\* The steps of the client, and an end of the process that module Runner adds to them.
Step == [Next]_vars \/ (ProcessEnds /\ Quiet)

\* The bounds are naturals and the buffer has room for a line.
LEMMA ConstantTypes == /\ BufCapacity \in Nat \ {0} /\ MaxLines \in Nat /\ MaxBreaks \in Nat /\ MaxSilent \in Nat
                       /\ Links = 1..(1 + MaxLines + MaxBreaks)
  BY ClientAssumption DEF Links

LEMMA TypeInit == Init => TypeInv
<1> SUFFICES ASSUME Init PROVE TypeInv
  OBVIOUS
<1> USE ConstantTypes
<1>1. <<>> \in Seq(Line) /\ Len(<<>>) = 0 /\ <<>> \in Seq(Message) /\ <<>> \in Seq(Record)
  OBVIOUS
<1>2. RunTypes /\ LoopTypes
  <2>1. RunTypes
    BY DEF Init, RunTypes
  <2>2. LoopTypes
    <3>1. 0 \in 0..MaxBreaks /\ 0 \in 0..MaxSilent
      OBVIOUS
    <3> QED BY <3>1 DEF Init, LoopTypes
  <2> QED BY <2>1, <2>2
<1>3. QueueTypes /\ PipeTypes
  BY <1>1 DEF Init, QueueTypes, PipeTypes
<1>4. LinkTypes
  BY DEF Init, LinkTypes
<1>5. GoroutinesInStep
  BY DEF Init, GoroutinesInStep
<1> QED BY <1>2, <1>3, <1>4, <1>5 DEF TypeInv, ClientTypeOK

\* What a write does to the connections.
LEMMA EncodeTypes ==
  ASSUME PipeTypes, NEW k \in Links, NEW m \in Message, Encode(k, m) \/ EncodeFails(k)
  PROVE  /\ pipe' \in [Links -> Seq(Message)]
         /\ \A j \in Links : pipe'[j] # pipe[j] =>
              j = k /\ state[k] = "open" /\ pipe'[j] = Append(pipe[j], m)
<1>1. CASE EncodeFails(k)
  BY <1>1 DEF PipeTypes, EncodeFails
<1>2. CASE Encode(k, m)
  <2>1. Append(pipe[k], m) \in Seq(Message)
    BY AppendProperties DEF PipeTypes
  <2> QED BY <1>2, <2>1 DEF PipeTypes, Encode
<1> QED BY <1>1, <1>2

\* The line in the hand of a scanner, and a message that carries a line.
LEMMA LineTypes ==
  ASSUME TypeInv
  PROVE  /\ \A s \in Streams : scanner[s] \in {"send", "push", "trigger"} => InHand(s) \in Line
         /\ \A l \in Line : LogMessage(l) \in Message
         /\ SessionStart \in Message /\ SessionEnd \in Message
<1> USE ConstantTypes
<1>1. ASSUME NEW s \in Streams, scanner[s] \in {"send", "push", "trigger"} PROVE InHand(s) \in Line
  <2>1. ts[s] \in 0..lines /\ lines \in 0..MaxLines /\ ts[s] > 0
    BY <1>1 DEF TypeInv, ClientTypeOK, RunTypes, GoroutinesInStep
  <2>2. ts[s] \in 1..MaxLines
    BY <2>1
  <2> QED BY <2>2 DEF InHand, Line
<1>2. sessionID \in Nat
  BY DEF TypeInv, ClientTypeOK, LinkTypes
<1> QED BY <1>1, <1>2 DEF LogMessage, SessionStart, SessionEnd, Message

\* What the steps leave alone.
LEMMA RunStepFrame ==
  ASSUME RunStep \/ ProcessEnds
  PROVE  /\ UNCHANGED <<scanner, lines, ts, fresh, reconnecting, up, breaks, silent, response, received>>
         /\ UNCHANGED <<buffer, flushing, loop>> \/ ProcessEnds
<1> USE DEF runVars, connVars, loopVars, brokerVars, netVars
<1>1. CASE Ensure
  BY <1>1 DEF Ensure
<1>2. CASE Connect
  BY <1>2 DEF Connect
<1>3. CASE RegisterSession
  BY <1>3 DEF RegisterSession
<1>4. CASE ReadResponse
  BY <1>4 DEF ReadResponse
<1>5. CASE EndSession
  BY <1>5 DEF EndSession
<1>6. CASE ProcessEnds
  BY <1>6 DEF ProcessEnds
<1> QED BY <1>1, <1>2, <1>3, <1>4, <1>5, <1>6 DEF RunStep, Exit

\* What a scanner leaves alone.
LEMMA ScannerFrame ==
  ASSUME NEW s \in Streams, ScannerStep(s)
  PROVE  UNCHANGED <<run, connVars, fresh, flushing, brokerVars, dials, state, response, received>>
<1> USE DEF runVars, connVars, loopVars, brokerVars, netVars
<1>1. CASE Scan(s)
  BY <1>1 DEF Scan
<1>2. CASE EndOfOutput(s)
  BY <1>2 DEF EndOfOutput
<1>3. CASE SendLog(s)
  BY <1>3 DEF SendLog
<1>4. CASE PushLine(s)
  BY <1>4 DEF PushLine
<1>5. CASE Trigger(s)
  BY <1>5 DEF Trigger
<1> QED BY <1>1, <1>2, <1>3, <1>4, <1>5 DEF ScannerStep

\* What the reconnect loop leaves alone.
LEMMA LoopFrame ==
  ASSUME LoopStep
  PROVE  UNCHANGED <<runVars, up, breaks, silent, response, received>>
<1> USE DEF runVars, connVars, loopVars, brokerVars, netVars
<1>1. CASE CloseOld \/ EnsureAgain \/ DialAgain
  BY <1>1 DEF CloseOld, EnsureAgain, DialAgain
<1>2. CASE RegisterAgain \/ ReadResponseAgain \/ Swap
  BY <1>2 DEF RegisterAgain, ReadResponseAgain, Swap
<1>3. CASE Drain \/ FlushLine \/ Finish
  BY <1>3 DEF Drain, FlushLine, Finish
<1> QED BY <1>1, <1>2, <1>3 DEF LoopStep

\* What the broker leaves alone.
LEMMA BrokerFrame ==
  ASSUME BrokerStep
  PROVE  UNCHANGED <<runVars, connVars, buffer, loopVars, dials>>
<1>1. CASE BrokerStarts
  BY <1>1 DEF BrokerStarts, netVars
<1>2. CASE BrokerDies
  BY <1>2 DEF BrokerDies
<1>3. ASSUME NEW k \in Links, BrokerReads(k) PROVE UNCHANGED <<runVars, connVars, buffer, loopVars, dials>>
  BY <1>3 DEF BrokerReads
<1>4. ASSUME NEW k \in Links, BrokerDrops(k) PROVE UNCHANGED <<runVars, connVars, buffer, loopVars, dials>>
  BY <1>4 DEF BrokerDrops
<1> QED BY <1>1, <1>2, <1>3, <1>4 DEF BrokerStep

\* The three messages the broker can read.
LEMMA MessageRead ==
  ASSUME TypeInv, NEW k \in Links, BrokerReads(k)
  PROVE  LET m == Head(pipe[k]) IN
         /\ pipe[k] \in Seq(Message) /\ pipe[k] # <<>> /\ m \in Message
         /\ pipe' = [pipe EXCEPT ![k] = Tail(@)] /\ UNCHANGED <<up, starting, breaks, state>>
         /\ \/ /\ m.type = "session_start" /\ received' = received
               /\ \/ response' = [response EXCEPT ![k] = k] /\ silent' = silent
                  \/ response' = response /\ silent < MaxSilent /\ silent' = silent + 1
            \/ /\ m.type = "log" /\ m.line \in Line /\ m.session \in Nat
               /\ UNCHANGED <<response, silent>>
               /\ received' = Append(received, [line |-> m.line, session |-> m.session, conn |-> k])
            \/ m.type = "session_end" /\ UNCHANGED <<response, silent, received>>
<1> DEFINE m == Head(pipe[k])
<1>1. /\ pipe[k] \in Seq(Message) /\ pipe[k] # <<>> /\ pipe' = [pipe EXCEPT ![k] = Tail(@)]
      /\ UNCHANGED <<up, starting, breaks, state>>
  BY DEF BrokerReads, TypeInv, ClientTypeOK, PipeTypes
<1>2. m \in Message
  BY <1>1, HeadTailProperties
<1> HIDE DEF m
<1>3. CASE m.type = "session_start"
  BY <1>1, <1>2, <1>3 DEF BrokerReads, m
<1>4. CASE m.type = "log"
  <2>1. m.line \in Line /\ m.session \in Nat
    BY <1>2, <1>4 DEF Message
  <2>2. /\ UNCHANGED <<response, silent>>
        /\ received' = Append(received, [line |-> m.line, session |-> m.session, conn |-> k])
    BY <1>4 DEF BrokerReads, m
  <2> QED BY <1>1, <1>2, <1>4, <2>1, <2>2 DEF m
<1>5. CASE m.type = "session_end"
  <2>1. UNCHANGED <<response, silent, received>>
    BY <1>5 DEF BrokerReads, m
  <2> QED BY <1>1, <1>2, <1>5, <2>1 DEF m
<1>6. m.type \in {"log", "session_start", "session_end"}
  BY <1>2 DEF Message
<1> QED BY <1>3, <1>4, <1>5, <1>6

\* The parts of TypeInv, one by one.
LEMMA RunTypesStep == ASSUME TypeInv, Step PROVE RunTypes'
<1> RunTypes
  BY DEF TypeInv, ClientTypeOK
<1>1. CASE RunStep \/ ProcessEnds
  <2>1. run' \in {"ensure", "poll", "dial", "register", "await", "scan", "close", "exited"}
    BY <1>1 DEF RunStep, RunTypes, Ensure, EnsureBroker, Connect, RegisterSession, ReadResponse,
                EndSession, Exit, ProcessEnds
  <2>2. UNCHANGED <<scanner, lines, ts>>
    BY <1>1, RunStepFrame
  <2> QED BY <2>1, <2>2 DEF RunTypes
<1>2. ASSUME NEW s \in Streams, Scan(s) PROVE RunTypes'
  <2>1. lines' \in 0..MaxLines /\ lines \in 0..lines' /\ lines' \in 0..lines' /\ \A i \in 0..lines : i \in 0..lines'
    BY <1>2, ConstantTypes DEF RunTypes, Scan
  <2>2. ts' \in [Streams -> 0..lines']
    BY <1>2, <2>1 DEF RunTypes, Scan
  <2>3. scanner' \in [Streams -> {"read", "send", "push", "trigger", "eof"}] /\ run' = run
    BY <1>2 DEF RunTypes, Scan
  <2> QED BY <2>1, <2>2, <2>3 DEF RunTypes
<1>3. ASSUME NEW s \in Streams, EndOfOutput(s) \/ SendLog(s) \/ PushLine(s) \/ Trigger(s) PROVE RunTypes'
  <2>1. UNCHANGED <<run, lines, ts>>
    BY <1>3 DEF EndOfOutput, SendLog, PushLine, Trigger
  <2>2. \E x \in {"read", "push", "trigger", "eof"} : scanner' = [scanner EXCEPT ![s] = x]
    BY <1>3 DEF EndOfOutput, SendLog, PushLine, Trigger
  <2>3. scanner' \in [Streams -> {"read", "send", "push", "trigger", "eof"}]
    BY <2>2 DEF RunTypes
  <2> QED BY <2>1, <2>3 DEF RunTypes
<1>4. CASE LoopStep \/ BrokerStep \/ UNCHANGED vars
  <2>1. UNCHANGED runVars
    BY <1>4, LoopFrame, BrokerFrame DEF vars
  <2> QED BY <2>1 DEF RunTypes, runVars
<1> QED BY <1>1, <1>2, <1>3, <1>4 DEF Step, Next, ScannerStep

LEMMA LoopTypesStep == ASSUME TypeInv, Step PROVE LoopTypes'
<1> LoopTypes
  BY DEF TypeInv, ClientTypeOK
<1> USE ConstantTypes
<1>1. CASE RunStep \/ ProcessEnds
  <2>1. UNCHANGED <<reconnecting, up, breaks, silent>>
    BY <1>1, RunStepFrame
  <2>2. loop' \in {loop, "none"}
    BY <1>1, RunStepFrame DEF ProcessEnds
  <2>3. held' \in {held, TRUE, FALSE} /\ starting' \in {starting, TRUE}
    BY <1>1 DEF RunStep, LoopTypes, Ensure, EnsureBroker, Connect, RegisterSession, ReadResponse,
                EndSession, Exit, ProcessEnds, connVars, brokerVars
  <2> QED BY <2>1, <2>2, <2>3 DEF LoopTypes
<1>2. ASSUME NEW s \in Streams, ScannerStep(s) PROVE LoopTypes'
  <2>1. UNCHANGED <<held, up, starting, breaks, silent>>
    BY <1>2, ScannerFrame DEF connVars, brokerVars
  <2>2. loop' \in {loop, "close"} /\ reconnecting' \in {reconnecting, TRUE}
    BY <1>2 DEF ScannerStep, Scan, EndOfOutput, SendLog, PushLine, Trigger, loopVars
  <2> QED BY <2>1, <2>2 DEF LoopTypes
<1>3. CASE LoopStep
  <2>1. UNCHANGED <<up, breaks, silent>>
    BY <1>3, LoopFrame
  <2>2. /\ loop' \in {"none", "close", "ensure", "poll", "dial", "register", "await", "swap",
                      "drain", "lock", "flush", "finish"}
        /\ held' \in {held, TRUE, FALSE} /\ reconnecting' \in {reconnecting, FALSE} /\ starting' \in {starting, TRUE}
    <3> USE DEF connVars, brokerVars
    <3>1. CASE CloseOld \/ EnsureAgain \/ DialAgain
      BY <3>1 DEF CloseOld, EnsureAgain, EnsureBroker, DialAgain
    <3>2. CASE RegisterAgain \/ ReadResponseAgain \/ Swap
      BY <3>2 DEF RegisterAgain, ReadResponseAgain, Swap
    <3>3. CASE Drain \/ FlushLine \/ Finish
      BY <3>3 DEF Drain, FlushLine, Finish
    <3> QED BY <1>3, <3>1, <3>2, <3>3 DEF LoopStep
  <2> QED BY <2>1, <2>2 DEF LoopTypes
<1>4. CASE BrokerStep
  <2>1. UNCHANGED <<held, reconnecting, loop>>
    BY <1>4, BrokerFrame DEF connVars, loopVars
  <2>2. up' \in {up, TRUE, FALSE} /\ starting' \in {starting, FALSE}
    BY <1>4 DEF BrokerStep, BrokerStarts, BrokerReads, BrokerDrops, BrokerDies
  <2>3. breaks' \in 0..MaxBreaks /\ silent' \in 0..MaxSilent
    <3>1. CASE BrokerStarts \/ BrokerDies
      BY <3>1 DEF BrokerStarts, BrokerDies, LoopTypes
    <3>2. ASSUME NEW k \in Links, BrokerReads(k) PROVE breaks' = breaks /\ silent' \in {silent, silent + 1} /\ silent' <= MaxSilent
      <4>1. breaks' = breaks /\ (silent' = silent \/ (silent' = silent + 1 /\ silent < MaxSilent))
        BY <3>2, MessageRead
      <4> QED BY <4>1 DEF LoopTypes
    <3>3. ASSUME NEW k \in Links, BrokerDrops(k) PROVE breaks' \in 0..MaxBreaks /\ silent' = silent
      BY <3>3 DEF BrokerDrops, LoopTypes
    <3> QED BY <1>4, <3>1, <3>2, <3>3 DEF BrokerStep, LoopTypes
  <2> QED BY <2>1, <2>2, <2>3 DEF LoopTypes
<1>5. CASE UNCHANGED vars
  BY <1>5 DEF vars, runVars, connVars, loopVars, brokerVars, LoopTypes
<1> QED BY <1>1, <1>2, <1>3, <1>4, <1>5 DEF Step, Next

\* The ring buffer keeps lines, and within its capacity.
LEMMA NewestTypes ==
  ASSUME NEW q \in Seq(Line), NEW l \in Line, Len(q) <= BufCapacity
  PROVE  Newest(Append(q, l)) \in Seq(Line) /\ Len(Newest(Append(q, l))) <= BufCapacity
<1>1. Append(q, l) \in Seq(Line) /\ Len(Append(q, l)) = Len(q) + 1 /\ Append(q, l) # <<>>
  BY AppendProperties
<1>2. Tail(Append(q, l)) \in Seq(Line) /\ Len(Tail(Append(q, l))) = Len(q)
  BY <1>1, HeadTailProperties
<1> QED BY <1>1, <1>2, ConstantTypes DEF Newest

LEMMA EmptyQueue == <<>> \in Seq(Line) /\ Len(<<>>) = 0 /\ DOMAIN <<>> = {}
  OBVIOUS

LEMMA QueueTypesStep == ASSUME TypeInv, Step PROVE QueueTypes'
<1> QueueTypes
  BY DEF TypeInv, ClientTypeOK
<1>1. CASE RunStep \/ ProcessEnds
  <2>1. UNCHANGED <<buffer, flushing>> \/ (buffer' = <<>> /\ flushing' = <<>>)
    BY <1>1, RunStepFrame DEF ProcessEnds
  <2>2. 0 <= BufCapacity
    BY ConstantTypes
  <2> QED BY <2>1, <2>2, EmptyQueue DEF QueueTypes
<1>2. ASSUME NEW s \in Streams, ScannerStep(s) PROVE QueueTypes'
  <2>1. UNCHANGED flushing
    BY <1>2, ScannerFrame
  <2>2. CASE PushLine(s)
    <3>1. InHand(s) \in Line
      BY <2>2, LineTypes DEF PushLine
    <3>2. buffer' = Newest(Append(buffer, InHand(s)))
      BY <2>2 DEF PushLine
    <3> QED BY <2>1, <3>1, <3>2, NewestTypes DEF QueueTypes
  <2>3. CASE ~PushLine(s)
    BY <1>2, <2>1, <2>3 DEF ScannerStep, Scan, EndOfOutput, SendLog, Trigger, QueueTypes
  <2> QED BY <2>2, <2>3
<1>3. CASE LoopStep
  <2>1. CASE Drain
    <3>1. flushing' = buffer /\ buffer' = <<>>
      BY <2>1 DEF Drain
    <3>2. 0 <= BufCapacity
      BY ConstantTypes
    <3> QED BY <3>1, <3>2, EmptyQueue DEF QueueTypes
  <2>2. CASE FlushLine
    <3>1. flushing # <<>>
      BY <2>2 DEF FlushLine, TypeInv, GoroutinesInStep
    <3>2. Tail(flushing) \in Seq(Line)
      BY <3>1, HeadTailProperties DEF QueueTypes
    <3>3. buffer' = buffer /\ flushing' \in {<<>>, Tail(flushing)}
      BY <2>2 DEF FlushLine
    <3> QED BY <3>2, <3>3, EmptyQueue DEF QueueTypes
  <2>3. CASE ~Drain /\ ~FlushLine
    <3>1. UNCHANGED <<buffer, flushing>>
      BY <1>3, <2>3 DEF LoopStep, CloseOld, EnsureAgain, DialAgain, RegisterAgain, ReadResponseAgain,
                        Swap, Finish
    <3> QED BY <3>1 DEF QueueTypes
  <2> QED BY <2>1, <2>2, <2>3
<1>4. CASE BrokerStep \/ UNCHANGED vars
  <2>1. UNCHANGED <<buffer, flushing>>
    BY <1>4, BrokerFrame DEF vars, loopVars
  <2> QED BY <2>1 DEF QueueTypes
<1> QED BY <1>1, <1>2, <1>3, <1>4 DEF Step, Next

LEMMA PipeTypesStep == ASSUME TypeInv, Step PROVE PipeTypes'
<1> PipeTypes
  BY DEF TypeInv, ClientTypeOK
<1>1. ASSUME NEW k \in Links, NEW m \in Message, Encode(k, m) \/ EncodeFails(k), received' = received
      PROVE  PipeTypes'
  BY <1>1, EncodeTypes DEF PipeTypes
<1>2. ASSUME UNCHANGED <<pipe, received>> PROVE PipeTypes'
  BY <1>2 DEF PipeTypes
<1>3. run \in {"register", "await", "scan", "close"} => current \in Links
  BY ConstantTypes DEF TypeInv, ClientTypeOK, LinkTypes, GoroutinesInStep
<1>4. CASE RunStep \/ ProcessEnds
  <2>1. received' = received
    BY <1>4, RunStepFrame
  <2>2. CASE RegisterSession \/ EndSession
    BY <1>1, <1>3, <2>1, <2>2, LineTypes DEF RegisterSession, EndSession
  <2>3. CASE Ensure \/ Connect \/ ReadResponse \/ ProcessEnds
    BY <1>2, <2>3 DEF Ensure, Connect, ReadResponse, ProcessEnds, netVars
  <2> QED BY <1>4, <2>2, <2>3 DEF RunStep, Exit
<1>5. ASSUME NEW s \in Streams, ScannerStep(s) PROVE PipeTypes'
  <2>1. CASE SendLog(s)
    <3>1. scanner[s] = "send" /\ received' = received
      BY <2>1 DEF SendLog
    <3>2. LogMessage(InHand(s)) \in Message /\ current \in Links
      BY <1>3, <3>1, LineTypes DEF TypeInv, GoroutinesInStep
    <3> QED BY <1>1, <2>1, <3>1, <3>2 DEF SendLog
  <2>2. CASE ~SendLog(s)
    BY <1>2, <1>5, <2>2 DEF ScannerStep, Scan, EndOfOutput, PushLine, Trigger, netVars
  <2> QED BY <2>1, <2>2
<1>6. CASE LoopStep
  <2>1. CASE RegisterAgain
    <3>1. fresh \in Links
      BY <2>1, ConstantTypes DEF RegisterAgain, TypeInv, ClientTypeOK, LinkTypes, GoroutinesInStep
    <3> QED BY <1>1, <2>1, <3>1, LineTypes DEF RegisterAgain
  <2>2. CASE FlushLine
    <3>1. current \in Links /\ flushing # <<>> /\ flushing \in Seq(Line) /\ received' = received
      BY <1>3, <2>2 DEF FlushLine, TypeInv, ClientTypeOK, QueueTypes, GoroutinesInStep
    <3>2. LogMessage(Head(flushing)) \in Message
      BY <3>1, HeadTailProperties, LineTypes
    <3> QED BY <1>1, <2>2, <3>1, <3>2 DEF FlushLine
  <2>3. CASE ~RegisterAgain /\ ~FlushLine
    <3>1. UNCHANGED <<pipe, received>>
      BY <1>6, <2>3 DEF LoopStep, CloseOld, EnsureAgain, DialAgain, ReadResponseAgain, Swap, Drain, Finish, netVars
    <3> QED BY <1>2, <3>1
  <2> QED BY <2>1, <2>2, <2>3
<1>7. ASSUME NEW k \in Links, BrokerReads(k) PROVE PipeTypes'
  <2> DEFINE m == Head(pipe[k])
  <2>1. Tail(pipe[k]) \in Seq(Message) /\ pipe' = [pipe EXCEPT ![k] = Tail(@)]
    BY <1>7, MessageRead, HeadTailProperties
  <2>2. pipe' \in [Links -> Seq(Message)]
    BY <2>1 DEF PipeTypes
  <2>3. CASE received' = received
    BY <2>2, <2>3 DEF PipeTypes
  <2>4. CASE received' # received
    <3>1. /\ m.line \in Line /\ m.session \in Nat
          /\ received' = Append(received, [line |-> m.line, session |-> m.session, conn |-> k])
      BY <1>7, <2>4, MessageRead
    <3>2. [line |-> m.line, session |-> m.session, conn |-> k] \in Record
      BY <3>1 DEF Record
    <3> HIDE DEF m
    <3>3. received' \in Seq(Record)
      BY <3>1, <3>2, AppendProperties DEF PipeTypes
    <3> QED BY <2>2, <3>3 DEF PipeTypes
  <2> QED BY <2>3, <2>4
<1>8. ASSUME NEW k \in Links, BrokerDrops(k) PROVE PipeTypes'
  BY <1>8 DEF BrokerDrops, PipeTypes
<1>9. CASE BrokerStarts \/ UNCHANGED vars
  BY <1>2, <1>9 DEF BrokerStarts, vars, netVars
<1>10. CASE BrokerDies
  <2>1. <<>> \in Seq(Message)
    OBVIOUS
  <2> QED BY <1>10, <2>1 DEF BrokerDies, PipeTypes
<1> QED BY <1>4, <1>5, <1>6, <1>7, <1>8, <1>9, <1>10 DEF Step, Next, BrokerStep

LEMMA LinkTypesStep == ASSUME TypeInv, Step PROVE LinkTypes'
<1> LinkTypes
  BY DEF TypeInv, ClientTypeOK
<1> USE ConstantTypes
<1>1. ASSUME UNCHANGED <<dials, response>>, current' \in 0..dials, fresh' \in 0..dials, sessionID' \in 0..dials,
             state' \in [Links -> {"unused", "open", "closed", "broken"}],
             \A k \in Links : k > dials => state'[k] = state[k] /\ pipe'[k] = pipe[k]
      PROVE  LinkTypes'
  BY <1>1 DEF LinkTypes
<1>2. ASSUME UNCHANGED <<dials, response, state, pipe>>, current' \in 0..dials, fresh' \in 0..dials, sessionID' \in 0..dials
      PROVE  LinkTypes'
  BY <1>2 DEF LinkTypes
\* A message is written.
<1>3. ASSUME UNCHANGED <<dials, response, current, fresh, sessionID>>,
             state' \in [Links -> {"unused", "open", "closed", "broken"}],
             \A k \in Links : k > dials => state'[k] = state[k],
             NEW k \in Links, NEW m, Encode(k, m) \/ EncodeFails(k)
      PROVE  LinkTypes'
  <2>1. \A j \in Links : pipe'[j] # pipe[j] => j = k /\ state[k] = "open"
    <3>1. CASE Encode(k, m)
      <4>1. pipe \in [Links -> Seq(Message)]
        BY DEF TypeInv, ClientTypeOK, PipeTypes
      <4> QED BY <3>1, <4>1 DEF Encode
    <3> QED BY <1>3, <3>1 DEF EncodeFails
  <2>2. \A j \in Links : j > dials => pipe'[j] = pipe[j]
    BY <2>1 DEF LinkTypes
  <2> QED BY <1>1, <1>3, <2>2 DEF LinkTypes
<1>4. run \in {"register", "await", "scan", "close"} => current \in Links
  BY DEF TypeInv, GoroutinesInStep, LinkTypes
<1>5. loop \in {"register", "await", "swap"} => fresh \in Links
  BY DEF TypeInv, GoroutinesInStep, LinkTypes
<1>6. loop # "none" => current \in Links
  BY <1>4 DEF TypeInv, GoroutinesInStep
\* A connection is dialled.
<1>7. ASSUME Dial, UNCHANGED <<response, pipe, sessionID>>, current' \in {current, dials + 1}, fresh' \in {fresh, dials + 1}
      PROVE  LinkTypes'
  <2>1. /\ dials + 1 \in Links /\ dials' = dials + 1 /\ dials \in Nat
        /\ state' = [state EXCEPT ![dials + 1] = "open"]
    BY <1>7 DEF Dial, LinkTypes
  <2>2. dials' \in 0..(1 + MaxLines + MaxBreaks) /\ 0..dials \subseteq 0..dials'
    BY <2>1
  <2>3. current' \in 0..dials' /\ fresh' \in 0..dials' /\ sessionID' \in 0..dials'
    BY <1>7, <2>1 DEF LinkTypes
  <2>4. state' \in [Links -> {"unused", "open", "closed", "broken"}] /\ response' \in [Links -> 0..dials']
    BY <1>7, <2>1, <2>2 DEF LinkTypes
  <2>5. ASSUME NEW k \in Links, k > dials'
        PROVE  state'[k] = "unused" /\ pipe'[k] = <<>> /\ response'[k] = 0
    <3>1. k > dials /\ k # dials + 1
      BY <2>1, <2>5
    <3> QED BY <1>7, <2>1, <3>1 DEF LinkTypes
  <2> QED BY <2>2, <2>3, <2>4, <2>5 DEF LinkTypes
\* The client closes a connection.
<1>8. ASSUME NEW k \in Links, k <= dials, CloseConn(k)
      PROVE  /\ state' \in [Links -> {"unused", "open", "closed", "broken"}]
             /\ \A j \in Links : j > dials => state'[j] = state[j]
  BY <1>8 DEF CloseConn, LinkTypes
<1>9. current <= dials /\ fresh <= dials
  BY DEF LinkTypes
<1>10. CASE RunStep \/ ProcessEnds
  <2>1. CASE Ensure
    BY <1>2, <2>1 DEF Ensure, connVars, loopVars, netVars, LinkTypes
  <2>2. CASE Connect
    <3>1. CASE Dial /\ current' = dials + 1
      BY <1>7, <2>2, <3>1 DEF Connect, loopVars
    <3>2. CASE UNCHANGED <<current, held, dials, state>>
      BY <1>2, <2>2, <3>2 DEF Connect, loopVars, LinkTypes
    <3> QED BY <2>2, <3>1, <3>2 DEF Connect
  <2>3. CASE RegisterSession \/ EndSession
    <3>1. current \in Links /\ UNCHANGED <<dials, response, current, fresh, sessionID, state>>
      BY <1>4, <2>3 DEF RegisterSession, EndSession, connVars, loopVars
    <3>2. \E m \in {SessionStart, SessionEnd} : Encode(current, m) \/ EncodeFails(current)
      BY <2>3 DEF RegisterSession, EndSession
    <3> QED BY <1>3, <3>1, <3>2 DEF LinkTypes
  <2>4. CASE ReadResponse
    <3>1. sessionID' \in 0..dials
      BY <1>4, <2>4 DEF ReadResponse, LinkTypes
    <3> QED BY <1>2, <2>4, <3>1 DEF ReadResponse, loopVars, netVars, LinkTypes
  <2>5. CASE ProcessEnds
    <3>1. state' \in [Links -> {"unused", "open", "closed", "broken"}]
      BY <2>5 DEF ProcessEnds, LinkTypes
    <3>2. \A k \in Links : k > dials => state'[k] = state[k]
      BY <2>5 DEF ProcessEnds, LinkTypes
    <3> QED BY <1>1, <2>5, <3>1, <3>2 DEF ProcessEnds, LinkTypes
  <2> QED BY <1>10, <2>1, <2>2, <2>3, <2>4, <2>5 DEF RunStep, Exit
<1>11. ASSUME NEW s \in Streams, ScannerStep(s) PROVE LinkTypes'
  <2>1. UNCHANGED <<dials, response, current, fresh, sessionID, state>>
    BY <1>11, ScannerFrame DEF connVars
  <2>2. CASE SendLog(s)
    <3>1. current \in Links
      BY <1>4, <2>2 DEF SendLog, TypeInv, GoroutinesInStep
    <3> QED BY <1>3, <2>1, <2>2, <3>1 DEF SendLog, LinkTypes
  <2>3. CASE ~SendLog(s)
    <3>1. pipe' = pipe
      BY <1>11, <2>3 DEF ScannerStep, Scan, EndOfOutput, PushLine, Trigger, netVars
    <3> QED BY <1>2, <2>1, <3>1 DEF LinkTypes
  <2> QED BY <2>2, <2>3
<1>12. CASE LoopStep
  <2>1. CASE CloseOld
    <3>1. UNCHANGED <<dials, response, pipe, current, fresh, sessionID>>
      BY <2>1 DEF CloseOld
    <3>2. current \in Links
      BY <1>6, <2>1 DEF CloseOld
    <3>3. /\ state' \in [Links -> {"unused", "open", "closed", "broken"}]
          /\ \A j \in Links : j > dials => state'[j] = state[j]
      BY <1>8, <1>9, <2>1, <3>2 DEF CloseOld, LinkTypes
    <3> QED BY <1>1, <3>1, <3>3 DEF LinkTypes
  <2>2. CASE EnsureAgain \/ Drain \/ Finish
    BY <1>2, <2>2 DEF EnsureAgain, Drain, Finish, connVars, netVars, LinkTypes
  <2>3. CASE DialAgain
    <3>1. CASE Dial /\ fresh' = dials + 1
      BY <1>7, <2>3, <3>1 DEF DialAgain, connVars
    <3>2. CASE UNCHANGED <<fresh, dials, state>>
      BY <1>2, <2>3, <3>2 DEF DialAgain, connVars, LinkTypes
    <3> QED BY <2>3, <3>1, <3>2 DEF DialAgain
  <2>4. CASE RegisterAgain
    <3>1. UNCHANGED <<dials, response, current, fresh, sessionID>> /\ fresh \in Links
      BY <1>5, <2>4 DEF RegisterAgain, connVars
    <3>2. /\ state' \in [Links -> {"unused", "open", "closed", "broken"}]
          /\ \A j \in Links : j > dials => state'[j] = state[j]
      BY <1>8, <1>9, <2>4, <3>1 DEF RegisterAgain, LinkTypes
    <3>3. Encode(fresh, SessionStart) \/ EncodeFails(fresh)
      BY <2>4 DEF RegisterAgain
    <3> QED BY <1>3, <3>1, <3>2, <3>3
  <2>5. CASE ReadResponseAgain
    <3>1. UNCHANGED <<dials, response, pipe, current, fresh, sessionID>> /\ fresh \in Links
      BY <1>5, <2>5 DEF ReadResponseAgain, connVars
    <3>2. /\ state' \in [Links -> {"unused", "open", "closed", "broken"}]
          /\ \A j \in Links : j > dials => state'[j] = state[j]
      BY <1>8, <1>9, <2>5, <3>1 DEF ReadResponseAgain, LinkTypes
    <3> QED BY <1>1, <3>1, <3>2 DEF LinkTypes
  <2>6. CASE Swap
    <3>1. current' \in 0..dials /\ sessionID' \in 0..dials
      BY <1>5, <2>6 DEF Swap, LinkTypes
    <3> QED BY <1>2, <2>6, <3>1 DEF Swap, netVars, LinkTypes
  <2>7. CASE FlushLine
    <3>1. current \in Links /\ UNCHANGED <<dials, response, current, fresh, sessionID, state>>
      BY <1>6, <2>7 DEF FlushLine, connVars
    <3>2. \E m \in {LogMessage(Head(flushing))} : Encode(current, m) \/ EncodeFails(current)
      BY <2>7 DEF FlushLine
    <3> QED BY <1>3, <3>1, <3>2 DEF LinkTypes
  <2> QED BY <1>12, <2>1, <2>2, <2>3, <2>4, <2>5, <2>6, <2>7 DEF LoopStep
<1>13. CASE BrokerStep
  <2>1. UNCHANGED <<current, fresh, sessionID, dials>>
    BY <1>13, BrokerFrame DEF connVars, loopVars
  <2>2. CASE BrokerStarts
    BY <1>2, <2>1, <2>2 DEF BrokerStarts, netVars, LinkTypes
  <2>3. CASE BrokerDies
    <3>1. state' \in [Links -> {"unused", "open", "closed", "broken"}] /\ response' = response
      BY <2>3 DEF BrokerDies, LinkTypes
    <3>2. \A k \in Links : k > dials => state'[k] = state[k] /\ pipe'[k] = pipe[k]
      BY <2>3 DEF BrokerDies, LinkTypes
    <3> QED BY <1>1, <2>1, <3>1, <3>2 DEF LinkTypes
  <2>4. ASSUME NEW k \in Links, BrokerReads(k) PROVE LinkTypes'
    <3>1. /\ pipe' = [pipe EXCEPT ![k] = Tail(@)] /\ state' = state /\ pipe[k] # <<>>
          /\ response' \in {response, [response EXCEPT ![k] = k]}
      BY <2>4, MessageRead
    <3>2. k <= dials
      BY <3>1 DEF LinkTypes
    <3>3. response' \in [Links -> 0..dials] /\ \A j \in Links : j > dials => response'[j] = response[j]
      BY <3>1, <3>2 DEF LinkTypes
    <3>4. \A j \in Links : j > dials => pipe'[j] = pipe[j]
      BY <3>1, <3>2 DEF LinkTypes, TypeInv, ClientTypeOK, PipeTypes
    <3> QED BY <2>1, <3>1, <3>3, <3>4 DEF LinkTypes
  <2>5. ASSUME NEW k \in Links, BrokerDrops(k) PROVE LinkTypes'
    <3>1. k <= dials
      BY <2>5 DEF BrokerDrops, LinkTypes
    <3>2. state' \in [Links -> {"unused", "open", "closed", "broken"}] /\ response' = response
      BY <2>5 DEF BrokerDrops, LinkTypes
    <3>3. \A j \in Links : j > dials => state'[j] = state[j] /\ pipe'[j] = pipe[j]
      BY <2>5, <3>1 DEF BrokerDrops, LinkTypes
    <3> QED BY <1>1, <2>1, <3>2, <3>3 DEF LinkTypes
  <2> QED BY <1>13, <2>2, <2>3, <2>4, <2>5 DEF BrokerStep
<1>14. CASE UNCHANGED vars
  BY <1>2, <1>14 DEF vars, connVars, loopVars, netVars, LinkTypes
<1> QED BY <1>10, <1>11, <1>12, <1>13, <1>14 DEF Step, Next

LEMMA GoroutinesStep == ASSUME TypeInv, Step PROVE GoroutinesInStep'
<1> GoroutinesInStep /\ RunTypes /\ LinkTypes /\ LoopTypes
  BY DEF TypeInv, ClientTypeOK
<1>1. CASE RunStep
  <2>1. UNCHANGED <<scanner, ts, fresh, reconnecting>>
    BY <1>1, RunStepFrame
  <2>2. CASE Exit
    BY <2>1, <2>2 DEF Exit, ProcessEnds, GoroutinesInStep
  <2>3. CASE ~Exit
    <3>1. UNCHANGED <<buffer, flushing, loop>>
      BY <1>1, <2>3 DEF RunStep, Ensure, Connect, RegisterSession, ReadResponse, EndSession, loopVars
    <3>2. CASE Ensure
      <4>1. run \in {"ensure", "poll"} /\ run' \in {"dial", "poll", "exited"} /\ current' = current
        BY <3>2 DEF Ensure, EnsureBroker, connVars
      <4> QED BY <2>1, <3>1, <4>1 DEF GoroutinesInStep
    <3>3. CASE Connect
      <4>1. run = "dial" /\ (run' = "exited" \/ (run' = "register" /\ current' = dials + 1))
        BY <3>3 DEF Connect
      <4>2. dials + 1 > 0
        BY DEF LinkTypes
      <4> QED BY <2>1, <3>1, <4>1, <4>2 DEF GoroutinesInStep
    <3>4. CASE RegisterSession \/ ReadResponse
      <4>1. run \in {"register", "await"} /\ run' \in {"await", "scan"} /\ current' = current
        BY <3>4 DEF RegisterSession, ReadResponse, connVars
      <4> QED BY <2>1, <3>1, <4>1 DEF GoroutinesInStep
    <3>5. CASE EndSession
      <4>1. run = "scan" /\ run' = "close" /\ current' = current /\ \A s \in Streams : scanner[s] = "eof"
        BY <3>5 DEF EndSession, connVars
      <4> QED BY <2>1, <3>1, <4>1 DEF GoroutinesInStep
    <3> QED BY <1>1, <2>3, <3>2, <3>3, <3>4, <3>5 DEF RunStep
  <2> QED BY <2>2, <2>3
<1>2. CASE ProcessEnds /\ Quiet
  <2>1. run' = "exited" /\ loop' = "none" /\ flushing' = <<>> /\ scanner' = scanner
    BY <1>2 DEF ProcessEnds
  <2> QED BY <1>2, <2>1 DEF Quiet, GoroutinesInStep
<1>3. ASSUME NEW s \in Streams, ScannerStep(s) PROVE GoroutinesInStep'
  <2>1. UNCHANGED <<run, current, fresh, flushing>>
    BY <1>3, ScannerFrame DEF connVars
  <2>2. run = "scan" /\ current > 0
    BY <1>3 DEF ScannerStep, Scan, EndOfOutput, SendLog, PushLine, Trigger, GoroutinesInStep
  <2>3. \/ loop' = loop /\ reconnecting' = reconnecting
        \/ reconnecting' = TRUE /\ (loop' = loop \/ (loop' = "close" /\ loop = "none"))
    <3>1. CASE Trigger(s)
      BY <3>1 DEF Trigger, GoroutinesInStep, LoopTypes
    <3> QED BY <1>3, <3>1 DEF ScannerStep, Scan, EndOfOutput, SendLog, PushLine, loopVars
  <2>4. \A t \in Streams : scanner'[t] \in {"send", "push", "trigger"} => ts'[t] > 0
    <3>1. CASE Scan(s)
      <4>1. lines + 1 > 0
        BY DEF RunTypes
      <4> QED BY <3>1, <4>1 DEF Scan, GoroutinesInStep, RunTypes
    <3>2. CASE ~Scan(s)
      <4>1. ts' = ts /\ \A t \in Streams : scanner'[t] = scanner[t] \/ (t = s /\ scanner'[t] \in {"read", "eof"})
                                          \/ (t = s /\ scanner[t] \in {"send", "push"})
        BY <1>3, <3>2 DEF ScannerStep, EndOfOutput, SendLog, PushLine, Trigger, RunTypes
      <4> QED BY <4>1 DEF GoroutinesInStep
    <3> QED BY <3>1, <3>2
  <2>5. (loop' \in {"lock", "flush"} <=> flushing' # <<>>) /\ (loop' \in {"register", "await", "swap"} => current' < fresh')
    BY <2>1, <2>3 DEF GoroutinesInStep
  <2> QED BY <2>1, <2>2, <2>3, <2>4, <2>5 DEF GoroutinesInStep
<1>4. CASE LoopStep
  <2>1. UNCHANGED <<run, scanner, ts>>
    BY <1>4, LoopFrame DEF runVars
  <2>2. loop # "none" /\ run \in {"scan", "close"} /\ reconnecting /\ current > 0
    BY <1>4 DEF LoopStep, CloseOld, EnsureAgain, EnsureBroker, DialAgain, RegisterAgain, ReadResponseAgain,
                Swap, Drain, FlushLine, Finish, GoroutinesInStep
  <2>3. /\ \A s \in Streams : scanner'[s] \in {"send", "push", "trigger"} => run' = "scan" /\ ts'[s] > 0
        /\ run' = "close" => \A s \in Streams : scanner'[s] = "eof"
    BY <2>1 DEF GoroutinesInStep
  <2>4. CASE CloseOld \/ EnsureAgain \/ Finish
    <3>1. loop' \in {"ensure", "poll", "dial", "close", "none"} /\ loop \notin {"lock", "flush"} /\ UNCHANGED <<current, fresh, flushing>>
      BY <2>4 DEF CloseOld, EnsureAgain, EnsureBroker, Finish, connVars
    <3>2. loop' # "none" => reconnecting'
      BY <2>2, <2>4 DEF CloseOld, EnsureAgain, Finish
    <3> QED BY <2>1, <2>2, <2>3, <3>1, <3>2 DEF GoroutinesInStep
  <2>5. CASE DialAgain
    <3>1. /\ loop = "dial" /\ UNCHANGED <<current, flushing, reconnecting>>
          /\ loop' = "close" \/ (loop' = "register" /\ fresh' = dials + 1)
      BY <2>5 DEF DialAgain, connVars
    <3>2. current < dials + 1
      BY DEF LinkTypes
    <3> QED BY <2>1, <2>2, <2>3, <3>1, <3>2 DEF GoroutinesInStep
  <2>6. CASE RegisterAgain \/ ReadResponseAgain
    <3>1. loop \in {"register", "await"} /\ loop' \in {"await", "swap", "close"} /\ UNCHANGED <<current, fresh, flushing, reconnecting>>
      BY <2>6 DEF RegisterAgain, ReadResponseAgain, connVars
    <3> QED BY <2>1, <2>2, <2>3, <3>1 DEF GoroutinesInStep
  <2>7. CASE Swap
    <3>1. loop = "swap" /\ loop' = "drain" /\ current' = fresh /\ UNCHANGED <<flushing, reconnecting>>
      BY <2>7 DEF Swap
    <3>2. fresh > 0
      BY <2>2, <3>1 DEF GoroutinesInStep, LinkTypes
    <3> QED BY <2>1, <2>2, <2>3, <3>1, <3>2 DEF GoroutinesInStep
  <2>8. CASE Drain
    BY <2>1, <2>2, <2>3, <2>8 DEF Drain, connVars, GoroutinesInStep
  <2>9. CASE FlushLine
    BY <2>1, <2>2, <2>3, <2>9 DEF FlushLine, connVars, GoroutinesInStep
  <2> QED BY <1>4, <2>4, <2>5, <2>6, <2>7, <2>8, <2>9 DEF LoopStep
<1>5. CASE BrokerStep \/ UNCHANGED vars
  <2>1. UNCHANGED <<runVars, connVars, loopVars>>
    BY <1>5, BrokerFrame DEF vars
  <2> QED BY <2>1 DEF runVars, connVars, loopVars, GoroutinesInStep
<1> QED BY <1>1, <1>2, <1>3, <1>4, <1>5 DEF Step, Next

LEMMA TypeStep == ASSUME TypeInv, Step PROVE TypeInv'
  BY RunTypesStep, LoopTypesStep, QueueTypesStep, PipeTypesStep, LinkTypesStep, GoroutinesStep
     DEF TypeInv, ClientTypeOK

\* What the theorems on the client rest on.
LEMMA TypeInvariant == Spec => []TypeInv
<1>1. TypeInv /\ [Next]_vars => TypeInv'
  BY TypeStep DEF Step
<1> QED BY <1>1, TypeInit, PTL DEF Spec

LEMMA TypeInvImplies == TypeInv => TypeOK
<1> SUFFICES ASSUME TypeInv PROVE TypeOK
  OBVIOUS
<1> USE ConstantTypes
<1>1. Cardinality(Links) = 1 + MaxLines + MaxBreaks
  <2>1. 1 + MaxLines + MaxBreaks \in Nat
    OBVIOUS
  <2> QED BY <2>1, FS_Interval
<1> QED BY <1>1 DEF TypeInv, ClientTypeOK, RunTypes, LoopTypes, QueueTypes, LinkTypes, TypeOK

\* Every variable of the client keeps its type, the ring buffer its capacity, and no
\* connection is used before it is dialled.
THEOREM TypeCorrect == Spec => []TypeOK
  BY TypeInvariant, TypeInvImplies, PTL

-----------------------------------------------------------------------------
(* Sessions: what a connection carries belongs to the session registered on *)
(* it.                                                                       *)

LEMMA RegisteredInit == Init => ConnectionsRegistered
<1> SUFFICES ASSUME Init PROVE ConnectionsRegistered
  OBVIOUS
<1>1. \A k \in Links : DOMAIN pipe[k] = {}
  BY EmptyQueue DEF Init
<1>2. DOMAIN received = {}
  BY EmptyQueue DEF Init
<1> QED BY <1>1, <1>2 DEF Init, ConnectionsRegistered, OneSession, ReceivedInSession

\* Which connection a goroutine writes to exists.
LEMMA Dialled ==
  ASSUME TypeInv
  PROVE  /\ run \in {"register", "await", "scan", "close"} => current \in Links
         /\ loop \in {"register", "await", "swap"} => fresh \in Links /\ fresh # current
         /\ loop # "none" => current \in Links /\ run \in {"scan", "close"}
         /\ \A s \in Streams : scanner[s] \in {"send", "push", "trigger"} => current \in Links /\ run = "scan"
         /\ \A k \in Links : k \in Nat \ {0}
<1> USE ConstantTypes
<1>1. run \in {"register", "await", "scan", "close"} => current \in Links
  BY DEF TypeInv, ClientTypeOK, LinkTypes, GoroutinesInStep
<1>2. loop \in {"register", "await", "swap"} => fresh \in Links /\ fresh # current
  BY DEF TypeInv, ClientTypeOK, LinkTypes, GoroutinesInStep
<1>3. loop # "none" => run \in {"scan", "close"}
  BY DEF TypeInv, GoroutinesInStep
<1>4. \A s \in Streams : scanner[s] \in {"send", "push", "trigger"} => run = "scan"
  BY DEF TypeInv, GoroutinesInStep
<1> QED BY <1>1, <1>2, <1>3, <1>4

\* Writing the registration, or a message of the registered session.
LEMMA EncodeInSession ==
  ASSUME TypeInv, ConnectionsRegistered, UNCHANGED <<response, received>>,
         NEW k \in Links, NEW m \in Message, Encode(k, m) \/ EncodeFails(k),
         state[k] = "open" =>
           IF m.type = "session_start" THEN pipe[k] = <<>> /\ response[k] = 0
           ELSE m.session = response[k] /\ response[k] # 0
  PROVE  /\ ReceivedInSession' /\ \A j \in Links : OneSession(j)'
         /\ \A j \in Links \ {k} : pipe'[j] = pipe[j]
<1>1. ReceivedInSession'
  BY DEF ConnectionsRegistered, ReceivedInSession
<1>2. pipe \in [Links -> Seq(Message)] /\ PipeTypes
  BY DEF TypeInv, ClientTypeOK, PipeTypes
<1>3. \A j \in Links \ {k} : pipe'[j] = pipe[j]
  BY <1>2, EncodeTypes
<1>4. \A j \in Links \ {k} : OneSession(j)'
  BY <1>3 DEF ConnectionsRegistered, OneSession
<1>5. CASE pipe'[k] = pipe[k]
  <2>1. OneSession(k)'
    BY <1>5 DEF ConnectionsRegistered, OneSession
  <2> QED BY <1>1, <1>3, <1>4, <2>1
<1>6. CASE pipe'[k] # pipe[k]
  <2> DEFINE q == pipe[k]
             r == Append(q, m)
  <2>1. state[k] = "open" /\ pipe'[k] = r
    BY <1>2, <1>6, EncodeTypes
  <2>2. q \in Seq(Message) /\ r \in Seq(Message) /\ Len(r) = Len(q) + 1 /\ r[Len(q) + 1] = m
        /\ \A i \in 1..Len(q) : r[i] = q[i]
    BY <1>2, AppendProperties
  <2>3. DOMAIN q = 1..Len(q) /\ DOMAIN r = 1..(Len(q) + 1) /\ Len(q) \in Nat
    BY <2>2, LenProperties
  <2>4. \A i \in DOMAIN q : IF q[i].type = "session_start" THEN Len(q) = 1 /\ response[k] = 0
                                 ELSE q[i].session = response[k] /\ response[k] # 0
    BY DEF ConnectionsRegistered, OneSession
  <2>5. m.type = "session_start" => Len(q) = 0 /\ response[k] = 0
    BY <2>1, EmptyQueue
  <2>6. m.type # "session_start" => m.session = response[k] /\ response[k] # 0
    BY <2>1
  <2> HIDE DEF q, r
  <2>7. \A i \in DOMAIN r : IF r[i].type = "session_start" THEN Len(r) = 1 /\ response[k] = 0
                                 ELSE r[i].session = response[k] /\ response[k] # 0
    <3> SUFFICES ASSUME NEW i \in DOMAIN r
                 PROVE  IF r[i].type = "session_start" THEN Len(r) = 1 /\ response[k] = 0
                        ELSE r[i].session = response[k] /\ response[k] # 0
      OBVIOUS
    <3>1. CASE i = Len(q) + 1
      BY <2>2, <2>3, <2>5, <2>6, <3>1
    <3>2. CASE i \in 1..Len(q)
      <4>1. r[i] = q[i] /\ i \in DOMAIN q
        BY <2>2, <2>3, <3>2
      <4>2. m.type # "session_start"
        BY <2>3, <2>5, <3>2
      <4>3. response[k] # 0
        BY <2>6, <4>2
      <4> QED BY <2>4, <4>1, <4>3
    <3> QED BY <2>3, <3>1, <3>2
  <2>8. OneSession(k)'
    BY <2>1, <2>7 DEF OneSession
  <2> QED BY <1>1, <1>3, <1>4, <2>8
<1> QED BY <1>5, <1>6

\* A connection is dialled: it carries nothing.
LEMMA DialUnregistered ==
  ASSUME TypeInv, Dial, UNCHANGED <<pipe, response>>
  PROVE  /\ dials + 1 \in Links /\ pipe'[dials + 1] = <<>> /\ response'[dials + 1] = 0
         /\ \A k \in Links : k # dials + 1 => state'[k] = state[k]
         /\ current # dials + 1
  BY DEF TypeInv, ClientTypeOK, LinkTypes, Dial

\* Steps of Run.
LEMMA RegisteredRun ==
  ASSUME TypeInv, ConnectionsRegistered, RunStep \/ (ProcessEnds /\ Quiet)
  PROVE  ConnectionsRegistered'
<1>1. UNCHANGED <<response, received, fresh>>
  BY RunStepFrame
<1>2. ASSUME UNCHANGED pipe PROVE ReceivedInSession' /\ \A k \in Links : OneSession(k)'
  BY <1>1, <1>2 DEF ConnectionsRegistered, ReceivedInSession, OneSession
<1>3. run = "register" => loop = "none"
  BY Dialled
<1>4. CASE Ensure
  <2>1. run' \notin {"register", "scan", "close"} /\ UNCHANGED <<pipe, loop>>
    BY <1>4 DEF Ensure, EnsureBroker, netVars, loopVars
  <2> QED BY <1>1, <1>2, <2>1 DEF ConnectionsRegistered
<1>5. CASE Connect
  <2>1. run = "dial" /\ UNCHANGED <<pipe, loop>>
    BY <1>5 DEF Connect, loopVars
  <2>2. loop = "none"
    BY <2>1, Dialled
  <2>3. CASE run' = "exited"
    BY <1>1, <1>2, <2>1, <2>2, <2>3 DEF ConnectionsRegistered
  <2>4. CASE Dial /\ run' = "register" /\ current' = dials + 1
    <3>1. pipe'[current'] = <<>> /\ response'[current'] = 0
      BY <1>1, <2>1, <2>4, DialUnregistered
    <3> QED BY <1>1, <1>2, <2>1, <2>2, <2>4, <3>1 DEF ConnectionsRegistered
  <2> QED BY <1>5, <2>3, <2>4 DEF Connect
<1>6. CASE RegisterSession
  <2>1. run = "register" /\ current \in Links /\ UNCHANGED <<loop, current, state, sessionID>>
    BY <1>6, Dialled DEF RegisterSession, connVars, loopVars
  <2>2. SessionStart \in Message /\ SessionStart.type = "session_start"
    BY LineTypes DEF SessionStart
  <2>3. pipe[current] = <<>> /\ response[current] = 0
    BY <2>1 DEF ConnectionsRegistered
  <2>4. ReceivedInSession' /\ \A j \in Links : OneSession(j)'
    BY <1>1, <1>6, <2>1, <2>2, <2>3, EncodeInSession DEF RegisterSession
  <2>5. run' = "await" \/ (run' = "scan" /\ state[current] # "open")
    BY <1>6 DEF RegisterSession, EncodeFails
  <2> QED BY <1>1, <1>3, <2>1, <2>4, <2>5 DEF ConnectionsRegistered
<1>7. CASE ReadResponse
  <2>1. /\ run = "await" /\ run' = "scan" /\ UNCHANGED <<loop, current, state, pipe>>
        /\ response[current] # 0 \/ state[current] = "broken"
        /\ sessionID' = response[current]
    BY <1>7 DEF ReadResponse, netVars, loopVars
  <2>2. loop = "none"
    BY <2>1, Dialled
  <2> QED BY <1>1, <1>2, <2>1, <2>2 DEF ConnectionsRegistered
<1>8. CASE EndSession
  <2>1. run = "scan" /\ run' = "close" /\ current \in Links /\ UNCHANGED <<loop, current, state, sessionID>>
    BY <1>8, Dialled DEF EndSession, connVars, loopVars
  <2>2. SessionEnd \in Message /\ SessionEnd.type # "session_start" /\ SessionEnd.session = sessionID
    BY LineTypes DEF SessionEnd
  <2>3. state[current] = "open" => sessionID = response[current] /\ response[current] # 0
    BY <2>1 DEF ConnectionsRegistered
  <2>4. /\ ReceivedInSession' /\ \A j \in Links : OneSession(j)'
        /\ \A j \in Links \ {current} : pipe'[j] = pipe[j]
    BY <1>1, <1>8, <2>1, <2>2, <2>3, EncodeInSession DEF EndSession
  <2>5. loop = "register" => pipe'[fresh] = <<>>
    BY <2>4, Dialled DEF ConnectionsRegistered
  <2> QED BY <1>1, <2>1, <2>4, <2>5 DEF ConnectionsRegistered
<1>9. CASE ProcessEnds
  <2>1. run' = "exited" /\ loop' = "none" /\ UNCHANGED pipe
    BY <1>9 DEF ProcessEnds
  <2> QED BY <1>1, <1>2, <2>1 DEF ConnectionsRegistered
<1> QED BY <1>4, <1>5, <1>6, <1>7, <1>8, <1>9 DEF RunStep, Exit

\* Steps of a scanner.
LEMMA RegisteredScanner ==
  ASSUME TypeInv, ConnectionsRegistered, NEW s \in Streams, ScannerStep(s)
  PROVE  ConnectionsRegistered'
<1>1. UNCHANGED <<run, current, sessionID, fresh, state, response, received>>
  BY ScannerFrame DEF connVars
<1>2. loop' \in {"register", "swap"} => loop' = loop
  BY DEF ScannerStep, Scan, EndOfOutput, SendLog, PushLine, Trigger, loopVars
<1>3. CASE ~SendLog(s)
  <2>1. UNCHANGED pipe
    BY <1>3 DEF ScannerStep, Scan, EndOfOutput, PushLine, Trigger, netVars
  <2> QED BY <1>1, <1>2, <2>1 DEF ConnectionsRegistered, ReceivedInSession, OneSession
<1>4. CASE SendLog(s)
  <2> DEFINE m == LogMessage(InHand(s))
  <2>1. scanner[s] = "send" /\ run = "scan" /\ current \in Links
    BY <1>4, Dialled DEF SendLog
  <2>2. m \in Message /\ m.type # "session_start" /\ m.session = sessionID
    BY <2>1, LineTypes DEF LogMessage
  <2>3. Encode(current, m) \/ EncodeFails(current)
    BY <1>4 DEF SendLog
  <2> HIDE DEF m
  <2>4. state[current] = "open" => sessionID = response[current] /\ response[current] # 0
    BY <2>1 DEF ConnectionsRegistered
  <2>5. /\ ReceivedInSession' /\ \A j \in Links : OneSession(j)'
        /\ \A j \in Links \ {current} : pipe'[j] = pipe[j]
    BY <1>1, <2>1, <2>2, <2>3, <2>4, EncodeInSession
  <2>6. loop = "register" => pipe'[fresh] = <<>>
    BY <2>5, Dialled DEF ConnectionsRegistered
  <2> QED BY <1>1, <1>2, <2>1, <2>5, <2>6 DEF ConnectionsRegistered
<1> QED BY <1>3, <1>4

\* Steps of the reconnect loop.
LEMMA RegisteredLoop ==
  ASSUME TypeInv, ConnectionsRegistered, LoopStep
  PROVE  ConnectionsRegistered'
<1>1. UNCHANGED <<run, response, received>>
  BY LoopFrame DEF runVars
<1>2. ASSUME UNCHANGED pipe PROVE ReceivedInSession' /\ \A k \in Links : OneSession(k)'
  BY <1>1, <1>2 DEF ConnectionsRegistered, ReceivedInSession, OneSession
<1>3. run \in {"scan", "close"} /\ current \in Links /\ state \in [Links -> {"unused", "open", "closed", "broken"}]
  BY Dialled DEF LoopStep, CloseOld, EnsureAgain, EnsureBroker, DialAgain, RegisterAgain, ReadResponseAgain,
                 Swap, Drain, FlushLine, Finish, TypeInv, ClientTypeOK, LinkTypes
<1>4. CASE CloseOld
  <2>1. UNCHANGED <<pipe, current, sessionID>> /\ loop' = "ensure"
    BY <1>4 DEF CloseOld
  <2>2. state'[current] = "open" => state[current] = "open"
    BY <1>3, <1>4 DEF CloseOld, CloseConn
  <2> QED BY <1>1, <1>2, <1>3, <2>1, <2>2 DEF ConnectionsRegistered
<1>5. CASE EnsureAgain \/ Drain \/ Finish
  <2>1. UNCHANGED <<pipe, state, current, sessionID>> /\ loop' \notin {"register", "swap"}
    BY <1>5 DEF EnsureAgain, EnsureBroker, Drain, Finish, netVars, connVars
  <2> QED BY <1>1, <1>2, <1>3, <2>1 DEF ConnectionsRegistered
<1>6. CASE DialAgain
  <2>1. UNCHANGED <<pipe, current, sessionID>>
    BY <1>6 DEF DialAgain, connVars
  <2>2. CASE loop' = "close" /\ UNCHANGED <<fresh, dials, state>>
    BY <1>1, <1>2, <1>3, <2>1, <2>2 DEF ConnectionsRegistered
  <2>3. CASE Dial /\ fresh' = dials + 1 /\ loop' = "register"
    <3>1. pipe'[fresh'] = <<>> /\ response'[fresh'] = 0 /\ state'[current] = state[current]
      BY <1>1, <1>3, <2>1, <2>3, DialUnregistered
    <3> QED BY <1>1, <1>2, <1>3, <2>1, <2>3, <3>1 DEF ConnectionsRegistered
  <2> QED BY <1>6, <2>2, <2>3 DEF DialAgain
<1>7. CASE RegisterAgain
  <2>1. loop = "register" /\ fresh \in Links /\ fresh # current /\ UNCHANGED <<fresh, current, sessionID>> /\ loop' \in {"await", "close"}
    BY <1>7, Dialled DEF RegisterAgain, connVars
  <2>2. SessionStart \in Message /\ SessionStart.type = "session_start"
    BY LineTypes DEF SessionStart
  <2>3. pipe[fresh] = <<>> /\ response[fresh] = 0
    BY <2>1 DEF ConnectionsRegistered
  <2>4. /\ ReceivedInSession' /\ \A j \in Links : OneSession(j)'
        /\ \A j \in Links \ {fresh} : pipe'[j] = pipe[j]
    BY <1>1, <1>7, <2>1, <2>2, <2>3, EncodeInSession DEF RegisterAgain
  <2>5. state'[current] = state[current]
    BY <1>3, <1>7, <2>1 DEF RegisterAgain, CloseConn
  <2> QED BY <1>1, <1>3, <2>1, <2>4, <2>5 DEF ConnectionsRegistered
<1>8. CASE ReadResponseAgain
  <2>1. /\ loop = "await" /\ fresh \in Links /\ fresh # current /\ UNCHANGED <<fresh, current, sessionID, pipe>>
        /\ loop' = "close" \/ (loop' = "swap" /\ response[fresh] # 0)
    BY <1>8, Dialled DEF ReadResponseAgain, connVars
  <2>2. state'[current] = state[current]
    BY <1>3, <1>8, <2>1 DEF ReadResponseAgain, CloseConn
  <2> QED BY <1>1, <1>2, <1>3, <2>1, <2>2 DEF ConnectionsRegistered
<1>9. CASE Swap
  <2>1. loop = "swap" /\ loop' = "drain" /\ current' = fresh /\ sessionID' = response[fresh] /\ UNCHANGED <<pipe, state>>
    BY <1>9 DEF Swap, netVars
  <2> QED BY <1>1, <1>2, <1>3, <2>1 DEF ConnectionsRegistered
<1>10. CASE FlushLine
  <2> DEFINE m == LogMessage(Head(flushing))
  <2>1. /\ loop \in {"lock", "flush"} /\ loop' \in {"flush", "finish"} /\ UNCHANGED <<current, sessionID, fresh, state>>
        /\ flushing # <<>> /\ flushing \in Seq(Line)
        /\ Encode(current, m) \/ EncodeFails(current)
    BY <1>10 DEF FlushLine, connVars, TypeInv, ClientTypeOK, QueueTypes, GoroutinesInStep
  <2>2. m \in Message /\ m.type # "session_start" /\ m.session = sessionID
    <3>1. flushing \in Seq(Line) /\ flushing # <<>>
      BY <2>1
    <3>2. Head(flushing) \in Line
      BY <3>1, HeadTailProperties
    <3> QED BY <3>2, LineTypes DEF LogMessage
  <2> HIDE DEF m
  <2>3. state[current] = "open" => sessionID = response[current] /\ response[current] # 0
    BY <1>3 DEF ConnectionsRegistered
  <2>4. ReceivedInSession' /\ \A j \in Links : OneSession(j)'
    BY <1>1, <1>3, <2>1, <2>2, <2>3, EncodeInSession
  <2> QED BY <1>1, <1>3, <2>1, <2>3, <2>4 DEF ConnectionsRegistered
<1> QED BY <1>4, <1>5, <1>6, <1>7, <1>8, <1>9, <1>10 DEF LoopStep

\* The broker reads a message.
LEMMA RegisteredRead ==
  ASSUME TypeInv, ConnectionsRegistered, NEW k \in Links, BrokerReads(k)
  PROVE  ConnectionsRegistered'
<1> DEFINE m == Head(pipe[k])
           r == [line |-> m.line, session |-> m.session, conn |-> k]
<1>1. UNCHANGED <<run, current, sessionID, loop, fresh, state>>
  BY DEF BrokerReads, runVars, connVars, loopVars
<1>2. /\ pipe \in [Links -> Seq(Message)] /\ response \in [Links -> 0..dials] /\ received \in Seq(Record)
      /\ k \in Nat \ {0}
  BY Dialled DEF TypeInv, ClientTypeOK, PipeTypes, LinkTypes
<1>3. /\ pipe[k] \in Seq(Message) /\ pipe[k] # <<>> /\ m \in Message
      /\ pipe' = [pipe EXCEPT ![k] = Tail(@)]
  BY MessageRead
<1>4. (\A j \in Links \ {k} : pipe'[j] = pipe[j]) /\ pipe'[k] = Tail(pipe[k])
  BY <1>2, <1>3
<1>5. m = pipe[k][1] /\ 1 \in DOMAIN pipe[k]
  BY <1>3, HeadTailProperties
<1>6. /\ Tail(pipe[k]) \in Seq(Message) /\ Len(Tail(pipe[k])) = Len(pipe[k]) - 1 /\ Len(pipe[k]) \in Nat
      /\ \A i \in DOMAIN Tail(pipe[k]) : i + 1 \in DOMAIN pipe[k] /\ Tail(pipe[k])[i] = pipe[k][i + 1]
  BY <1>3, HeadTailProperties, LenProperties
\* A connection that is being registered has nothing to read.
<1>7. (run = "register" => k # current) /\ (loop = "register" => k # fresh)
  BY <1>3 DEF ConnectionsRegistered
<1> HIDE DEF m
<1>8. CASE m.type = "session_start"
  <2>1. received' = received /\ response' \in {response, [response EXCEPT ![k] = k]}
    BY <1>8, MessageRead DEF m
  <2>2. Len(pipe[k]) = 1 /\ response[k] = 0
    BY <1>5, <1>8 DEF ConnectionsRegistered, OneSession
  <2>3. DOMAIN Tail(pipe[k]) = {}
    BY <1>6, <2>2, LenProperties
  <2>4. \A j \in Links : response'[j] # response[j] => j = k /\ response[j] = 0 /\ response'[j] # 0
    BY <1>2, <2>1, <2>2
  <2>5. \A j \in Links : OneSession(j)'
    <3>1. OneSession(k)'
      BY <1>4, <2>3 DEF OneSession
    <3>2. ASSUME NEW j \in Links \ {k} PROVE OneSession(j)'
      <4>1. pipe'[j] = pipe[j] /\ response'[j] = response[j]
        BY <1>4, <2>4
      <4> QED BY <4>1 DEF ConnectionsRegistered, OneSession
    <3> QED BY <3>1, <3>2
  <2>6. ReceivedInSession'
    <3>1. ASSUME NEW i \in DOMAIN received PROVE received[i].conn \in Links
      <4>1. received[i] \in Record
        BY <1>2, ElementOfSeq, LenProperties
      <4> QED BY <4>1 DEF Record
    <3> QED BY <2>1, <2>4, <3>1 DEF ConnectionsRegistered, ReceivedInSession
  <2>7. /\ run = "register" => pipe'[current] = <<>> /\ response'[current] = 0
        /\ loop = "register" => pipe'[fresh] = <<>> /\ response'[fresh] = 0
        /\ loop = "swap" => response'[fresh] # 0
    BY <1>4, <1>7, <2>4, Dialled DEF ConnectionsRegistered
  <2>8. run \in {"scan", "close"} /\ state[current] = "open" => response'[current] # 0 /\ sessionID = response'[current]
    BY <2>4, Dialled DEF ConnectionsRegistered
  <2> QED BY <1>1, <2>5, <2>6, <2>7, <2>8 DEF ConnectionsRegistered
<1>9. CASE m.type # "session_start"
  <2>1. m.session = response[k] /\ response[k] # 0
    BY <1>5, <1>9 DEF ConnectionsRegistered, OneSession
  <2>2. response' = response
    BY <1>9, MessageRead DEF m
  <2>3. OneSession(k)'
    <3>1. \A i \in DOMAIN Tail(pipe[k]) : Tail(pipe[k])[i].type # "session_start" /\ Tail(pipe[k])[i].session = response[k]
      BY <1>6, <2>1 DEF ConnectionsRegistered, OneSession
    <3>2. pipe'[k] = Tail(pipe[k])
      BY <1>4
    <3> QED BY <2>1, <2>2, <3>1, <3>2 DEF OneSession
  <2>4. ASSUME NEW j \in Links PROVE OneSession(j)'
    <3>1. CASE j # k
      <4>1. pipe'[j] = pipe[j]
        BY <1>4, <3>1
      <4> QED BY <2>2, <4>1 DEF ConnectionsRegistered, OneSession
    <3> QED BY <2>3, <3>1
  <2>5. ReceivedInSession'
    <3>1. received' = received \/ received' = Append(received, r)
      BY <1>9, MessageRead DEF m
    <3>2. r.session = m.session /\ r.conn = k
      OBVIOUS
    <3> HIDE DEF r
    <3>3. CASE received' = received
      BY <2>2, <3>3 DEF ConnectionsRegistered, ReceivedInSession
    <3>4. CASE received' = Append(received, r)
      <4>1. /\ DOMAIN received' = 1..(Len(received) + 1) /\ DOMAIN received = 1..Len(received) /\ Len(received) \in Nat
            /\ received'[Len(received) + 1] = r /\ \A i \in 1..Len(received) : received'[i] = received[i]
        BY <1>2, <3>4
      <4> QED BY <2>1, <2>2, <3>2, <4>1 DEF ConnectionsRegistered, ReceivedInSession
    <3> QED BY <3>1, <3>3, <3>4
  <2>6. /\ run = "register" => pipe'[current] = <<>> /\ response'[current] = 0
        /\ loop = "register" => pipe'[fresh] = <<>> /\ response'[fresh] = 0
    BY <1>4, <1>7, <2>2, Dialled DEF ConnectionsRegistered
  <2> QED BY <1>1, <2>2, <2>4, <2>5, <2>6 DEF ConnectionsRegistered
<1> QED BY <1>8, <1>9

\* A connection that breaks loses what it carries.
LEMMA RegisteredBreak ==
  ASSUME TypeInv, ConnectionsRegistered, UNCHANGED <<run, current, sessionID, loop, fresh, response, received>>,
         \A k \in Links : pipe'[k] \in {pipe[k], <<>>} /\ (state'[k] = "open" => state[k] = "open")
  PROVE  ConnectionsRegistered'
<1>1. ASSUME NEW k \in Links PROVE OneSession(k)'
  <2>1. CASE pipe'[k] = pipe[k]
    BY <2>1 DEF ConnectionsRegistered, OneSession
  <2>2. CASE pipe'[k] = <<>>
    BY <2>2, EmptyQueue DEF OneSession
  <2> QED BY <2>1, <2>2
<1>2. ReceivedInSession'
  BY DEF ConnectionsRegistered, ReceivedInSession
<1>3. /\ run = "register" => pipe'[current] = <<>> /\ response[current] = 0
      /\ loop = "register" => pipe'[fresh] = <<>> /\ response[fresh] = 0
  BY Dialled DEF ConnectionsRegistered
<1>4. run \in {"scan", "close"} /\ state'[current] = "open" => response[current] # 0 /\ sessionID = response[current]
  BY Dialled DEF ConnectionsRegistered
<1> QED BY <1>1, <1>2, <1>3, <1>4 DEF ConnectionsRegistered

LEMMA RegisteredStep == ASSUME TypeInv, ConnectionsRegistered, Step PROVE ConnectionsRegistered'
<1>1. ASSUME NEW k \in Links, BrokerDrops(k) PROVE ConnectionsRegistered'
  <2>1. \A j \in Links : pipe'[j] \in {pipe[j], <<>>} /\ (state'[j] = "open" => state[j] = "open")
    BY <1>1 DEF BrokerDrops, TypeInv, ClientTypeOK, PipeTypes, LinkTypes
  <2> QED BY <1>1, <2>1, RegisteredBreak DEF BrokerDrops, runVars, connVars, loopVars
<1>2. CASE BrokerDies
  <2>1. \A j \in Links : pipe'[j] \in {pipe[j], <<>>} /\ (state'[j] = "open" => state[j] = "open")
    BY <1>2 DEF BrokerDies
  <2> QED BY <1>2, <2>1, RegisteredBreak DEF BrokerDies, runVars, connVars, loopVars
<1>3. CASE BrokerStarts \/ UNCHANGED vars
  BY <1>3, RegisteredBreak DEF BrokerStarts, vars, runVars, connVars, loopVars, netVars
<1> QED BY <1>1, <1>2, <1>3, RegisteredRun, RegisteredScanner, RegisteredLoop, RegisteredRead DEF Step, Next, BrokerStep

\* A connection carries nothing before its registration and only its own session after it.
LEMMA RegisteredInvariant == Spec => []ConnectionsRegistered
<1>1. TypeInv /\ ConnectionsRegistered /\ [Next]_vars => ConnectionsRegistered'
  BY RegisteredStep DEF Step
<1> QED BY <1>1, RegisteredInit, TypeInvariant, PTL DEF Spec

LEMMA RegisteredImplies == ConnectionsRegistered => LinesCarryTheirSession
  BY DEF ConnectionsRegistered, OneSession, ReceivedInSession, LinesCarryTheirSession

\* However often the broker dies and the client reconnects, a line and the end of a session
\* travel with the session that was registered on their connection.
THEOREM SessionsAreNotMixed == Spec => []LinesCarryTheirSession
  BY RegisteredInvariant, RegisteredImplies, PTL

-----------------------------------------------------------------------------
(* Order: lines of a stream wait in the order in which they were read.       *)

\* What holds of the lines of a queue holds of the rest of it.
LEMMA TailOrder ==
  ASSUME NEW q \in Seq(Line), q # <<>>
  PROVE  /\ Tail(q) \in Seq(Line) /\ \A i \in DOMAIN Tail(q) : i + 1 \in DOMAIN q /\ Tail(q)[i] = q[i + 1]
         /\ InOrder(q) => InOrder(Tail(q))
         /\ \A r \in Seq(Line) : (Older(r, q) => Older(r, Tail(q))) /\ (Older(q, r) => Older(Tail(q), r))
<1> DEFINE t == Tail(q)
<1>1. /\ t \in Seq(Line) /\ DOMAIN t \subseteq Nat
      /\ \A i \in DOMAIN t : i + 1 \in DOMAIN q /\ t[i] = q[i + 1]
  BY HeadTailProperties, LenProperties
<1> HIDE DEF t
<1>2. InOrder(q) => InOrder(t)
  <2>1. \A i, j \in DOMAIN t : i < j => i + 1 < j + 1
    BY <1>1
  <2> QED BY <1>1, <2>1 DEF InOrder
<1>3. ASSUME NEW r \in Seq(Line) PROVE (Older(r, q) => Older(r, t)) /\ (Older(q, r) => Older(t, r))
  BY <1>1 DEF Older
<1> QED BY <1>1, <1>2, <1>3 DEF t

\* A line is put behind a queue of which every line of its stream is older.
LEMMA AppendOrder ==
  ASSUME NEW q \in Seq(Line), NEW l \in Line, Older(q, <<l>>), InOrder(q)
  PROVE  /\ Append(q, l) \in Seq(Line) /\ InOrder(Append(q, l))
         /\ \A i \in DOMAIN Append(q, l) : Append(q, l)[i] = l \/ \E j \in DOMAIN q : Append(q, l)[i] = q[j]
         /\ \A r \in Seq(Line) : Older(r, q) /\ Older(r, <<l>>) => Older(r, Append(q, l))
<1> DEFINE a == Append(q, l)
<1>1. /\ a \in Seq(Line) /\ Len(q) \in Nat /\ DOMAIN q = 1..Len(q) /\ DOMAIN a = 1..(Len(q) + 1)
      /\ a[Len(q) + 1] = l /\ \A i \in 1..Len(q) : a[i] = q[i]
  BY AppendProperties, LenProperties
<1>2. DOMAIN <<l>> = {1} /\ <<l>>[1] = l
  OBVIOUS
<1>3. \A i \in DOMAIN q : q[i].stream = l.stream => q[i].ts < l.ts
  BY <1>2 DEF Older
<1> HIDE DEF a
<1>4. \A i \in DOMAIN a : (i = Len(q) + 1 /\ a[i] = l) \/ (i \in DOMAIN q /\ a[i] = q[i])
  BY <1>1
<1>5. InOrder(a)
  <2> SUFFICES ASSUME NEW i \in DOMAIN a, NEW j \in DOMAIN a, i < j, a[i].stream = a[j].stream PROVE a[i].ts < a[j].ts
    BY DEF InOrder
  <2>1. i \in DOMAIN q /\ a[i] = q[i]
    BY <1>1
  <2>2. CASE j = Len(q) + 1 /\ a[j] = l
    BY <1>3, <2>1, <2>2
  <2>3. CASE j \in DOMAIN q /\ a[j] = q[j]
    BY <2>1, <2>3 DEF InOrder
  <2> QED BY <1>4, <2>2, <2>3
<1>6. ASSUME NEW r \in Seq(Line), Older(r, q), Older(r, <<l>>) PROVE Older(r, a)
  <2>1. \A i \in DOMAIN r : r[i].stream = l.stream => r[i].ts < l.ts
    BY <1>2, <1>6 DEF Older
  <2> QED BY <1>4, <1>6, <2>1 DEF Older
<1> QED BY <1>1, <1>4, <1>5, <1>6 DEF a

\* The ring buffer drops only from its front.
LEMMA NewestOrder ==
  ASSUME NEW q \in Seq(Line), NEW l \in Line, Older(q, <<l>>), InOrder(q)
  PROVE  LET n == Newest(Append(q, l)) IN
         /\ InOrder(n) /\ \A i \in DOMAIN n : n[i] = l \/ \E j \in DOMAIN q : n[i] = q[j]
         /\ \A r \in Seq(Line) : Older(r, q) /\ Older(r, <<l>>) => Older(r, n)
<1> DEFINE a == Append(q, l)
<1>1. /\ a \in Seq(Line) /\ InOrder(a) /\ a # <<>>
      /\ \A i \in DOMAIN a : a[i] = l \/ \E j \in DOMAIN q : a[i] = q[j]
      /\ \A r \in Seq(Line) : Older(r, q) /\ Older(r, <<l>>) => Older(r, a)
  BY AppendOrder, AppendProperties
<1> HIDE DEF a
<1>2. CASE Newest(a) = a
  BY <1>1, <1>2 DEF a
<1>3. CASE Newest(a) = Tail(a)
  <2> DEFINE n == Tail(a)
  <2>1. \A i \in DOMAIN n : i + 1 \in DOMAIN a /\ n[i] = a[i + 1]
    BY <1>1, TailOrder
  <2>2. InOrder(n) /\ \A r \in Seq(Line) : Older(r, a) => Older(r, n)
    BY <1>1, TailOrder
  <2> HIDE DEF n
  <2>3. \A i \in DOMAIN n : n[i] = l \/ \E j \in DOMAIN q : n[i] = q[j]
    BY <1>1, <2>1
  <2>4. \A r \in Seq(Line) : Older(r, q) /\ Older(r, <<l>>) => Older(r, n)
    BY <1>1, <2>2
  <2> QED BY <1>3, <2>2, <2>3, <2>4 DEF a, n
<1> QED BY <1>2, <1>3 DEF Newest, a

\* Two lists in order of which one is older make a list in order.
LEMMA ConcatOrder ==
  ASSUME NEW q \in Seq(Line), NEW r \in Seq(Line), InOrder(q), InOrder(r), Older(q, r)
  PROVE  /\ q \o r \in Seq(Line) /\ InOrder(q \o r)
         /\ \A u \in Seq(Line) : Older(q, u) /\ Older(r, u) => Older(q \o r, u)
<1> DEFINE w == q \o r
<1>1. /\ DOMAIN q = 1..Len(q) /\ DOMAIN r = 1..Len(r) /\ DOMAIN w = 1..(Len(q) + Len(r))
      /\ Len(q) \in Nat /\ Len(r) \in Nat /\ w \in Seq(Line)
  BY ConcatProperties, LenProperties
<1>2. \A i \in DOMAIN w : IF i <= Len(q) THEN i \in DOMAIN q /\ w[i] = q[i]
                          ELSE i - Len(q) \in DOMAIN r /\ w[i] = r[i - Len(q)]
  BY <1>1, ConcatProperties
<1> HIDE DEF w
<1>3. InOrder(w)
  <2> SUFFICES ASSUME NEW i \in DOMAIN w, NEW j \in DOMAIN w, i < j, w[i].stream = w[j].stream PROVE w[i].ts < w[j].ts
    BY DEF InOrder
  <2>1. CASE j <= Len(q)
    <3>1. i <= Len(q)
      BY <1>1, <2>1
    <3> QED BY <1>2, <2>1, <3>1 DEF InOrder
  <2>2. CASE i > Len(q)
    <3>1. ~(i <= Len(q)) /\ ~(j <= Len(q)) /\ i - Len(q) < j - Len(q)
      BY <1>1, <2>2
    <3> QED BY <1>2, <3>1 DEF InOrder
  <2>3. CASE i <= Len(q) /\ ~(j <= Len(q))
    BY <1>2, <2>3 DEF Older
  <2> QED BY <1>1, <2>1, <2>2, <2>3
<1>4. ASSUME NEW u \in Seq(Line), Older(q, u), Older(r, u) PROVE Older(w, u)
  <2> SUFFICES ASSUME NEW i \in DOMAIN w, NEW j \in DOMAIN u, w[i].stream = u[j].stream PROVE w[i].ts < u[j].ts
    BY DEF Older
  <2> QED BY <1>2, <1>4 DEF Older
<1> QED BY <1>1, <1>3, <1>4 DEF w

LEMMA OrderInit == Init => BufferedInOrder
<1> SUFFICES ASSUME Init PROVE BufferedInOrder
  OBVIOUS
<1>1. buffer = <<>> /\ flushing = <<>>
  BY DEF Init
<1> QED BY <1>1, EmptyQueue DEF BufferedInOrder, InOrder, Older, ReadBefore

\* The queues hold on to lines they have, and the scanners go on.
LEMMA OrderKept ==
  ASSUME TypeInv, BufferedInOrder,
         InOrder(flushing'), InOrder(buffer'), Older(flushing', buffer'),
         \A i \in DOMAIN flushing' : flushing'[i] \in Earlier',
         \A i \in DOMAIN buffer' : buffer'[i] \in Earlier'
  PROVE  BufferedInOrder'
  BY DEF BufferedInOrder, InOrder, Older, ReadBefore

\* A line that was read before still was, whatever the scanners do.
LEMMA EarlierKept ==
  ASSUME TypeInv, Step, NEW l \in Earlier
  PROVE  l \in Earlier'
<1>0. l \in Line /\ l.stream \in Streams /\ l.ts \in Nat /\ RunTypes
  BY ConstantTypes DEF Earlier, Line, TypeInv, ClientTypeOK
<1>1. CASE UNCHANGED <<scanner, ts>>
  BY <1>0, <1>1 DEF Earlier
<1>2. ASSUME NEW s \in Streams, Scan(s) PROVE l \in Earlier'
  <2>1. /\ scanner[s] = "read" /\ scanner' = [scanner EXCEPT ![s] = "send"] /\ ts' = [ts EXCEPT ![s] = lines + 1]
    BY <1>2 DEF Scan
  <2>2. CASE l.stream = s
    <3>1. ts[s] \in 0..lines /\ lines \in Nat /\ ts'[s] = lines + 1
      BY <1>0, <2>1, ConstantTypes DEF RunTypes
    <3>2. l.ts <= ts[s]
      BY <2>2 DEF Earlier
    <3>3. l.ts < ts'[s]
      BY <1>0, <3>1, <3>2
    <3> QED BY <1>0, <2>2, <3>1, <3>3 DEF Earlier
  <2>3. CASE l.stream # s
    <3>1. ts'[l.stream] = ts[l.stream] /\ scanner'[l.stream] = scanner[l.stream]
      BY <1>0, <2>1, <2>3 DEF RunTypes
    <3> QED BY <1>0, <3>1 DEF Earlier
  <2> QED BY <2>2, <2>3
<1>3. ASSUME NEW s \in Streams, EndOfOutput(s) \/ SendLog(s) \/ PushLine(s) \/ Trigger(s) PROVE l \in Earlier'
  <2>1. ts' = ts /\ \A t \in Streams : scanner'[t] \in {"send", "push"} => scanner[t] \in {"send", "push"}
    BY <1>0, <1>3 DEF EndOfOutput, SendLog, PushLine, Trigger, RunTypes
  <2> QED BY <1>0, <2>1 DEF Earlier
<1>4. RunStep \/ ProcessEnds \/ LoopStep \/ BrokerStep \/ UNCHANGED vars => UNCHANGED <<scanner, ts>>
  BY RunStepFrame, LoopFrame, BrokerFrame DEF vars, runVars
<1> QED BY <1>1, <1>2, <1>3, <1>4 DEF Step, Next, ScannerStep

LEMMA OrderStep == ASSUME TypeInv, BufferedInOrder, Step PROVE BufferedInOrder'
<1>1. /\ buffer \in Seq(Line) /\ flushing \in Seq(Line)
      /\ (loop \in {"lock", "flush"} <=> flushing # <<>>)
  BY DEF TypeInv, ClientTypeOK, QueueTypes, GoroutinesInStep
<1>2. /\ \A i \in DOMAIN buffer : buffer[i] \in Earlier /\ buffer[i] \in Earlier'
      /\ \A i \in DOMAIN flushing : flushing[i] \in Earlier /\ flushing[i] \in Earlier'
  BY EarlierKept DEF BufferedInOrder, ReadBefore
<1>3. CASE UNCHANGED <<buffer, flushing>>
  BY <1>2, <1>3, OrderKept DEF BufferedInOrder, InOrder, Older
<1>4. CASE buffer' = <<>> /\ flushing' = <<>>
  BY <1>4, EmptyQueue, OrderKept DEF InOrder, Older
<1>5. ASSUME NEW s \in Streams, PushLine(s) PROVE BufferedInOrder'
  <2> DEFINE l == InHand(s)
             n == Newest(Append(buffer, l))
  <2>1. /\ scanner[s] = "push" /\ scanner' = [scanner EXCEPT ![s] = "trigger"]
        /\ UNCHANGED <<flushing, ts>> /\ buffer' = n
    BY <1>5 DEF PushLine, loopVars
  <2>2. l \in Line /\ l.stream = s /\ l.ts = ts[s] /\ s \in DOMAIN scanner /\ ts[s] \in Nat
    BY <2>1, LineTypes, ConstantTypes DEF InHand, TypeInv, ClientTypeOK, RunTypes
  <2> HIDE DEF l
  <2>3. DOMAIN <<l>> = {1} /\ <<l>>[1] = l
    OBVIOUS
  <2>4. Older(buffer, <<l>>) /\ Older(flushing, <<l>>)
    BY <1>2, <2>1, <2>2, <2>3 DEF Older, Earlier
  <2>5. /\ InOrder(n) /\ \A i \in DOMAIN n : n[i] = l \/ \E j \in DOMAIN buffer : n[i] = buffer[j]
        /\ Older(flushing, n)
    BY <1>1, <2>2, <2>4, NewestOrder DEF BufferedInOrder
  <2>6. l \in Earlier'
    BY <2>1, <2>2 DEF Earlier
  <2> HIDE DEF n
  <2>7. \A i \in DOMAIN n : n[i] \in Earlier'
    BY <1>2, <2>5, <2>6
  <2> QED BY <1>2, <2>1, <2>5, <2>7, OrderKept DEF BufferedInOrder, InOrder
<1>6. CASE Drain
  <2>1. buffer' = <<>> /\ flushing' = buffer
    BY <1>6 DEF Drain
  <2> QED BY <1>2, <2>1, EmptyQueue, OrderKept DEF BufferedInOrder, InOrder, Older
<1>7. CASE FlushLine
  <2>1. flushing # <<>> /\ buffer' = buffer /\ flushing' \in {Tail(flushing), <<>>}
    BY <1>1, <1>7 DEF FlushLine
  <2>2. CASE flushing' = <<>>
    BY <1>2, <2>1, <2>2, EmptyQueue, OrderKept DEF BufferedInOrder, InOrder, Older
  <2>3. CASE flushing' = Tail(flushing)
    <3>1. /\ \A i \in DOMAIN flushing' : i + 1 \in DOMAIN flushing /\ flushing'[i] = flushing[i + 1]
          /\ InOrder(flushing') /\ Older(flushing', buffer)
      BY <1>1, <2>1, <2>3, TailOrder DEF BufferedInOrder
    <3> QED BY <1>2, <2>1, <3>1, OrderKept DEF BufferedInOrder, InOrder
  <2> QED BY <2>1, <2>2, <2>3
<1>8. CASE RunStep \/ ProcessEnds
  BY <1>3, <1>4, <1>8, RunStepFrame DEF ProcessEnds
<1>9. ASSUME NEW s \in Streams, ScannerStep(s), ~PushLine(s) PROVE BufferedInOrder'
  <2>1. UNCHANGED <<buffer, flushing>>
    BY <1>9, ScannerFrame DEF ScannerStep, Scan, EndOfOutput, SendLog, Trigger
  <2> QED BY <1>3, <2>1
<1>10. CASE LoopStep /\ ~Drain /\ ~FlushLine
  <2>1. UNCHANGED <<buffer, flushing>>
    BY <1>10 DEF LoopStep, CloseOld, EnsureAgain, DialAgain, RegisterAgain, ReadResponseAgain, Swap, Finish
  <2> QED BY <1>3, <2>1
<1>11. CASE BrokerStep \/ UNCHANGED vars
  BY <1>3, <1>11, BrokerFrame DEF vars, loopVars
<1> QED BY <1>5, <1>6, <1>7, <1>8, <1>9, <1>10, <1>11 DEF Step, Next

\* The lines drained, buffered and in hand are in order.
LEMMA OrderInvariant == Spec => []BufferedInOrder
<1>1. TypeInv /\ BufferedInOrder /\ [Next]_vars => BufferedInOrder'
  BY OrderStep DEF Step
<1> QED BY <1>1, OrderInit, TypeInvariant, PTL DEF Spec

LEMMA OrderImplies == TypeInv /\ BufferedInOrder => WaitingInOrder
<1> SUFFICES ASSUME TypeInv, BufferedInOrder, NEW s \in Streams PROVE InOrder(Waiting(s))
  BY DEF WaitingInOrder, InOrder
<1> DEFINE w == flushing \o buffer
           l == InHand(s)
<1>1. buffer \in Seq(Line) /\ flushing \in Seq(Line)
  BY DEF TypeInv, ClientTypeOK, QueueTypes
<1>2. w \in Seq(Line) /\ InOrder(w)
  BY <1>1, ConcatOrder DEF BufferedInOrder
<1>3. CASE scanner[s] # "push"
  <2>1. w \o <<>> = w
    BY <1>2, ConcatEmptySeq
  <2> QED BY <1>2, <1>3, <2>1 DEF Waiting
<1>4. CASE scanner[s] = "push"
  <2>1. l \in Line /\ l.stream = s /\ l.ts = ts[s]
    BY <1>4, LineTypes DEF InHand
  <2> HIDE DEF l
  <2>2. <<l>> \in Seq(Line) /\ DOMAIN <<l>> = {1} /\ <<l>>[1] = l
    BY <2>1
  <2>3. Older(buffer, <<l>>) /\ Older(flushing, <<l>>)
    BY <1>4, <2>1, <2>2 DEF BufferedInOrder, ReadBefore, Older, Earlier
  <2>4. Older(w, <<l>>)
    BY <1>1, <2>2, <2>3, ConcatOrder DEF BufferedInOrder
  <2>5. InOrder(<<l>>)
    BY <2>2 DEF InOrder
  <2> HIDE DEF w
  <2>6. InOrder(w \o <<l>>)
    BY <1>2, <2>2, <2>4, <2>5, ConcatOrder
  <2> QED BY <1>4, <2>6 DEF Waiting, w, l
<1> QED BY <1>3, <1>4

\* Lines of a stream that wait for a broker wait in the order in which the child wrote them,
\* for any streams, capacity and interleaving of scanners and reconnects.
THEOREM BufferKeepsOrder == Spec => []WaitingInOrder
  BY TypeInvariant, OrderInvariant, OrderImplies, PTL

-----------------------------------------------------------------------------
(* A line is in one place.                                                   *)

\* Messages and records with a line.
LEMMA CarriesLine ==
  /\ \A m \in Message : ("line" \in DOMAIN m) <=> m.type = "log"
  /\ \A r \in Record : "line" \in DOMAIN r /\ r.line \in Line
  /\ \A l : "line" \in DOMAIN LogMessage(l) /\ LogMessage(l).line = l
  /\ "line" \notin DOMAIN SessionStart /\ "line" \notin DOMAIN SessionEnd
<1>1. ASSUME NEW m \in Message PROVE ("line" \in DOMAIN m) <=> m.type = "log"
  <2>1. CASE m \in [type : {"log"}, line : Line, session : Nat]
    <3>1. DOMAIN m = {"type", "line", "session"} /\ m.type = "log"
      BY <2>1
    <3> QED BY <3>1
  <2>2. CASE m \in [type : {"session_start"}]
    <3>1. DOMAIN m = {"type"} /\ m.type = "session_start"
      BY <2>2
    <3> QED BY <3>1
  <2>3. CASE m \in [type : {"session_end"}, session : Nat]
    <3>1. DOMAIN m = {"type", "session"} /\ m.type = "session_end"
      BY <2>3
    <3> QED BY <3>1
  <2> QED BY <2>1, <2>2, <2>3 DEF Message
<1>2. \A r \in Record : "line" \in DOMAIN r /\ r.line \in Line
  BY DEF Record
<1>3. \A l : "line" \in DOMAIN LogMessage(l) /\ LogMessage(l).line = l
  BY DEF LogMessage
<1>4. "line" \notin DOMAIN SessionStart /\ "line" \notin DOMAIN SessionEnd
  BY DEF SessionStart, SessionEnd
<1> QED BY <1>1, <1>2, <1>3, <1>4

\* The lines in a queue of messages that grows at its end.
LEMMA LinesAppend ==
  ASSUME NEW S, NEW q \in Seq(S), NEW m \in S
  PROVE  /\ "line" \notin DOMAIN m => Lines(Append(q, m)) = Lines(q) /\ (OnceIn(q) => OnceIn(Append(q, m)))
         /\ "line" \in DOMAIN m => Lines(Append(q, m)) = Lines(q) \cup {m.line}
         /\ "line" \in DOMAIN m /\ m.line \notin Lines(q) /\ OnceIn(q) => OnceIn(Append(q, m))
<1> DEFINE a == Append(q, m)
<1>1. /\ Len(q) \in Nat /\ DOMAIN q = 1..Len(q) /\ DOMAIN a = 1..(Len(q) + 1)
      /\ a[Len(q) + 1] = m /\ \A i \in 1..Len(q) : a[i] = q[i]
  BY AppendProperties, LenProperties
<1> HIDE DEF a
<1>2. \A i \in DOMAIN a : (i = Len(q) + 1 /\ a[i] = m) \/ (i \in DOMAIN q /\ a[i] = q[i])
  BY <1>1
<1>3. Len(q) + 1 \in DOMAIN a /\ \A i \in DOMAIN q : i \in DOMAIN a /\ a[i] = q[i]
  BY <1>1
<1>4. ASSUME "line" \notin DOMAIN m PROVE Lines(a) = Lines(q) /\ (OnceIn(q) => OnceIn(a))
  <2>1. Lines(a) \subseteq Lines(q)
    BY <1>2, <1>4 DEF Lines
  <2>2. Lines(q) \subseteq Lines(a)
    BY <1>3 DEF Lines
  <2>3. OnceIn(q) => OnceIn(a)
    BY <1>2, <1>4 DEF OnceIn
  <2> QED BY <2>1, <2>2, <2>3
<1>5. ASSUME "line" \in DOMAIN m PROVE Lines(a) = Lines(q) \cup {m.line}
  <2>1. Lines(a) \subseteq Lines(q) \cup {m.line}
    BY <1>2 DEF Lines
  <2>2. Lines(q) \subseteq Lines(a)
    BY <1>3 DEF Lines
  <2>3. m.line \in Lines(a)
    BY <1>1, <1>3, <1>5 DEF Lines
  <2> QED BY <2>1, <2>2, <2>3
<1>6. ASSUME m.line \notin Lines(q), OnceIn(q) PROVE OnceIn(a)
  <2>1. \A i \in DOMAIN q : "line" \in DOMAIN q[i] => q[i].line # m.line
    BY <1>6 DEF Lines
  <2> QED BY <1>2, <1>6, <2>1 DEF OnceIn
<1> QED BY <1>4, <1>5, <1>6 DEF a

\* The lines in a queue of messages of which the first is taken.
LEMMA LinesTail ==
  ASSUME NEW S, NEW q \in Seq(S), q # <<>>
  PROVE  /\ Lines(Tail(q)) \subseteq Lines(q) /\ (OnceIn(q) => OnceIn(Tail(q)))
         /\ "line" \in DOMAIN Head(q) => Lines(q) = Lines(Tail(q)) \cup {Head(q).line}
         /\ "line" \in DOMAIN Head(q) /\ OnceIn(q) => Head(q).line \notin Lines(Tail(q))
<1> DEFINE t == Tail(q)
           h == Head(q)
<1>1. /\ t \in Seq(S) /\ Len(q) \in Nat \ {0} /\ DOMAIN q = 1..Len(q) /\ DOMAIN t = 1..(Len(q) - 1)
      /\ h = q[1] /\ \A i \in 1..(Len(q) - 1) : t[i] = q[i + 1]
  <2>1. t \in Seq(S) /\ Len(q) \in Nat \ {0} /\ Len(t) = Len(q) - 1 /\ h = q[1]
    BY HeadTailProperties, LenProperties, EmptySeq
  <2>2. \A i \in 1..(Len(q) - 1) : t[i] = q[i + 1]
    BY <2>1, HeadTailProperties
  <2> QED BY <2>1, <2>2, LenProperties
<1> HIDE DEF t, h
<1>2. \A i \in DOMAIN t : i \in Nat \ {0} /\ i + 1 \in DOMAIN q /\ t[i] = q[i + 1]
  BY <1>1
<1>3. \A i \in DOMAIN q : i = 1 \/ (i - 1 \in DOMAIN t /\ t[i - 1] = q[i])
  BY <1>1
<1>4. 1 \in DOMAIN q
  BY <1>1
<1>5. Lines(t) \subseteq Lines(q)
  BY <1>2 DEF Lines
<1>6. OnceIn(q) => OnceIn(t)
  <2>1. \A i, j \in DOMAIN t : i # j => i + 1 # j + 1
    BY <1>2
  <2> QED BY <1>2, <2>1 DEF OnceIn
<1>7. ASSUME "line" \in DOMAIN h PROVE Lines(q) = Lines(t) \cup {h.line}
  <2>1. Lines(q) \subseteq Lines(t) \cup {h.line}
    BY <1>1, <1>3 DEF Lines
  <2>2. h.line \in Lines(q)
    BY <1>1, <1>4, <1>7 DEF Lines
  <2> QED BY <1>5, <2>1, <2>2
<1>8. ASSUME "line" \in DOMAIN h, OnceIn(q) PROVE h.line \notin Lines(t)
  <2>1. \A i \in DOMAIN t : i + 1 # 1
    BY <1>2
  <2>2. \A i \in DOMAIN t : "line" \in DOMAIN t[i] => t[i].line # h.line
    BY <1>1, <1>2, <1>4, <1>8, <2>1 DEF OnceIn
  <2> QED BY <2>2 DEF Lines
<1> QED BY <1>5, <1>6, <1>7, <1>8 DEF t, h

\* Whatever is on its way is a line that was read.
LEMMA LinesOnTheWay ==
  ASSUME TypeInv, BufferedInOrder
  PROVE  /\ Own \subseteq Line /\ \A l \in Own : l.ts <= lines
         /\ Lines(received) \subseteq Line /\ \A k \in Links : Sent(k) \subseteq Line
<1>1. Lines(received) \subseteq Line
  <2>1. \A i \in DOMAIN received : received[i] \in Record
    <3>1. received \in Seq(Record)
      BY DEF TypeInv, ClientTypeOK, PipeTypes
    <3> QED BY <3>1, ElementOfSeq, LenProperties
  <2> QED BY <2>1, CarriesLine DEF Lines
<1>2. ASSUME NEW k \in Links PROVE Sent(k) \subseteq Line
  <2>1. pipe[k] \in Seq(Message)
    BY DEF TypeInv, ClientTypeOK, PipeTypes
  <2>2. \A i \in DOMAIN pipe[k] : pipe[k][i] \in Message
    BY <2>1, ElementOfSeq, LenProperties
  <2>3. \A m \in Message : m.type = "log" => m.line \in Line
    BY DEF Message
  <2> QED BY <2>2, <2>3, CarriesLine DEF Sent, Lines
<1>3. ASSUME NEW l \in Own PROVE l \in Line /\ l.ts <= lines
  <2>1. CASE l \in Held
    <3>1. PICK s \in Streams : scanner[s] \in {"send", "push"} /\ l = InHand(s)
      BY <2>1 DEF Held
    <3>2. l \in Line /\ l.ts = ts[s]
      BY <3>1, LineTypes DEF InHand
    <3>3. ts[s] \in 0..lines
      BY DEF TypeInv, ClientTypeOK, RunTypes
    <3> QED BY <3>2, <3>3
  <2>2. CASE l \in Earlier
    <3>1. l \in Line /\ l.stream \in Streams /\ l.ts <= ts[l.stream] /\ l.ts \in Nat
      BY <2>2, ConstantTypes DEF Earlier, Line
    <3>2. ts[l.stream] \in 0..lines /\ lines \in Nat
      BY <3>1, ConstantTypes DEF TypeInv, ClientTypeOK, RunTypes
    <3> QED BY <3>1, <3>2
  <2>3. l \in Held \/ l \in Earlier
    BY DEF Own, ToSet, BufferedInOrder, ReadBefore
  <2> QED BY <2>1, <2>2, <2>3
<1> QED BY <1>1, <1>2, <1>3

\* Lines that only leave the places where they are stay in one place.
LEMMA OnePlaceKept ==
  ASSUME OnePlace, UNCHANGED <<lines, received>>, Own' \subseteq Own,
         \A k \in Links : (Sent(k)' \subseteq Sent(k)) /\ OnceIn(pipe'[k])
  PROVE  OnePlace'
<1>1. Lines(received') = Lines(received) /\ (OnceIn(received) => OnceIn(received'))
  BY DEF Lines, OnceIn
<1>2. Own' \cap Lines(received') = {} /\ OnceIn(received')
  BY <1>1 DEF OnePlace
<1>3. ASSUME NEW k \in Links
      PROVE  /\ Own' \cap Sent(k)' = {} /\ Sent(k)' \cap Lines(received') = {} /\ OnceIn(pipe'[k])
             /\ \A m \in Links \ {k} : Sent(k)' \cap Sent(m)' = {}
  BY <1>1 DEF OnePlace
<1>4. \A l \in Lines(received') \cup UNION {Sent(k)' : k \in Links} : l.ts <= lines'
  BY <1>1 DEF OnePlace
<1> QED BY <1>2, <1>3, <1>4 DEF OnePlace, OnceIn, Lines

\* A line that the client has is written to a connection, once.
LEMMA OnePlaceWritten ==
  ASSUME TypeInv, BufferedInOrder, OnePlace, UNCHANGED <<lines, received>>,
         NEW k \in Links, NEW l \in Own, Own' \subseteq Own \ {l}, Encode(k, LogMessage(l))
  PROVE  /\ OnePlace'
         /\ Sent(k)' = Sent(k) \cup {l} /\ \A m \in Links \ {k} : Sent(m)' = Sent(m)
<1> DEFINE q == pipe[k]
           m == LogMessage(l)
<1>1. q \in Seq(Message) /\ m \in Message /\ "line" \in DOMAIN m /\ m.line = l
  BY LinesOnTheWay, LineTypes, CarriesLine DEF TypeInv, ClientTypeOK, PipeTypes
<1>2. pipe'[k] = Append(q, m) /\ \A j \in Links \ {k} : pipe'[j] = pipe[j]
  BY DEF Encode, TypeInv, ClientTypeOK, PipeTypes
<1> HIDE DEF q, m
<1>3. l \notin Lines(q) /\ OnceIn(q)
  BY DEF OnePlace, Sent, q
<1>4. Lines(Append(q, m)) = Lines(q) \cup {l} /\ OnceIn(Append(q, m))
  BY <1>1, <1>3, LinesAppend
<1>5. Sent(k)' = Sent(k) \cup {l} /\ OnceIn(pipe'[k])
  BY <1>2, <1>4 DEF Sent, Lines, q
<1>6. \A j \in Links \ {k} : Sent(j)' = Sent(j) /\ OnceIn(pipe'[j])
  BY <1>2 DEF Sent, Lines, OnePlace
<1>7. Lines(received') = Lines(received) /\ OnceIn(received')
  BY DEF Lines, OnceIn, OnePlace
<1>8. Own' \cap Lines(received') = {}
  BY <1>7 DEF OnePlace
<1>9. ASSUME NEW j \in Links
      PROVE  /\ Own' \cap Sent(j)' = {} /\ Sent(j)' \cap Lines(received') = {} /\ OnceIn(pipe'[j])
             /\ \A i \in Links \ {j} : Sent(j)' \cap Sent(i)' = {}
  BY <1>5, <1>6, <1>7 DEF OnePlace
<1>10. \A x \in Lines(received') \cup UNION {Sent(j)' : j \in Links} : x.ts <= lines'
  <2>1. l.ts <= lines
    BY LinesOnTheWay
  <2> QED BY <1>5, <1>6, <1>7, <2>1 DEF OnePlace
<1> QED BY <1>5, <1>6, <1>7, <1>8, <1>9, <1>10 DEF OnePlace, OnceIn, Lines

\* The lines a scanner and the loop work on, and what else the client has.
LEMMA InHandOnce ==
  ASSUME TypeInv, BufferedInOrder, NEW s \in Streams, scanner[s] \in {"send", "push"}
  PROVE  InHand(s) \in Held /\ InHand(s) \notin ToSet(buffer) /\ InHand(s) \notin ToSet(flushing)
<1>1. InHand(s) \in Held
  BY DEF Held
<1>2. InHand(s).stream = s /\ InHand(s).ts = ts[s] /\ ts[s] \in 0..lines
  BY DEF InHand, TypeInv, ClientTypeOK, RunTypes
<1>3. InHand(s) \notin Earlier
  <2>1. ~(ts[s] < ts[s])
    BY <1>2
  <2> QED BY <1>2, <2>1 DEF Earlier
<1> QED BY <1>1, <1>3 DEF ToSet, BufferedInOrder, ReadBefore

\* Taking the head of a list without copies.
LEMMA HeadOnce ==
  ASSUME TypeInv, BufferedInOrder, flushing # <<>>
  PROVE  /\ Head(flushing) \in ToSet(flushing) /\ Head(flushing) \notin Held
         /\ Head(flushing) \notin ToSet(buffer) /\ Head(flushing) \notin ToSet(Tail(flushing))
         /\ ToSet(Tail(flushing)) \subseteq ToSet(flushing)
<1> DEFINE h == Head(flushing)
<1>1. flushing \in Seq(Line) /\ flushing # <<>>
  BY DEF TypeInv, ClientTypeOK, QueueTypes
<1>2. h = flushing[1] /\ 1 \in DOMAIN flushing /\ h \in Line
  BY <1>1, HeadTailProperties
<1>3. \A i \in DOMAIN Tail(flushing) : i + 1 \in DOMAIN flushing /\ Tail(flushing)[i] = flushing[i + 1] /\ 1 < i + 1
  BY <1>1, TailOrder, LenProperties
<1>4. h.ts \in Nat
  BY <1>2, ConstantTypes DEF Line
<1> HIDE DEF h
<1>5. h \in ToSet(flushing) /\ h \in Earlier
  BY <1>2 DEF ToSet, BufferedInOrder, ReadBefore
<1>6. h \notin Held
  <2> SUFFICES ASSUME NEW s \in Streams, scanner[s] \in {"send", "push"}, h = InHand(s) PROVE FALSE
    BY DEF Held
  <2>1. h.stream = s /\ h.ts = ts[s]
    BY DEF InHand
  <2> QED BY <1>4, <1>5, <2>1 DEF Earlier
<1>7. h \notin ToSet(buffer)
  BY <1>2, <1>4 DEF ToSet, BufferedInOrder, Older
<1>8. h \notin ToSet(Tail(flushing))
  BY <1>2, <1>3, <1>4 DEF ToSet, BufferedInOrder, InOrder
<1>9. ToSet(Tail(flushing)) \subseteq ToSet(flushing)
  BY <1>3 DEF ToSet
<1> QED BY <1>5, <1>6, <1>7, <1>8, <1>9 DEF h

\* What the client has after a step of a scanner.
LEMMA OwnScanner ==
  ASSUME TypeInv, BufferedInOrder, NEW s \in Streams
  PROVE  /\ Scan(s) => Own' = Own \cup {[stream |-> s, ts |-> lines + 1]}
         /\ EndOfOutput(s) \/ PushLine(s) \/ Trigger(s) => Own' \subseteq Own
         /\ SendLog(s) => Own' \subseteq Own
         /\ SendLog(s) /\ scanner'[s] = "read" => Own' \subseteq Own \ {InHand(s)}
<1> DEFINE busy == {t \in Streams : scanner[t] \in {"send", "push"}}
<1>1. /\ scanner \in [Streams -> {"read", "send", "push", "trigger", "eof"}] /\ ts \in [Streams -> 0..lines]
      /\ buffer \in Seq(Line) /\ flushing \in Seq(Line)
  BY DEF TypeInv, ClientTypeOK, RunTypes, QueueTypes
<1>2. \A t \in Streams : InHand(t) = [stream |-> t, ts |-> ts[t]] /\ InHand(t)' = [stream |-> t, ts |-> ts'[t]]
  BY DEF InHand
<1>3. /\ Held = {InHand(t) : t \in busy}
      /\ Held' = {InHand(t)' : t \in {u \in Streams : scanner'[u] \in {"send", "push"}}}
  BY DEF Held
<1>4. CASE Scan(s)
  <2>1. /\ scanner[s] = "read" /\ scanner' = [scanner EXCEPT ![s] = "send"] /\ ts' = [ts EXCEPT ![s] = lines + 1]
        /\ UNCHANGED <<buffer, flushing>>
    BY <1>4 DEF Scan, loopVars
  <2>2. InHand(s)' = [stream |-> s, ts |-> lines + 1] /\ scanner'[s] = "send"
    BY <1>1, <1>2, <2>1
  <2>3. \A t \in Streams \ {s} : InHand(t)' = InHand(t) /\ scanner'[t] = scanner[t]
    BY <1>1, <1>2, <2>1
  <2>4. Held' = Held \cup {[stream |-> s, ts |-> lines + 1]}
    BY <1>3, <2>1, <2>2, <2>3
  <2>5. Own' = Own \cup {[stream |-> s, ts |-> lines + 1]}
    BY <2>1, <2>4 DEF Own
  <2>6. ~(EndOfOutput(s) \/ PushLine(s) \/ Trigger(s) \/ SendLog(s))
    BY <2>1, <2>2 DEF EndOfOutput, PushLine, Trigger, SendLog
  <2> QED BY <2>5, <2>6
<1>5. CASE EndOfOutput(s) \/ Trigger(s)
  <2>1. ts' = ts /\ scanner[s] \in {"read", "trigger"} /\ UNCHANGED <<buffer, flushing>> /\ scanner'[s] \in {"read", "eof"}
        /\ \A t \in Streams \ {s} : scanner'[t] = scanner[t]
    BY <1>1, <1>5 DEF EndOfOutput, Trigger, loopVars
  <2>2. Held' \subseteq Held
    BY <1>2, <1>3, <2>1
  <2>3. ~SendLog(s) /\ ~Scan(s)
    BY <1>1, <2>1 DEF SendLog, Scan
  <2> QED BY <2>1, <2>2, <2>3 DEF Own
<1>6. CASE PushLine(s)
  <2>1. /\ ts' = ts /\ scanner[s] = "push" /\ buffer' = Newest(Append(buffer, InHand(s))) /\ flushing' = flushing
        /\ scanner'[s] = "trigger" /\ \A t \in Streams \ {s} : scanner'[t] = scanner[t]
    BY <1>1, <1>6 DEF PushLine, loopVars
  <2>2. InHand(s) \in Line /\ InHand(s) \in Held
    BY <2>1, LineTypes DEF Held
  <2>3. Held' \subseteq Held
    BY <1>2, <1>3, <2>1
  <2>4. Older(buffer, <<InHand(s)>>)
    <3>1. DOMAIN <<InHand(s)>> = {1} /\ <<InHand(s)>>[1] = InHand(s)
      OBVIOUS
    <3>2. InHand(s).stream = s /\ InHand(s).ts = ts[s]
      BY DEF InHand
    <3> QED BY <2>1, <3>1, <3>2 DEF BufferedInOrder, ReadBefore, Older, Earlier
  <2>5. \A i \in DOMAIN buffer' : buffer'[i] = InHand(s) \/ \E j \in DOMAIN buffer : buffer'[i] = buffer[j]
    BY <1>1, <2>1, <2>2, <2>4, NewestOrder DEF BufferedInOrder
  <2>6. ToSet(buffer') \subseteq ToSet(buffer) \cup {InHand(s)}
    BY <2>5 DEF ToSet
  <2>7. ~SendLog(s) /\ ~Scan(s)
    BY <2>1 DEF SendLog, Scan
  <2> QED BY <2>1, <2>2, <2>3, <2>6, <2>7 DEF Own, ToSet
<1>7. CASE SendLog(s)
  <2>1. /\ ts' = ts /\ scanner[s] = "send" /\ UNCHANGED <<buffer, flushing>>
        /\ scanner'[s] \in {"read", "push"} /\ \A t \in Streams \ {s} : scanner'[t] = scanner[t]
    BY <1>1, <1>7 DEF SendLog, loopVars
  <2>2. Held' \subseteq Held
    BY <1>2, <1>3, <2>1
  <2>3. Own' \subseteq Own
    BY <2>1, <2>2 DEF Own
  <2>4. ASSUME scanner'[s] = "read" PROVE InHand(s) \notin Own'
    <3>1. InHand(s) \notin ToSet(buffer) /\ InHand(s) \notin ToSet(flushing)
      BY <2>1, InHandOnce
    <3>2. \A t \in Streams \ {s} : InHand(t)' # InHand(s)
      <4>1. \A t \in Streams : InHand(t)'.stream = t /\ InHand(t).stream = t
        BY <1>2
      <4> QED BY <4>1
    <3>3. InHand(s) \notin Held'
      BY <1>3, <2>4, <3>2
    <3> QED BY <2>1, <3>1, <3>3 DEF Own
  <2>5. ~Scan(s) /\ ~EndOfOutput(s) /\ ~PushLine(s) /\ ~Trigger(s)
    BY <2>1 DEF Scan, EndOfOutput, PushLine, Trigger
  <2> QED BY <2>3, <2>4, <2>5
<1> QED BY <1>4, <1>5, <1>6, <1>7

\* What the client has after a step of another process.
LEMMA OwnOthers ==
  ASSUME TypeInv, BufferedInOrder
  PROVE  /\ RunStep \/ ProcessEnds \/ LoopStep \/ BrokerStep \/ UNCHANGED vars => Own' \subseteq Own
         /\ FlushLine /\ flushing' = Tail(flushing) => Own' \subseteq Own \ {Head(flushing)}
<1>1. buffer \in Seq(Line) /\ flushing \in Seq(Line) /\ (loop \in {"lock", "flush"} <=> flushing # <<>>)
  BY DEF TypeInv, ClientTypeOK, QueueTypes, GoroutinesInStep
<1>2. ASSUME UNCHANGED <<scanner, ts>> PROVE Held' = Held
  BY <1>2 DEF Held, InHand
<1>3. ToSet(<<>>) = {}
  BY EmptyQueue DEF ToSet
<1>4. ASSUME RunStep \/ ProcessEnds PROVE Own' \subseteq Own
  <2>1. UNCHANGED <<scanner, ts>> /\ (UNCHANGED <<buffer, flushing>> \/ (buffer' = <<>> /\ flushing' = <<>>))
    BY <1>4, RunStepFrame DEF ProcessEnds
  <2> QED BY <1>2, <1>3, <2>1 DEF Own
<1>5. ASSUME BrokerStep \/ UNCHANGED vars PROVE Own' \subseteq Own
  <2>1. UNCHANGED <<scanner, ts, buffer, flushing>>
    BY <1>5, BrokerFrame DEF vars, runVars, loopVars
  <2> QED BY <1>2, <2>1 DEF Own
<1>6. ASSUME LoopStep PROVE Own' \subseteq Own
  <2>1. Held' = Held
    BY <1>2, <1>6, LoopFrame DEF runVars
  <2>2. CASE Drain
    <3>1. buffer' = <<>> /\ flushing' = buffer
      BY <2>2 DEF Drain
    <3> QED BY <1>3, <2>1, <3>1 DEF Own
  <2>3. CASE FlushLine
    <3>1. buffer' = buffer /\ flushing' \in {<<>>, Tail(flushing)} /\ flushing # <<>>
      BY <1>1, <2>3 DEF FlushLine
    <3>2. ToSet(Tail(flushing)) \subseteq ToSet(flushing)
      BY <3>1, HeadOnce
    <3> QED BY <1>3, <2>1, <3>1, <3>2 DEF Own
  <2>4. CASE ~Drain /\ ~FlushLine
    <3>1. UNCHANGED <<buffer, flushing>>
      BY <1>6, <2>4 DEF LoopStep, CloseOld, EnsureAgain, DialAgain, RegisterAgain, ReadResponseAgain, Swap, Finish
    <3> QED BY <2>1, <3>1 DEF Own
  <2> QED BY <2>2, <2>3, <2>4
<1>7. ASSUME FlushLine, flushing' = Tail(flushing) PROVE Own' \subseteq Own \ {Head(flushing)}
  <2>1. buffer' = buffer /\ flushing # <<>> /\ UNCHANGED <<scanner, ts>>
    BY <1>1, <1>7 DEF FlushLine, runVars
  <2> QED BY <1>2, <1>7, <2>1, HeadOnce DEF Own
<1> QED BY <1>4, <1>5, <1>6, <1>7

LEMMA OnePlaceInit == Init => OnePlace
<1> SUFFICES ASSUME Init PROVE OnePlace
  OBVIOUS
<1>1. /\ \A k \in Links : Sent(k) = {} /\ OnceIn(pipe[k])
      /\ Lines(received) = {} /\ OnceIn(received)
  BY EmptyQueue DEF Init, Sent, Lines, OnceIn
<1> QED BY <1>1 DEF OnePlace

\* What the connections carry after a step that writes no line.
LEMMA SentUnlessWritten ==
  ASSUME TypeInv, OnePlace, NEW k \in Links, NEW m \in Message, "line" \notin DOMAIN m,
         Encode(k, m) \/ EncodeFails(k)
  PROVE  \A j \in Links : Sent(j)' \subseteq Sent(j) /\ OnceIn(pipe'[j])
<1> SUFFICES ASSUME NEW j \in Links PROVE Lines(pipe'[j]) \subseteq Lines(pipe[j]) /\ OnceIn(pipe'[j])
  BY DEF Sent, Lines
<1>1. pipe[j] \in Seq(Message) /\ OnceIn(pipe[j]) /\ PipeTypes
  BY DEF TypeInv, ClientTypeOK, PipeTypes, OnePlace
<1>2. CASE pipe'[j] = pipe[j]
  BY <1>1, <1>2
<1>3. CASE pipe'[j] = Append(pipe[j], m)
  BY <1>1, <1>3, LinesAppend
<1> QED BY <1>1, <1>2, <1>3, EncodeTypes

\* A line is read by the broker.
LEMMA OnePlaceRead ==
  ASSUME TypeInv, BufferedInOrder, OnePlace, NEW k \in Links, BrokerReads(k)
  PROVE  /\ OnePlace' /\ Own' = Own
         /\ \/ /\ Lines(received') = Lines(received)
               /\ \A j \in Links : Sent(j)' \subseteq Sent(j)
            \/ \E l \in Sent(k) : /\ Lines(received') = Lines(received) \cup {l}
                                 /\ Sent(k)' = Sent(k) \ {l} /\ \A j \in Links \ {k} : Sent(j)' = Sent(j)
<1> DEFINE m == Head(pipe[k])
           r == [line |-> m.line, session |-> m.session, conn |-> k]
<1>1. /\ pipe[k] \in Seq(Message) /\ pipe[k] # <<>> /\ m \in Message /\ pipe' = [pipe EXCEPT ![k] = Tail(@)]
      /\ pipe \in [Links -> Seq(Message)] /\ received \in Seq(Record) /\ UNCHANGED <<runVars, buffer, loopVars>>
  BY MessageRead DEF BrokerReads, TypeInv, ClientTypeOK, PipeTypes
<1>2. lines' = lines /\ Own' = Own
  BY <1>1 DEF runVars, loopVars, Own, Held, InHand
<1>3. pipe'[k] = Tail(pipe[k]) /\ \A j \in Links \ {k} : pipe'[j] = pipe[j]
  BY <1>1
<1>4. OnceIn(pipe[k])
  BY DEF OnePlace
<1>5. \A j \in Links : (Sent(j)' \subseteq Sent(j)) /\ OnceIn(pipe'[j])
  <2>1. Lines(pipe'[k]) \subseteq Lines(pipe[k]) /\ OnceIn(pipe'[k])
    BY <1>1, <1>3, <1>4, LinesTail
  <2>2. \A j \in Links : OnceIn(pipe[j])
    BY DEF OnePlace
  <2> QED BY <1>3, <2>1, <2>2 DEF Sent
<1>6. CASE received' = received
  <2>1. OnePlace'
    BY <1>2, <1>5, <1>6, OnePlaceKept
  <2> QED BY <1>2, <1>5, <1>6, <2>1 DEF Lines
<1>7. CASE received' # received
  <2>1. m.type = "log" /\ m.line \in Line /\ m.session \in Nat /\ received' = Append(received, r)
    BY <1>7, MessageRead
  <2>2. "line" \in DOMAIN m
    BY <1>1, <2>1, CarriesLine
  <2> DEFINE l == m.line
  <2>3. /\ Lines(pipe[k]) = Lines(pipe'[k]) \cup {l} /\ l \notin Lines(pipe'[k])
    BY <1>1, <1>3, <1>4, <2>2, LinesTail
  <2>4. r \in Record /\ r.line = l
    BY <2>1 DEF Record
  <2> HIDE DEF r, m
  <2>5. l \in Sent(k) /\ Sent(k)' = Sent(k) \ {l} /\ \A j \in Links \ {k} : Sent(j)' = Sent(j)
    BY <1>3, <2>3 DEF Sent
  <2>6. l \notin Lines(received) /\ l \notin Own /\ \A j \in Links : l \notin Sent(j)'
    BY <2>5 DEF OnePlace
  <2>7. Lines(received') = Lines(received) \cup {l} /\ OnceIn(received')
    BY <1>1, <2>1, <2>4, <2>6, CarriesLine, LinesAppend DEF OnePlace
  <2>8. Own' \cap Lines(received') = {}
    BY <1>2, <2>6, <2>7 DEF OnePlace
  <2>9. ASSUME NEW j \in Links
        PROVE  /\ Own' \cap Sent(j)' = {} /\ Sent(j)' \cap Lines(received') = {} /\ OnceIn(pipe'[j])
               /\ \A i \in Links \ {j} : Sent(j)' \cap Sent(i)' = {}
    BY <1>2, <1>5, <2>6, <2>7 DEF OnePlace
  <2>10. \A x \in Lines(received') \cup UNION {Sent(j)' : j \in Links} : x.ts <= lines'
    BY <1>2, <1>5, <2>5, <2>7 DEF OnePlace
  <2>11. OnePlace'
    BY <2>7, <2>8, <2>9, <2>10 DEF OnePlace, OnceIn, Lines
  <2> QED BY <1>2, <2>5, <2>7, <2>11
<1> QED BY <1>6, <1>7

\* A connection that breaks loses its lines.
LEMMA SentAfterBreak ==
  ASSUME OnePlace, \A k \in Links : pipe'[k] \in {pipe[k], <<>>}
  PROVE  \A k \in Links : Sent(k)' \subseteq Sent(k) /\ OnceIn(pipe'[k])
<1>1. Lines(<<>>) = {} /\ OnceIn(<<>>)
  BY EmptyQueue DEF Lines, OnceIn
<1>2. \A k \in Links : OnceIn(pipe[k])
  BY DEF OnePlace
<1> QED BY <1>1, <1>2 DEF Sent

\* A step of the client seen from the lines: it reads a new one, moves one, or loses some.
Reads(l) == /\ Own' = Own \cup {l} /\ UNCHANGED <<pipe, received>>
            /\ l \notin Own \cup Lines(received) \cup UNION {Sent(k) : k \in Links}
Writes(l) == /\ l \in Own /\ Own' \subseteq Own /\ UNCHANGED received
             /\ \E k \in Links : Sent(k)' = Sent(k) \cup {l} /\ \A j \in Links \ {k} : Sent(j)' = Sent(j)
Loses == Own' \subseteq Own /\ UNCHANGED received /\ \A k \in Links : Sent(k)' \subseteq Sent(k)
Receives ==
  /\ Own' = Own
  /\ \/ Lines(received') = Lines(received) /\ \A j \in Links : Sent(j)' \subseteq Sent(j)
     \/ \E k \in Links : \E l \in Sent(k) :
          /\ Lines(received') = Lines(received) \cup {l}
          /\ Sent(k)' = Sent(k) \ {l} /\ \A j \in Links \ {k} : Sent(j)' = Sent(j)

\* A step that keeps or loses lines.
LEMMA LosingStep ==
  ASSUME OnePlace, UNCHANGED <<lines, received>>, Own' \subseteq Own,
         \A k \in Links : (Sent(k)' \subseteq Sent(k)) /\ OnceIn(pipe'[k])
  PROVE  OnePlace' /\ Loses
  BY OnePlaceKept DEF Loses

\* Every step is of one of these kinds, and keeps every line in one place.
LEMMA OnePlaceStep ==
  ASSUME TypeInv, BufferedInOrder, OnePlace, Step
  PROVE  OnePlace' /\ (Loses \/ Receives \/ \E l \in Line : Reads(l) \/ Writes(l))
<1> DEFINE Goal == OnePlace' /\ (Loses \/ Receives \/ \E l \in Line : Reads(l) \/ Writes(l))
<1>1. \A k \in Links : (pipe' = pipe) => (Sent(k)' \subseteq Sent(k)) /\ OnceIn(pipe'[k])
  BY DEF Sent, OnePlace
<1>2. ASSUME pipe' = pipe, UNCHANGED <<lines, received>>, Own' \subseteq Own PROVE Goal
  BY <1>1, <1>2, LosingStep
<1>3. ASSUME NEW k \in Links, NEW m \in {SessionStart, SessionEnd}, Encode(k, m) \/ EncodeFails(k),
             UNCHANGED <<lines, received>>, Own' \subseteq Own
      PROVE  Goal
  <2>1. \A j \in Links : (Sent(j)' \subseteq Sent(j)) /\ OnceIn(pipe'[j])
    BY <1>3, SentUnlessWritten, LineTypes, CarriesLine
  <2> QED BY <1>3, <2>1, LosingStep
<1>4. CASE RunStep \/ ProcessEnds
  <2>1. Own' \subseteq Own /\ UNCHANGED <<lines, received>>
    BY <1>4, OwnOthers, RunStepFrame
  <2>2. CASE RegisterSession \/ EndSession
    <3>1. current \in Links
      BY <2>2, Dialled DEF RegisterSession, EndSession
    <3>2. \E m \in {SessionStart, SessionEnd} : Encode(current, m) \/ EncodeFails(current)
      BY <2>2 DEF RegisterSession, EndSession
    <3> QED BY <1>3, <2>1, <3>1, <3>2
  <2>3. CASE Ensure \/ Connect \/ ReadResponse \/ ProcessEnds
    <3>1. pipe' = pipe
      BY <2>3 DEF Ensure, Connect, ReadResponse, ProcessEnds, netVars
    <3> QED BY <1>2, <2>1, <3>1
  <2> QED BY <1>4, <2>2, <2>3 DEF RunStep, Exit
<1>5. ASSUME NEW s \in Streams, Scan(s) PROVE Goal
  <2> DEFINE l == [stream |-> s, ts |-> lines + 1]
  <2>1. UNCHANGED <<pipe, received>> /\ lines' = lines + 1 /\ lines < MaxLines /\ lines \in Nat
    BY <1>5, ConstantTypes DEF Scan, netVars, TypeInv, ClientTypeOK, RunTypes
  <2>2. Own' = Own \cup {l} /\ l.ts = lines + 1
    BY <1>5, OwnScanner
  <2>3. l \in Line
    BY <2>1, ConstantTypes DEF Line
  <2> HIDE DEF l
  <2>4. l \notin Own /\ l \notin Lines(received) /\ \A k \in Links : l \notin Sent(k)
    <3>1. ~(l.ts <= lines)
      BY <2>1, <2>2
    <3> QED BY <3>1, LinesOnTheWay DEF OnePlace
  <2>5. \A k \in Links : Sent(k)' = Sent(k) /\ OnceIn(pipe'[k])
    BY <2>1 DEF Sent, OnePlace
  <2>6. \A x \in Lines(received') \cup UNION {Sent(k)' : k \in Links} : x.ts <= lines'
    <3> SUFFICES ASSUME NEW x \in Lines(received) \cup UNION {Sent(k) : k \in Links} PROVE x.ts <= lines + 1
      BY <2>1, <2>5
    <3>1. x \in Line /\ x.ts <= lines
      BY LinesOnTheWay DEF OnePlace
    <3>2. x.ts \in Nat
      BY <3>1, ConstantTypes DEF Line
    <3> QED BY <2>1, <3>1, <3>2
  <2>7. OnePlace'
    <3>1. Own' \cap Lines(received') = {} /\ OnceIn(received')
      BY <2>1, <2>2, <2>4 DEF OnePlace
    <3>2. ASSUME NEW k \in Links
          PROVE  /\ Own' \cap Sent(k)' = {} /\ Sent(k)' \cap Lines(received') = {} /\ OnceIn(pipe'[k])
                 /\ \A m \in Links \ {k} : Sent(k)' \cap Sent(m)' = {}
      BY <2>1, <2>2, <2>4, <2>5 DEF OnePlace
    <3> QED BY <2>6, <3>1, <3>2 DEF OnePlace, OnceIn, Lines
  <2> QED BY <2>1, <2>2, <2>3, <2>4, <2>7 DEF Reads
\* A line in the hand of a scanner or drained is written.
<1>6. ASSUME NEW l \in Own, NEW k \in Links, Encode(k, LogMessage(l)), Own' \subseteq Own \ {l}, UNCHANGED <<lines, received>>
      PROVE  Goal
  <2>1. l \in Line
    BY LinesOnTheWay
  <2> QED BY <1>6, <2>1, OnePlaceWritten DEF Writes
<1>7. ASSUME NEW s \in Streams, SendLog(s) PROVE Goal
  <2>1. scanner[s] = "send" /\ current \in Links /\ UNCHANGED <<lines, received>> /\ s \in DOMAIN scanner
    BY <1>7, Dialled DEF SendLog, TypeInv, ClientTypeOK, RunTypes
  <2>2. CASE Encode(current, LogMessage(InHand(s))) /\ scanner' = [scanner EXCEPT ![s] = "read"]
    <3>1. InHand(s) \in Own
      BY <2>1, InHandOnce DEF Own
    <3>2. Own' \subseteq Own \ {InHand(s)}
      BY <1>7, <2>1, <2>2, OwnScanner
    <3> QED BY <1>6, <2>1, <2>2, <3>1, <3>2
  <2>3. CASE EncodeFails(current)
    BY <1>2, <1>7, <2>1, <2>3, OwnScanner DEF EncodeFails
  <2> QED BY <1>7, <2>2, <2>3 DEF SendLog
<1>8. ASSUME NEW s \in Streams, EndOfOutput(s) \/ PushLine(s) \/ Trigger(s) PROVE Goal
  <2>1. UNCHANGED <<lines, pipe, received>>
    BY <1>8 DEF EndOfOutput, PushLine, Trigger, netVars
  <2> QED BY <1>2, <1>8, <2>1, OwnScanner
<1>9. CASE LoopStep
  <2>1. Own' \subseteq Own /\ UNCHANGED <<lines, received>>
    BY <1>9, OwnOthers, LoopFrame DEF runVars
  <2>2. CASE RegisterAgain
    BY <1>3, <2>1, <2>2, Dialled DEF RegisterAgain
  <2>3. CASE FlushLine
    <3>1. flushing # <<>> /\ current \in Links
      BY <2>3, Dialled DEF FlushLine, TypeInv, GoroutinesInStep
    <3>2. CASE Encode(current, LogMessage(Head(flushing))) /\ flushing' = Tail(flushing)
      <4>1. Head(flushing) \in Own
        BY <3>1, HeadOnce DEF Own
      <4>2. Own' \subseteq Own \ {Head(flushing)}
        BY <2>3, <3>2, OwnOthers
      <4> QED BY <1>6, <2>1, <3>1, <3>2, <4>1, <4>2
    <3>3. CASE EncodeFails(current)
      BY <1>2, <2>1, <3>3 DEF EncodeFails
    <3> QED BY <2>3, <3>2, <3>3 DEF FlushLine
  <2>4. CASE ~RegisterAgain /\ ~FlushLine
    <3>1. pipe' = pipe
      BY <1>9, <2>4 DEF LoopStep, CloseOld, EnsureAgain, DialAgain, ReadResponseAgain, Swap, Drain, Finish, netVars
    <3> QED BY <1>2, <2>1, <3>1
  <2> QED BY <2>2, <2>3, <2>4
<1>10. ASSUME NEW k \in Links, BrokerReads(k) PROVE Goal
  BY <1>10, OnePlaceRead DEF Receives
<1>11. ASSUME BrokerStarts \/ BrokerDies \/ (\E k \in Links : BrokerDrops(k)) \/ UNCHANGED vars PROVE Goal
  <2>1. Own' \subseteq Own
    BY <1>11, OwnOthers DEF BrokerStep
  <2>2. UNCHANGED <<lines, received>>
    BY <1>11 DEF BrokerStarts, BrokerDies, BrokerDrops, vars, runVars, netVars
  <2>3. \A k \in Links : pipe'[k] \in {pipe[k], <<>>}
    BY <1>11 DEF BrokerStarts, BrokerDies, BrokerDrops, vars, netVars, TypeInv, ClientTypeOK, PipeTypes
  <2> QED BY <2>1, <2>2, <2>3, SentAfterBreak, LosingStep
<1> QED BY <1>4, <1>5, <1>7, <1>8, <1>9, <1>10, <1>11 DEF Step, Next, BrokerStep, ScannerStep

\* A line is in one place.
LEMMA OnePlaceInvariant == Spec => []OnePlace
<1>1. TypeInv /\ BufferedInOrder /\ OnePlace /\ [Next]_vars => OnePlace'
  BY OnePlaceStep DEF Step
<1> QED BY <1>1, OnePlaceInit, TypeInvariant, OrderInvariant, PTL DEF Spec

LEMMA OnePlaceImplies == TypeInv /\ OnePlace => NoCopies
<1> SUFFICES ASSUME TypeInv, OnePlace, NEW i \in DOMAIN received, NEW j \in DOMAIN received, i # j
             PROVE  received[i].line # received[j].line
  BY DEF NoCopies
<1>1. received \in Seq(Record)
  BY DEF TypeInv, ClientTypeOK, PipeTypes
<1>2. received[i] \in Record /\ received[j] \in Record
  BY <1>1, ElementOfSeq, LenProperties
<1> QED BY <1>2, CarriesLine DEF OnePlace, OnceIn

\* No line is received twice: what a failed write, the buffer and a reconnect do to a line
\* never makes a copy of it.
THEOREM ReceivedOnce == Spec => []NoCopies
  BY TypeInvariant, OnePlaceInvariant, OnePlaceImplies, PTL

-----------------------------------------------------------------------------
(* The client implements AtMostOnce.                                         *)

Pending == Own \cup UNION {Sent(k) : k \in Links}
Arrived == Lines(received)

\* The sets that the refinement mapping of Client gives to the abstract variables.
LEMMA Mapping ==
  /\ Arrivals!Init <=> Pending = {} /\ Arrived = {}
  /\ \A x : Arrivals!Read(x) <=>
       x \notin Pending \cup Arrived /\ Pending' = Pending \cup {x} /\ Arrived' = Arrived
  /\ \A x : Arrivals!Arrive(x) <=>
       x \in Pending /\ Pending' = Pending \ {x} /\ Arrived' = Arrived \cup {x}
  /\ \A xs : Arrivals!Lose(xs) <=>
       xs \subseteq Pending /\ Pending' = Pending \ xs /\ Arrived' = Arrived
  /\ Arrivals!Next <=> \/ \E x \in Line : Arrivals!Read(x) \/ Arrivals!Arrive(x)
                       \/ \E xs \in SUBSET Pending : Arrivals!Lose(xs)
<1> USE DEF Pending, Arrived, Own, Held, Sent
<1>1. Arrivals!Init <=> Pending = {} /\ Arrived = {}
  BY DEF Arrivals!Init
<1>2. \A x : Arrivals!Read(x) <=>
        x \notin Pending \cup Arrived /\ Pending' = Pending \cup {x} /\ Arrived' = Arrived
  BY DEF Arrivals!Read
<1>3. \A x : Arrivals!Arrive(x) <=>
        x \in Pending /\ Pending' = Pending \ {x} /\ Arrived' = Arrived \cup {x}
  BY DEF Arrivals!Arrive
<1>4. \A xs : Arrivals!Lose(xs) <=>
        xs \subseteq Pending /\ Pending' = Pending \ xs /\ Arrived' = Arrived
  BY DEF Arrivals!Lose
<1>5. Arrivals!Next <=> \/ \E x \in Line : Arrivals!Read(x) \/ Arrivals!Arrive(x)
                        \/ \E xs \in SUBSET Pending : Arrivals!Lose(xs)
  BY DEF Arrivals!Next
<1> QED BY <1>1, <1>2, <1>3, <1>4, <1>5

LEMMA RefinementInit == Init => Arrivals!Init
<1> SUFFICES ASSUME Init PROVE Pending = {} /\ Arrived = {}
  BY Mapping
<1>1. ToSet(<<>>) = {} /\ Lines(<<>>) = {}
  BY EmptyQueue DEF ToSet, Lines
<1>2. Own = {}
  BY <1>1 DEF Init, Own, Held
<1>3. \A k \in Links : Sent(k) = {}
  BY <1>1 DEF Init, Sent
<1> QED BY <1>1, <1>2, <1>3 DEF Init, Pending, Arrived

\* A step of the client is one of AtMostOnce, or changes nothing of it.
LEMMA RefinementStep ==
  ASSUME TypeInv, BufferedInOrder, OnePlace, Step
  PROVE  Arrivals!Next
<1>1. Arrived' = Lines(received')
  BY DEF Arrived
<1>2. ASSUME Pending' \subseteq Pending, Arrived' = Arrived PROVE Arrivals!Next
  <2>1. PICK xs : xs = Pending \ Pending'
    OBVIOUS
  <2>2. xs \in SUBSET Pending /\ Arrivals!Lose(xs)
    BY <1>2, <2>1, Mapping
  <2> QED BY <2>2, Mapping
<1>3. CASE Loses
  <2>1. Pending' \subseteq Pending
    BY <1>3 DEF Loses, Pending
  <2>2. Arrived' = Arrived
    BY <1>3 DEF Loses, Arrived
  <2> QED BY <1>2, <2>1, <2>2
<1>4. ASSUME NEW l \in Line, Writes(l) PROVE Arrivals!Next
  <2>1. Pending' \subseteq Pending
    BY <1>4 DEF Writes, Pending
  <2>2. Arrived' = Arrived
    BY <1>4 DEF Writes, Arrived
  <2> QED BY <1>2, <2>1, <2>2
<1>5. ASSUME NEW l \in Line, Reads(l) PROVE Arrivals!Next
  <2>1. \A k \in Links : Sent(k)' = Sent(k)
    BY <1>5 DEF Reads, Sent
  <2>2. Pending' = Pending \cup {l} /\ Arrived' = Arrived
    BY <1>5, <2>1 DEF Reads, Pending, Arrived
  <2>3. l \notin Pending \cup Arrived
    BY <1>5 DEF Reads, Pending, Arrived
  <2>4. Arrivals!Read(l)
    BY <2>2, <2>3, Mapping
  <2> QED BY <2>4, Mapping
<1>6. CASE Receives
  <2>1. CASE Arrived' = Arrived /\ \A k \in Links : Sent(k)' \subseteq Sent(k)
    <3>1. Pending' \subseteq Pending
      BY <1>6, <2>1 DEF Receives, Pending
    <3> QED BY <1>2, <2>1, <3>1
  <2>2. ASSUME NEW k \in Links, NEW l \in Sent(k), Arrived' = Arrived \cup {l},
               Sent(k)' = Sent(k) \ {l}, \A j \in Links \ {k} : Sent(j)' = Sent(j)
        PROVE  Arrivals!Next
    <3>1. l \in Line /\ l \in Pending
      BY LinesOnTheWay DEF Pending
    <3>2. l \notin Own /\ \A j \in Links \ {k} : l \notin Sent(j)
      BY DEF OnePlace
    <3>3. Pending' = Pending \ {l}
      BY <1>6, <2>2, <3>2 DEF Receives, Pending
    <3> QED BY <2>2, <3>1, <3>3, Mapping
  <2> QED BY <1>1, <1>6, <2>1, <2>2 DEF Receives, Arrived
<1> QED BY <1>3, <1>4, <1>5, <1>6, OnePlaceStep

\* For any streams, capacity and failures, what the brokers receive of the child's lines is
\* what AtMostOnce allows.
THEOREM ImplementsArrivals == Spec => ImplementsAtMostOnce
<1>1. TypeInv /\ BufferedInOrder /\ OnePlace /\ [Next]_vars => [Arrivals!Next]_Arrivals!vars
  <2>1. CASE UNCHANGED vars
    BY <2>1 DEF vars, runVars, connVars, loopVars, brokerVars, netVars, Arrivals!vars, InHand
  <2> QED BY <2>1, RefinementStep DEF Step
<1> QED BY <1>1, RefinementInit, TypeInvariant, OrderInvariant, OnePlaceInvariant, PTL
       DEF Spec, ImplementsAtMostOnce, Arrivals!Spec

-----------------------------------------------------------------------------
(* Runner: what is shown above holds of the client with its child as well,   *)
(* and the session ends after the child and its output.                      *)

ChildTypes ==
  /\ child \in {"none", "running", "exited"} /\ killed \in BOOLEAN /\ long \in 0..MaxLong
  /\ stdio \in [Streams -> Seq({"line", "long"})]
  /\ \A s \in Streams : Len(stdio[s]) <= PipeSize
  /\ attached \in [Streams -> BOOLEAN]

\* Nobody has the pipe of s open and nothing is in it, or it is stuck behind an overlong line.
Finished(s) == (stdio[s] = <<>> /\ ~attached[s]) \/ Overlong(s)

\* The child starts after the connection is there, a scanner stops when its stream is finished,
\* and the session ends when the child has exited.
ChildInStep ==
  /\ child = "none" => run \notin {"await", "scan", "close"}
  /\ child # "none" => run \notin {"ensure", "poll", "dial"}
  /\ \A s \in Streams : scanner[s] = "eof" => Finished(s) /\ child # "none"
  /\ run = "close" => child = "exited"
  /\ run = "exited" /\ child # "none" /\ ~killed =>
       child = "exited" /\ \A s \in Streams : scanner[s] = "eof"

RunnerInv == TypeInv /\ ChildTypes /\ ChildInStep

\* With regard to the client, every step here is one of Client, or an end of the process at
\* which no scanner has a line in hand.
LEMMA RunnerStepIsStep ==
  ASSUME TypeInv, [RunnerNext]_runnerVars
  PROVE  Step
<1>1. CASE UNCHANGED vars
  BY <1>1 DEF Step
<1>2. CASE ProcessEnds /\ (run = "register" \/ (run # "exited" /\ ~Forwarding))
  <2>1. run = "scan" => run = "register" \/ \A s \in Streams : scanner[s] = "eof"
    BY <1>2 DEF Forwarding
  <2>2. \A s \in Streams : scanner[s] \in {"read", "send", "push", "trigger", "eof"}
    BY DEF TypeInv, ClientTypeOK, RunTypes
  <2>3. Quiet
    BY <1>2, <2>1, <2>2 DEF Quiet, TypeInv, GoroutinesInStep
  <2> QED BY <1>2, <2>3 DEF Step
<1>3. CASE ChildStep \/ StartChild
  <2>1. UNCHANGED vars
    BY <1>3 DEF ChildStep, Write, CloseStream, ChildExits, StartChild
  <2> QED BY <1>1, <2>1
<1>4. CASE StartFails \/ Killed \/ WaitFails
  BY <1>2, <1>4 DEF StartFails, Killed, WaitFails, Forwarding
<1>5. CASE RunnerRunStep /\ ~StartChild /\ ~StartFails /\ ~WaitFails
  <2>1. RunStep
    BY <1>5 DEF RunnerRunStep, WaitAndEnd, RunStep
  <2> QED BY <2>1 DEF Step, Next
<1>6. ASSUME NEW s \in Streams, ScanLine(s) \/ ScanEnds(s) \/ SendStep(s) PROVE Step
  <2>1. ScannerStep(s)
    BY <1>6 DEF ScanLine, ScanEnds, SendStep, ScannerStep
  <2> QED BY <2>1 DEF Step, Next
<1>7. CASE (LoopStep \/ BrokerStep) /\ UNCHANGED childVars
  BY <1>7 DEF Step, Next
<1> QED BY <1>1, <1>3, <1>4, <1>5, <1>6, <1>7 DEF RunnerNext, runnerVars

LEMMA RunnerInit0 == RunnerInit => RunnerInv
<1> SUFFICES ASSUME RunnerInit PROVE RunnerInv
  OBVIOUS
<1>1. TypeInv
  BY TypeInit DEF RunnerInit
<1>2. ChildTypes
  <2>1. <<>> \in Seq({"line", "long"}) /\ Len(<<>>) = 0
    OBVIOUS
  <2>2. Len(<<>>) <= PipeSize /\ 0 \in 0..MaxLong
    BY <2>1, RunnerAssumption
  <2> QED BY <2>1, <2>2 DEF RunnerInit, ChildTypes
<1>3. ChildInStep
  BY DEF RunnerInit, Init, ChildInStep
<1> QED BY <1>1, <1>2, <1>3 DEF RunnerInv

\* The pipes keep their sizes.
LEMMA ChildTypesStep ==
  ASSUME RunnerInv, [RunnerNext]_runnerVars
  PROVE  ChildTypes'
<1> ChildTypes /\ PipeSize \in Nat /\ MaxLong \in Nat
  BY RunnerAssumption DEF RunnerInv
<1>1. CASE UNCHANGED childVars
  BY <1>1 DEF childVars, ChildTypes
<1>2. ASSUME NEW s \in Streams, Write(s) PROVE ChildTypes'
  <2>1. PICK x \in {"line", "long"} : stdio' = [stdio EXCEPT ![s] = Append(@, x)]
    BY <1>2 DEF Write
  <2>2. /\ Len(stdio[s]) < PipeSize /\ UNCHANGED <<child, attached, killed>>
        /\ long' = long \/ (long' = long + 1 /\ long < MaxLong)
    BY <1>2 DEF Write
  <2>3. /\ Append(stdio[s], x) \in Seq({"line", "long"}) /\ Len(Append(stdio[s], x)) = Len(stdio[s]) + 1
        /\ Len(stdio[s]) \in Nat
    BY AppendProperties, LenProperties DEF ChildTypes
  <2>4. stdio' \in [Streams -> Seq({"line", "long"})] /\ \A t \in Streams : Len(stdio'[t]) <= PipeSize
    BY <2>1, <2>2, <2>3 DEF ChildTypes
  <2>5. long' \in 0..MaxLong
    BY <2>2 DEF ChildTypes
  <2> QED BY <2>2, <2>4, <2>5 DEF ChildTypes
<1>3. ASSUME NEW s \in Streams, CloseStream(s) PROVE ChildTypes'
  BY <1>3 DEF CloseStream, ChildTypes
<1>4. CASE ChildExits \/ StartChild \/ Killed
  BY <1>4 DEF ChildExits, StartChild, Killed, ChildTypes
<1>5. ASSUME NEW s \in Streams, ScanLine(s) PROVE ChildTypes'
  <2>1. /\ stdio[s] # <<>> /\ stdio[s] \in Seq({"line", "long"}) /\ stdio' = [stdio EXCEPT ![s] = Tail(@)]
        /\ UNCHANGED <<child, attached, long, killed>>
    BY <1>5 DEF ScanLine, ChildTypes
  <2>2. /\ Tail(stdio[s]) \in Seq({"line", "long"}) /\ Len(Tail(stdio[s])) = Len(stdio[s]) - 1 /\ Len(stdio[s]) \in Nat
    BY <2>1, HeadTailProperties, LenProperties
  <2>3. stdio' \in [Streams -> Seq({"line", "long"})] /\ \A t \in Streams : Len(stdio'[t]) <= PipeSize
    BY <2>1, <2>2 DEF ChildTypes
  <2> QED BY <2>1, <2>3 DEF ChildTypes
<1>6. ASSUME NEW s \in Streams, ScanEnds(s) \/ SendStep(s) PROVE UNCHANGED childVars
  BY <1>6 DEF ScanEnds, SendStep
<1>7. CASE RunnerRunStep /\ ~StartChild
  <2>1. UNCHANGED childVars
    BY <1>7 DEF RunnerRunStep, StartFails, WaitAndEnd, WaitFails
  <2> QED BY <1>1, <2>1
<1> QED BY <1>1, <1>2, <1>3, <1>4, <1>5, <1>6, <1>7 DEF RunnerNext, runnerVars, ChildStep

\* What is in a pipe that is finished stays there.
LEMMA FinishedStays ==
  ASSUME RunnerInv, [RunnerNext]_runnerVars, NEW s \in Streams, Finished(s), scanner[s] = "eof", child # "none"
  PROVE  Finished(s)'
<1> stdio \in [Streams -> Seq({"line", "long"})] /\ attached \in [Streams -> BOOLEAN]
  BY DEF RunnerInv, ChildTypes
<1>1. CASE UNCHANGED <<stdio, attached>>
  BY <1>1 DEF Finished, Overlong
<1>2. ASSUME NEW t \in Streams, Write(t) PROVE Finished(s)'
  <2>1. CASE t # s
    <3>1. stdio'[s] = stdio[s] /\ attached' = attached
      BY <1>2, <2>1 DEF Write
    <3> QED BY <3>1 DEF Finished, Overlong
  <2>2. CASE t = s
    <3>1. attached[s] /\ stdio[s] # <<>> /\ Head(stdio[s]) = "long"
      BY <1>2, <2>2 DEF Write, Finished, Overlong
    <3>2. PICK x \in {"line", "long"} : stdio' = [stdio EXCEPT ![s] = Append(@, x)]
      BY <1>2, <2>2 DEF Write
    <3>3. stdio'[s] = Append(stdio[s], x)
      BY <3>2
    <3>4. stdio'[s] # <<>> /\ Head(stdio'[s]) = Head(stdio[s])
      BY <3>1, <3>3
    <3> QED BY <3>1, <3>4 DEF Finished, Overlong
  <2> QED BY <2>1, <2>2
<1>3. ASSUME NEW t \in Streams, CloseStream(t) PROVE Finished(s)'
  <2>1. stdio' = stdio /\ (attached'[s] => attached[s])
    BY <1>3 DEF CloseStream
  <2> QED BY <2>1 DEF Finished, Overlong
<1>4. ASSUME NEW t \in Streams, ScanLine(t) PROVE Finished(s)'
  <2>1. t # s
    BY <1>4 DEF ScanLine, Scan
  <2>2. stdio'[s] = stdio[s] /\ attached' = attached
    BY <1>4, <2>1 DEF ScanLine
  <2> QED BY <2>2 DEF Finished, Overlong
<1>5. ~StartChild
  BY DEF StartChild
<1>6. CASE ChildExits \/ Killed \/ (RunnerRunStep /\ ~StartChild)
  <2>1. UNCHANGED <<stdio, attached>>
    BY <1>6 DEF ChildExits, Killed, RunnerRunStep, StartFails, WaitAndEnd, WaitFails, childVars
  <2> QED BY <1>1, <2>1
<1>7. ASSUME NEW t \in Streams, ScanEnds(t) \/ SendStep(t) PROVE Finished(s)'
  BY <1>1, <1>7 DEF ScanEnds, SendStep, childVars
<1>8. CASE UNCHANGED childVars
  BY <1>1, <1>8 DEF childVars
<1> QED BY <1>2, <1>3, <1>4, <1>5, <1>6, <1>7, <1>8 DEF RunnerNext, runnerVars, ChildStep

\* The child, its pipes, the scanners and Run keep in step.
LEMMA ChildInStepStep ==
  ASSUME RunnerInv, [RunnerNext]_runnerVars
  PROVE  ChildInStep'
<1> ChildInStep /\ RunTypes /\ GoroutinesInStep
  BY DEF RunnerInv, TypeInv, ClientTypeOK
\* A scanner that has stopped stays so, and its pipe is finished.
<1>1. child' # child => child' # "none"
  BY DEF RunnerNext, runnerVars, childVars, ChildStep, ChildExits, Write, CloseStream, RunnerRunStep, StartChild,
         StartFails, WaitAndEnd, WaitFails, Killed, ScanLine, ScanEnds, SendStep
<1>2. ASSUME NEW s \in Streams, scanner[s] = "eof" PROVE Finished(s)' /\ child' # "none"
  BY <1>1, <1>2, FinishedStays DEF ChildInStep
<1>3. (\A s \in Streams : scanner'[s] = "eof" => scanner[s] = "eof")
        => \A s \in Streams : scanner'[s] = "eof" => Finished(s)' /\ child' # "none"
  BY <1>2
<1>4. CASE ChildStep
  <2>1. UNCHANGED <<run, scanner, killed>> /\ (child' = child \/ (child = "running" /\ child' = "exited"))
    BY <1>4 DEF ChildStep, ChildExits, Write, CloseStream, vars, runVars
  <2> QED BY <1>3, <2>1 DEF ChildInStep
<1>5. CASE StartChild
  <2>1. run = "register" /\ child' = "running" /\ UNCHANGED <<run, scanner>>
    BY <1>5 DEF StartChild, vars, runVars
  <2> QED BY <1>3, <2>1 DEF ChildInStep
<1>6. CASE StartFails
  <2>1. run' = "exited" /\ child = "none" /\ child' = child /\ UNCHANGED scanner
    BY <1>6 DEF StartFails, ProcessEnds, childVars
  <2> QED BY <1>3, <2>1 DEF ChildInStep
<1>7. CASE Killed
  <2>1. run' = "exited" /\ killed' /\ child' = child /\ UNCHANGED scanner
    BY <1>7 DEF Killed, ProcessEnds
  <2> QED BY <1>3, <2>1 DEF ChildInStep
<1>8. CASE WaitAndEnd
  <2>1. run = "scan" /\ run' = "close" /\ child = "exited" /\ child' = child /\ UNCHANGED scanner
    BY <1>8 DEF WaitAndEnd, EndSession, childVars
  <2> QED BY <1>3, <2>1 DEF ChildInStep
<1>15. CASE WaitFails
  <2>1. run' = "exited" /\ child = "exited" /\ UNCHANGED <<child, scanner>> /\ \A s \in Streams : scanner[s] = "eof"
    BY <1>15 DEF WaitFails, ProcessEnds, childVars
  <2> QED BY <1>3, <2>1 DEF ChildInStep
<1>9. CASE (Ensure \/ Connect) /\ UNCHANGED childVars
  <2>1. run \in {"ensure", "poll", "dial"} /\ run' \in {"poll", "dial", "register", "exited"} /\ UNCHANGED <<child, scanner>>
    BY <1>9 DEF Ensure, EnsureBroker, Connect, childVars
  <2> QED BY <1>3, <2>1 DEF ChildInStep
<1>10. CASE ((child # "none" /\ RegisterSession) \/ ReadResponse) /\ UNCHANGED childVars
  <2>1. run \in {"register", "await"} /\ run' \in {"await", "scan"} /\ (run = "register" => child # "none") /\ UNCHANGED <<child, scanner>>
    BY <1>10 DEF RegisterSession, ReadResponse, childVars
  <2> QED BY <1>3, <2>1 DEF ChildInStep
<1>11. CASE Exit /\ UNCHANGED childVars
  <2>1. run = "close" /\ run' = "exited" /\ UNCHANGED <<child, scanner>>
    BY <1>11 DEF Exit, ProcessEnds, childVars
  <2> QED BY <1>3, <2>1 DEF ChildInStep, GoroutinesInStep
<1>12. ASSUME NEW s \in Streams, ScanLine(s) \/ SendStep(s) PROVE ChildInStep'
  <2>1. UNCHANGED <<run, child>> /\ run = "scan" /\ \A t \in Streams : scanner'[t] = "eof" => scanner[t] = "eof"
    BY <1>12 DEF ScanLine, SendStep, Scan, SendLog, PushLine, Trigger, childVars, RunTypes, GoroutinesInStep
  <2> QED BY <1>3, <2>1 DEF ChildInStep
<1>13. ASSUME NEW s \in Streams, ScanEnds(s) PROVE ChildInStep'
  <2>1. UNCHANGED <<run, child, stdio, attached>> /\ run = "scan" /\ \A t \in Streams \ {s} : scanner'[t] = scanner[t]
    BY <1>13 DEF ScanEnds, EndOfOutput, childVars, RunTypes
  <2>2. Finished(s)' /\ child' # "none"
    BY <1>13, <2>1 DEF ScanEnds, Finished, Overlong, ChildInStep
  <2>3. \A t \in Streams : scanner'[t] = "eof" => Finished(t)' /\ child' # "none"
    BY <1>2, <2>1, <2>2
  <2> QED BY <2>1, <2>3 DEF ChildInStep
<1>14. CASE ((LoopStep \/ BrokerStep) /\ UNCHANGED childVars) \/ UNCHANGED runnerVars
  <2>1. UNCHANGED <<run, scanner, child, killed>>
    BY <1>14, LoopFrame, BrokerFrame DEF runnerVars, childVars, vars, runVars
  <2> QED BY <1>3, <2>1 DEF ChildInStep
<1> QED BY <1>4, <1>5, <1>6, <1>7, <1>8, <1>9, <1>10, <1>11, <1>12, <1>13, <1>14, <1>15 DEF RunnerNext, RunnerRunStep

\* What the theorems on the composition rest on.
LEMMA RunnerInvariant == RunnerSpec => []RunnerInv
<1>1. RunnerInv /\ [RunnerNext]_runnerVars => RunnerInv'
  BY RunnerStepIsStep, TypeStep, ChildTypesStep, ChildInStepStep DEF RunnerInv
<1> QED BY <1>1, RunnerInit0, PTL DEF RunnerSpec

\* Types, those of the client included; the buffer and the pipes keep within their sizes.
THEOREM RunnerTypeCorrect == RunnerSpec => []RunnerTypeOK
<1>1. RunnerInv => RunnerTypeOK
  BY TypeInvImplies DEF RunnerInv, ChildTypes, RunnerTypeOK
<1> QED BY <1>1, RunnerInvariant, PTL

\* When Run has ended the session, the child is gone and its pipes are empty, unless a line was
\* too long; whatever the child, those who share its streams, signals and the broker do.
THEOREM OutputIsRead == RunnerSpec => []NothingLeftInPipes
<1>1. RunnerInv => NothingLeftInPipes
  BY DEF RunnerInv, TypeInv, GoroutinesInStep, ChildInStep, Finished, NothingLeftInPipes
<1> QED BY <1>1, RunnerInvariant, PTL

\* The invariants of the client hold of the composition: each of its steps is a Step.
LEMMA ClientInvariants == RunnerSpec => [](ConnectionsRegistered /\ BufferedInOrder /\ OnePlace)
<1> DEFINE I == ConnectionsRegistered /\ BufferedInOrder /\ OnePlace
<1>1. RunnerInit => I
  BY RegisteredInit, OrderInit, OnePlaceInit DEF RunnerInit
<1>2. RunnerInv /\ I /\ [RunnerNext]_runnerVars => I'
  BY RunnerStepIsStep, RegisteredStep, OrderStep, OnePlaceStep DEF RunnerInv
<1> QED BY <1>1, <1>2, RunnerInvariant, PTL DEF RunnerSpec

\* The child that a signal or a failing start ends early, and its pipes, change nothing about
\* the client: no mixed sessions, lines in order, no copies.
THEOREM ClientHoldsInRunner ==
  RunnerSpec => []LinesCarryTheirSession /\ []WaitingInOrder /\ []NoCopies
<1>1. RunnerInv /\ ConnectionsRegistered /\ BufferedInOrder /\ OnePlace
        => LinesCarryTheirSession /\ WaitingInOrder /\ NoCopies
  BY RegisteredImplies, OrderImplies, OnePlaceImplies DEF RunnerInv
<1> QED BY <1>1, RunnerInvariant, ClientInvariants, PTL

\* devlog run as a whole delivers a line at most once.
THEOREM RunnerImplementsArrivals == RunnerSpec => ImplementsAtMostOnce
<1>1. RunnerInit => Arrivals!Init
  BY RefinementInit DEF RunnerInit
<1>2. RunnerInv /\ BufferedInOrder /\ OnePlace /\ [RunnerNext]_runnerVars => [Arrivals!Next]_Arrivals!vars
  BY RunnerStepIsStep, RefinementStep DEF RunnerInv
<1> QED BY <1>1, <1>2, RunnerInvariant, ClientInvariants, PTL
       DEF RunnerSpec, ImplementsAtMostOnce, Arrivals!Spec
=============================================================================
