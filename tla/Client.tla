------------------------------- MODULE Client -------------------------------
(***************************************************************************)
(* The process "devlog run" (internal/client): Run connects to the broker, *)
(* registers a session and starts two goroutines, scanLines, that send     *)
(* every line of the child's stdout and stderr with SendLog.  When a write *)
(* fails, SendLog puts the line into a ring buffer and starts              *)
(* reconnectLoop, a fourth goroutine, which dials a new connection,        *)
(* registers a new session, swaps both in and sends the buffered lines.    *)
(*                                                                         *)
(* The mutex mu makes SendLog's write, the close and the swap of reconnect *)
(* and EndSession single steps; flushBuffer holds it over several writes.  *)
(* A connection is used once: its number is the order of the dials.        *)
(***************************************************************************)
EXTENDS Naturals, Sequences, FiniteSets, SequencesExt

CONSTANTS Streams,     \* stdout and stderr of the child
          BufCapacity, \* lineBufferCapacity
          MaxLines,    \* bound: lines the child writes
          MaxBreaks,   \* bound: deaths of the broker and connections it drops
          MaxSilent    \* bound: registrations the broker does not answer

ASSUME ClientAssumption ==
  /\ BufCapacity \in Nat \ {0}
  /\ MaxLines \in Nat /\ MaxBreaks \in Nat /\ MaxSilent \in Nat

VARIABLES
  run,          \* where the goroutine Run is
  scanner,      \* scanner[s]: where the goroutine scanLines of stream s is
  lines,        \* how many lines the two have read; a line is stamped with that number
  ts,           \* ts[s]: the stamp of the last line read by the goroutine of stream s
  current,      \* the connection of c.encoder, 0 before Connect
  held,         \* whether c.conn is not nil
  sessionID,    \* c.sessionID, 0 when there is none
  buffer,       \* the lines in c.buf, oldest first
  reconnecting, \* the flag c.reconnecting
  loop,         \* where the goroutine reconnectLoop is
  fresh,        \* the connection it has dialled
  flushing,     \* the lines it has drained and not yet sent
  up,           \* whether a broker listens on the socket
  starting,     \* whether EnsureBroker started a broker that does not listen yet
  dials,        \* how many connections were dialled
  state,        \* state[k]: open, closed by the client, or broken by the broker
  pipe,         \* pipe[k]: messages written to connection k and not yet read
  response,     \* response[k]: the session id the broker has sent on k, or 0
  received,     \* the log messages the brokers have read, in that order
  breaks, silent

runVars    == <<run, scanner, lines, ts>>
connVars   == <<current, held, sessionID>>
loopVars   == <<reconnecting, loop, fresh, flushing>>
brokerVars == <<up, starting, breaks, silent>>
netVars    == <<dials, state, pipe, response, received>>
vars == <<runVars, connVars, buffer, loopVars, brokerVars, netVars>>

Line == [stream : Streams, ts : 1..MaxLines]

\* Enough connections for every reconnect that a failed write can trigger.
Links == 1..(1 + MaxLines + MaxBreaks)

LogMessage(l) == [type |-> "log", line |-> l, session |-> sessionID]
SessionStart  == [type |-> "session_start"]
SessionEnd    == [type |-> "session_end", session |-> sessionID]

Locked == loop = "flush" \* flushBuffer holds mu from its first write to its last

\* The line the goroutine of a stream is working on.
InHand(s) == [stream |-> s, ts |-> ts[s]]

\* One line too many (faulty variant of Newest).
NewestOverfull(q) == IF Len(q) > BufCapacity + 1 THEN Tail(q) ELSE q

\* What the ring buffer keeps of the lines pushed into it.
Newest(q) == IF Len(q) > BufCapacity THEN Tail(q) ELSE q

Init ==
  /\ run = "ensure"
  /\ scanner = [s \in Streams |-> "read"] /\ lines = 0 /\ ts = [s \in Streams |-> 0]
  /\ current = 0 /\ held = FALSE /\ sessionID = 0
  /\ buffer = <<>>
  /\ reconnecting = FALSE /\ loop = "none" /\ fresh = 0 /\ flushing = <<>>
  /\ up \in BOOLEAN /\ starting = FALSE /\ breaks = 0 /\ silent = 0
  /\ dials = 0
  /\ state = [k \in Links |-> "unused"]
  /\ pipe = [k \in Links |-> <<>>]
  /\ response = [k \in Links |-> 0]
  /\ received = <<>>

-----------------------------------------------------------------------------
(* Steps the goroutines share. *)

\* Encode succeeds exactly while both ends of the connection are open.
Encode(k, m) == state[k] = "open" /\ pipe' = [pipe EXCEPT ![k] = Append(@, m)]
EncodeFails(k) == state[k] # "open" /\ UNCHANGED pipe

Dial ==
  /\ up /\ dials + 1 \in Links
  /\ dials' = dials + 1
  /\ state' = [state EXCEPT ![dials + 1] = "open"]

\* EnsureBroker of a goroutine at pc: without a broker it starts one and polls for its
\* socket; the goroutine gives up at the deadline.
EnsureBroker(pc, pcNext, giveUp) ==
  \/ pc \in {"ensure", "poll"} /\ up /\ pcNext = "dial" /\ UNCHANGED starting
  \/ pc = "ensure" /\ ~up /\ pcNext = "poll" /\ starting' = TRUE
  \/ pc = "poll" /\ ~up /\ pcNext = giveUp /\ UNCHANGED starting

\* conn.Close: what was written before it can still be read.
CloseConn(k) == state' = [state EXCEPT ![k] = "closed"]

\* The process ends with all its goroutines: the kernel closes its connections.
ProcessEnds ==
  /\ run' = "exited"
  /\ state' = [k \in Links |-> IF state[k] = "open" THEN "closed" ELSE state[k]]
  /\ held' = FALSE /\ buffer' = <<>>
  /\ loop' = "none" /\ flushing' = <<>>
  /\ UNCHANGED <<scanner, lines, ts, current, sessionID, reconnecting, fresh, brokerVars,
                 dials, pipe, response, received>>

-----------------------------------------------------------------------------
(* Faulty variants of definitions below. The runs show that each breaks a    *)
(* property; none is part of the specification.                              *)

\* SendLog buffers the line also when it was written.
SendLogNoReturn(s) ==
  /\ scanner[s] = "send" /\ ~Locked
  /\ Encode(current, LogMessage(InHand(s))) \/ EncodeFails(current)
  /\ scanner' = [scanner EXCEPT ![s] = "push"]
  /\ UNCHANGED <<run, lines, ts, connVars, buffer, loopVars, brokerVars, dials, state, response, received>>

\* The scanners wait for a reconnect instead of buffering.
SendLogWhenConnected(s) ==
  /\ scanner[s] = "send" /\ ~Locked /\ ~reconnecting
  /\ \/ /\ Encode(current, LogMessage(InHand(s)))
        /\ scanner' = [scanner EXCEPT ![s] = "read"]
     \/ /\ EncodeFails(current)
        /\ scanner' = [scanner EXCEPT ![s] = "push"]
  /\ UNCHANGED <<run, lines, ts, connVars, buffer, loopVars, brokerVars, dials, state, response, received>>

\* Run does not wait for the scanners.
EndSessionEarly ==
  /\ run = "scan" /\ ~Locked
  /\ Encode(current, SessionEnd) \/ EncodeFails(current)
  /\ run' = "close"
  /\ UNCHANGED <<scanner, lines, ts, connVars, buffer, loopVars, brokerVars, dials, state, response, received>>

\* The new session id is forgotten.
SwapKeepsSession ==
  /\ loop = "swap"
  /\ current' = fresh /\ held' = TRUE
  /\ loop' = "drain"
  /\ UNCHANGED <<runVars, sessionID, buffer, reconnecting, fresh, flushing, brokerVars, netVars>>

\* drain does not empty the buffer.
DrainCopies ==
  /\ loop = "drain"
  /\ flushing' = buffer
  /\ loop' = IF buffer = <<>> THEN "finish" ELSE "lock"
  /\ UNCHANGED <<runVars, connVars, buffer, reconnecting, fresh, brokerVars, netVars>>

\* Lines that could not be sent go back into the buffer, behind newer ones.
FlushLineRebuffers ==
  /\ loop \in {"lock", "flush"}
  /\ \/ /\ Encode(current, LogMessage(Head(flushing)))
        /\ flushing' = Tail(flushing) /\ UNCHANGED buffer
     \/ /\ EncodeFails(current)
        /\ flushing' = <<>> /\ buffer' = buffer \o flushing
  /\ loop' = IF flushing' = <<>> THEN "finish" ELSE "flush"
  /\ UNCHANGED <<runVars, connVars, reconnecting, fresh, brokerVars,
                 dials, state, response, received>>

\* The flag is not reset.
FinishKeepsFlag ==
  /\ loop = "finish"
  /\ loop' = "none"
  /\ UNCHANGED <<runVars, connVars, buffer, reconnecting, fresh, flushing, brokerVars, netVars>>

-----------------------------------------------------------------------------
(* Run. *)

Ensure ==
  /\ EnsureBroker(run, run', "exited")
  /\ UNCHANGED <<scanner, lines, ts, connVars, buffer, loopVars, up, breaks, silent, netVars>>

\* Without a connection Run returns, and the child is not started.
Connect ==
  /\ run = "dial"
  /\ \/ /\ Dial
        /\ current' = dials + 1 /\ held' = TRUE
        /\ run' = "register"
     \/ /\ ~up
        /\ run' = "exited"
        /\ UNCHANGED <<current, held, dials, state>>
  /\ UNCHANGED <<scanner, lines, ts, sessionID, buffer, loopVars, brokerVars, pipe, response, received>>

\* RegisterSession; the child is running by now, and goes on when it fails.
RegisterSession ==
  /\ run = "register"
  /\ \/ Encode(current, SessionStart) /\ run' = "await"
     \/ EncodeFails(current) /\ run' = "scan"
  /\ UNCHANGED <<scanner, lines, ts, connVars, buffer, loopVars, brokerVars, dials, state, response, received>>

\* The response is read, or the connection ends before it.
ReadResponse ==
  /\ run = "await"
  /\ response[current] # 0 \/ state[current] = "broken"
  /\ sessionID' = response[current]
  /\ run' = "scan"
  /\ UNCHANGED <<scanner, lines, ts, current, held, buffer, loopVars, brokerVars, netVars>>

\* Both scanners are done and the child has exited. A failure is a warning.
EndSession ==
  /\ run = "scan" /\ \A s \in Streams : scanner[s] = "eof"
  /\ ~Locked
  /\ Encode(current, SessionEnd) \/ EncodeFails(current)
  /\ run' = "close"
  /\ UNCHANGED <<scanner, lines, ts, connVars, buffer, loopVars, brokerVars, dials, state, response, received>>

\* os.Exit: reconnectLoop, if it is running, is killed, and its lines are gone.
Exit == run = "close" /\ ~Locked /\ ProcessEnds

-----------------------------------------------------------------------------
(* scanLines and SendLog. *)

Scan(s) ==
  /\ run = "scan" /\ scanner[s] = "read" /\ lines < MaxLines
  /\ lines' = lines + 1
  /\ ts' = [ts EXCEPT ![s] = lines + 1]
  /\ scanner' = [scanner EXCEPT ![s] = "send"]
  /\ UNCHANGED <<run, connVars, buffer, loopVars, brokerVars, netVars>>

EndOfOutput(s) ==
  /\ run = "scan" /\ scanner[s] = "read"
  /\ scanner' = [scanner EXCEPT ![s] = "eof"]
  /\ UNCHANGED <<run, lines, ts, connVars, buffer, loopVars, brokerVars, netVars>>

SendLog(s) ==
  /\ scanner[s] = "send" /\ ~Locked
  /\ \/ /\ Encode(current, LogMessage(InHand(s)))
        /\ scanner' = [scanner EXCEPT ![s] = "read"]
     \/ /\ EncodeFails(current)
        /\ scanner' = [scanner EXCEPT ![s] = "push"]
  /\ UNCHANGED <<run, lines, ts, connVars, buffer, loopVars, brokerVars, dials, state, response, received>>

PushLine(s) ==
  /\ scanner[s] = "push"
  /\ buffer' = Newest(Append(buffer, InHand(s)))
  /\ scanner' = [scanner EXCEPT ![s] = "trigger"]
  /\ UNCHANGED <<run, lines, ts, connVars, loopVars, brokerVars, netVars>>

\* CompareAndSwap: at most one reconnectLoop.
Trigger(s) ==
  /\ scanner[s] = "trigger"
  /\ scanner' = [scanner EXCEPT ![s] = "read"]
  /\ reconnecting' = TRUE
  /\ loop' = IF reconnecting THEN loop ELSE "close"
  /\ UNCHANGED <<run, lines, ts, connVars, buffer, fresh, flushing, brokerVars, netVars>>

-----------------------------------------------------------------------------
(* reconnectLoop, reconnect and flushBuffer. *)

\* Until the swap c.encoder is the one of the closed connection.
CloseOld ==
  /\ loop = "close"
  /\ IF held THEN CloseConn(current) ELSE UNCHANGED state
  /\ held' = FALSE
  /\ loop' = "ensure"
  /\ UNCHANGED <<runVars, current, sessionID, buffer, reconnecting, fresh, flushing,
                 brokerVars, dials, pipe, response, received>>

EnsureAgain ==
  /\ EnsureBroker(loop, loop', "close")
  /\ UNCHANGED <<runVars, connVars, buffer, reconnecting, fresh, flushing, up, breaks, silent, netVars>>

DialAgain ==
  /\ loop = "dial"
  /\ \/ /\ Dial
        /\ fresh' = dials + 1
        /\ loop' = "register"
     \/ ~up /\ loop' = "close" /\ UNCHANGED <<fresh, dials, state>>
  /\ UNCHANGED <<runVars, connVars, buffer, reconnecting, flushing, brokerVars, pipe, response, received>>

RegisterAgain ==
  /\ loop = "register"
  /\ \/ Encode(fresh, SessionStart) /\ UNCHANGED state /\ loop' = "await"
     \/ EncodeFails(fresh) /\ CloseConn(fresh) /\ loop' = "close"
  /\ UNCHANGED <<runVars, connVars, buffer, reconnecting, fresh, flushing, brokerVars,
                 dials, response, received>>

ReadResponseAgain ==
  /\ loop = "await"
  /\ \/ response[fresh] # 0 /\ UNCHANGED state /\ loop' = "swap"
     \/ response[fresh] = 0 /\ state[fresh] = "broken" /\ CloseConn(fresh) /\ loop' = "close"
  /\ UNCHANGED <<runVars, connVars, buffer, reconnecting, fresh, flushing, brokerVars,
                 dials, pipe, response, received>>

Swap ==
  /\ loop = "swap"
  /\ current' = fresh /\ held' = TRUE /\ sessionID' = response[fresh]
  /\ loop' = "drain"
  /\ UNCHANGED <<runVars, buffer, reconnecting, fresh, flushing, brokerVars, netVars>>

Drain ==
  /\ loop = "drain"
  /\ flushing' = buffer /\ buffer' = <<>>
  /\ loop' = IF buffer = <<>> THEN "finish" ELSE "lock"
  /\ UNCHANGED <<runVars, connVars, reconnecting, fresh, brokerVars, netVars>>

\* The first write that fails drops the rest.
FlushLine ==
  /\ loop \in {"lock", "flush"}
  /\ \/ /\ Encode(current, LogMessage(Head(flushing)))
        /\ flushing' = Tail(flushing)
     \/ /\ EncodeFails(current)
        /\ flushing' = <<>>
  /\ loop' = IF flushing' = <<>> THEN "finish" ELSE "flush"
  /\ UNCHANGED <<runVars, connVars, buffer, reconnecting, fresh, brokerVars,
                 dials, state, response, received>>

\* The deferred store of the flag.
Finish ==
  /\ loop = "finish"
  /\ reconnecting' = FALSE /\ loop' = "none"
  /\ UNCHANGED <<runVars, connVars, buffer, fresh, flushing, brokerVars, netVars>>

-----------------------------------------------------------------------------
(* The broker, as far as the client can see it. *)

BrokerStarts ==
  /\ starting /\ ~up
  /\ up' = TRUE /\ starting' = FALSE
  /\ UNCHANGED <<runVars, connVars, buffer, loopVars, breaks, silent, netVars>>

\* handleConnection decodes a message; handleSessionStart answers unless CreateSession fails.
BrokerReads(k) ==
  /\ up /\ pipe[k] # <<>>
  /\ pipe' = [pipe EXCEPT ![k] = Tail(@)]
  /\ LET m == Head(pipe[k])
     IN  CASE m.type = "session_start" ->
                /\ \/ /\ response' = [response EXCEPT ![k] = k]
                      /\ UNCHANGED silent
                   \/ /\ silent < MaxSilent /\ silent' = silent + 1
                      /\ UNCHANGED response
                /\ UNCHANGED received
           [] m.type = "log" ->
                /\ received' = Append(received, [line |-> m.line, session |-> m.session, conn |-> k])
                /\ UNCHANGED <<response, silent>>
           [] m.type = "session_end" -> UNCHANGED <<response, silent, received>>
  /\ UNCHANGED <<runVars, connVars, buffer, loopVars, up, starting, breaks, dials, state>>

\* handleConnection returns on a line it cannot decode, for example one that is longer
\* than a mebibyte once it is encoded; that line and what follows it are lost.
BrokerDrops(k) ==
  /\ up /\ state[k] = "open" /\ breaks < MaxBreaks
  /\ pipe[k] # <<>> /\ Head(pipe[k]).type = "log"
  /\ breaks' = breaks + 1
  /\ state' = [state EXCEPT ![k] = "broken"]
  /\ pipe' = [pipe EXCEPT ![k] = <<>>]
  /\ UNCHANGED <<runVars, connVars, buffer, loopVars, up, starting, silent, dials, response, received>>

BrokerDies ==
  /\ up /\ breaks < MaxBreaks
  /\ breaks' = breaks + 1
  /\ up' = FALSE
  /\ state' = [k \in Links |-> IF state[k] = "open" THEN "broken" ELSE state[k]]
  /\ pipe' = [k \in Links |-> <<>>]
  /\ UNCHANGED <<runVars, connVars, buffer, loopVars, starting, silent, dials, response, received>>

RunStep == Ensure \/ Connect \/ RegisterSession \/ ReadResponse \/ EndSession \/ Exit
ScannerStep(s) == Scan(s) \/ EndOfOutput(s) \/ SendLog(s) \/ PushLine(s) \/ Trigger(s)
LoopStep ==
  \/ CloseOld \/ EnsureAgain \/ DialAgain \/ RegisterAgain \/ ReadResponseAgain
  \/ Swap \/ Drain \/ FlushLine \/ Finish
BrokerStep ==
  \/ BrokerStarts \/ BrokerDies
  \/ \E k \in Links : BrokerReads(k) \/ BrokerDrops(k)

Next == RunStep \/ LoopStep \/ BrokerStep \/ \E s \in Streams : ScannerStep(s)

Spec == Init /\ [][Next]_vars

\* Goroutines run, a broker that was started listens some day, and one that listens reads;
\* the child writes what and when it likes.
FairSpec ==
  /\ Spec
  /\ WF_vars(RunStep) /\ WF_vars(LoopStep)
  /\ \A s \in Streams : WF_vars(SendLog(s) \/ PushLine(s) \/ Trigger(s))
  /\ WF_vars(BrokerStarts) /\ \A k \in Links : WF_vars(BrokerReads(k))

-----------------------------------------------------------------------------
(* Properties. *)

\* Type correctness; only the connections dialled are in use.
TypeOK ==
  /\ run \in {"ensure", "poll", "dial", "register", "await", "scan", "close", "exited"}
  /\ scanner \in [Streams -> {"read", "send", "push", "trigger", "eof"}]
  /\ lines \in 0..MaxLines /\ ts \in [Streams -> 0..lines]
  /\ current \in 0..dials /\ fresh \in 0..dials /\ sessionID \in 0..dials
  /\ held \in BOOLEAN /\ reconnecting \in BOOLEAN /\ up \in BOOLEAN /\ starting \in BOOLEAN
  /\ buffer \in Seq(Line) /\ Len(buffer) <= BufCapacity /\ flushing \in Seq(Line)
  /\ loop \in {"none", "close", "ensure", "poll", "dial", "register", "await", "swap",
               "drain", "lock", "flush", "finish"}
  /\ dials \in 0..Cardinality(Links)
  /\ state \in [Links -> {"unused", "open", "closed", "broken"}]
  /\ response \in [Links -> 0..dials]
  /\ \A k \in Links : k > dials => state[k] = "unused" /\ pipe[k] = <<>> /\ response[k] = 0
  /\ breaks \in 0..MaxBreaks /\ silent \in 0..MaxSilent

\* A line, and the end of a session, reach the broker with the session that was registered
\* on the connection they travel on, although a reconnect exchanges the two: the broker
\* neither files a line under a dead session nor ends the session of another connection.
LinesCarryTheirSession ==
  /\ \A k \in Links : \A i \in DOMAIN pipe[k] :
       pipe[k][i].type # "session_start" => pipe[k][i].session = response[k]
  /\ \A i \in DOMAIN received : received[i].session = response[received[i].conn]

\* The lines in the order in which the next reconnect would send them, up to the one the
\* goroutine of a stream is about to push.
Waiting(s) == flushing \o buffer \o (IF scanner[s] = "push" THEN <<InHand(s)>> ELSE <<>>)

\* Lines of a stream that wait for a broker wait in the order in which the child wrote them,
\* however drains, pushes and failing writes of the two scanners and the loop interleave.
WaitingInOrder ==
  \A s \in Streams : \A i, j \in DOMAIN Waiting(s) :
    i < j /\ Waiting(s)[i].stream = s /\ Waiting(s)[j].stream = s
      => Waiting(s)[i].ts < Waiting(s)[j].ts

Lines(q) == {q[i].line : i \in {j \in DOMAIN q : "line" \in DOMAIN q[j]}}

Arrivals == INSTANCE AtMostOnce WITH
  pending <- {InHand(s) : s \in {t \in Streams : scanner[t] \in {"send", "push"}}}
               \cup ToSet(buffer) \cup ToSet(flushing) \cup UNION {Lines(pipe[k]) : k \in Links},
  arrived <- Lines(received)

\* However often the client reconnects, the broker gets a line at most once: the client
\* implements AtMostOnce.
ImplementsAtMostOnce == Arrivals!Spec

\* No line is received twice; the abstract sets cannot see a copy.
NoCopies ==
  \A i, j \in DOMAIN received : i # j => received[i].line # received[j].line

\* A reconnect comes to an end (ARCHITECTURE.md:75), unless the broker leaves the new
\* registration without an answer.
ReconnectEnds == reconnecting ~> ~reconnecting \/ run = "exited" \/ silent > 0

\* "Returns nil even on send failure -- the line is buffered, not lost" (client.go:89): a
\* buffered line leaves the buffer as long as the client runs.
BufferedIsNotLost ==
  \A l \in Line : l \in ToSet(buffer) ~> l \notin ToSet(buffer) \/ run = "exited"
=============================================================================
