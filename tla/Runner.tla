------------------------------- MODULE Runner -------------------------------
(***************************************************************************)
(* "devlog run" together with the process it wraps (internal/client/       *)
(* runner.go): Run starts the child with a pipe on its stdout and one on   *)
(* its stderr, two scanners empty the pipes into the Client, signals are   *)
(* forwarded while they do, and Run returns when both have come to the end *)
(* and the child has exited.  The Client, its reconnects and its broker    *)
(* are those of module Client; every step of Run or of a scanner here is   *)
(* one of Client and what it does to the child.                            *)
(***************************************************************************)
EXTENDS Client

CONSTANTS PipeSize, \* lines a pipe of the operating system holds
          MaxLong   \* bound: lines of the child beyond the scanner's 1 MB

ASSUME RunnerAssumption == PipeSize \in Nat \ {0} /\ MaxLong \in Nat

VARIABLES
  child,    \* the process: not started, running or exited
  stdio,    \* stdio[s]: what was written to the pipe of stream s and not yet read
  attached, \* attached[s]: whether the child, or one it started, has the pipe open
  long,     \* how many overlong lines were written
  killed    \* whether a signal ended devlog run itself

childVars  == <<child, stdio, attached, long, killed>>
runnerVars == <<vars, childVars>>

\* signal.Notify is in force from the end of the registration to the end of the output.
Forwarding == run = "scan" /\ \E s \in Streams : scanner[s] # "eof"

Overlong(s) == stdio[s] # <<>> /\ Head(stdio[s]) = "long"

RunnerInit ==
  /\ Init
  /\ child = "none" /\ long = 0 /\ killed = FALSE
  /\ stdio = [s \in Streams |-> <<>>] /\ attached = [s \in Streams |-> FALSE]

-----------------------------------------------------------------------------
(* The child and its descendants. *)

\* A write blocks as long as the pipe is full; an overlong line fills it for good.
Write(s) ==
  /\ attached[s] /\ Len(stdio[s]) < PipeSize
  /\ lines + MapThenSumSet(LAMBDA t : Len(stdio[t]), Streams) < MaxLines + long
  /\ \/ stdio' = [stdio EXCEPT ![s] = Append(@, "line")] /\ UNCHANGED long
     \/ /\ long < MaxLong /\ long' = long + 1
        /\ stdio' = [stdio EXCEPT ![s] = Append(@, "long")]
  /\ UNCHANGED <<vars, child, attached, killed>>

\* The last process that has the pipe open closes it, before or after the child exits.
CloseStream(s) ==
  /\ attached[s]
  /\ attached' = [attached EXCEPT ![s] = FALSE]
  /\ UNCHANGED <<vars, child, stdio, long, killed>>

\* The child exits, by itself or because of a signal that Run has forwarded.
ChildExits ==
  /\ child = "running"
  /\ child' = "exited"
  /\ UNCHANGED <<vars, stdio, attached, long, killed>>

-----------------------------------------------------------------------------
(* Run. *)

StartChild ==
  /\ run = "register" /\ child = "none"
  /\ child' = "running" /\ attached' = [s \in Streams |-> TRUE]
  /\ UNCHANGED <<vars, stdio, long, killed>>

\* cmd.Start fails: Run returns, and its deferred Close closes the connection.
StartFails ==
  /\ run = "register" /\ child = "none"
  /\ ProcessEnds
  /\ UNCHANGED childVars

\* cmd.Wait returns when the child has exited, and the session is ended.
WaitAndEnd == child = "exited" /\ EndSession /\ UNCHANGED childVars

\* cmd.Wait fails with something other than the exit status of the child: Run returns without
\* EndSession, and its deferred Close closes the connection.
WaitFails ==
  /\ run = "scan" /\ \A s \in Streams : scanner[s] = "eof"
  /\ child = "exited" /\ ~Locked
  /\ ProcessEnds
  /\ UNCHANGED childVars

\* SIGINT or SIGTERM while it is not forwarded: the default action ends the process.
Killed ==
  /\ run # "exited" /\ ~Forwarding
  /\ ProcessEnds
  /\ killed' = TRUE
  /\ UNCHANGED <<child, stdio, attached, long>>

-----------------------------------------------------------------------------
(* scanLines. *)

\* The line goes to the terminal and to the broker.
ScanLine(s) ==
  /\ stdio[s] # <<>> /\ ~Overlong(s)
  /\ Scan(s)
  /\ stdio' = [stdio EXCEPT ![s] = Tail(@)]
  /\ UNCHANGED <<child, attached, long, killed>>

\* An overlong line does not end the loop (faulty variant of ScanEnds).
EndOfPipeOnly(s) ==
  /\ stdio[s] = <<>> /\ ~attached[s]
  /\ EndOfOutput(s)
  /\ UNCHANGED childVars

\* The end of the pipe, or bufio.ErrTooLong: nobody reads the pipe from here on.
ScanEnds(s) ==
  /\ (stdio[s] = <<>> /\ ~attached[s]) \/ Overlong(s)
  /\ EndOfOutput(s)
  /\ UNCHANGED childVars

-----------------------------------------------------------------------------
ChildStep == ChildExits \/ \E s \in Streams : Write(s) \/ CloseStream(s)

RunnerRunStep ==
  \/ StartChild \/ StartFails \/ WaitAndEnd \/ WaitFails
  \/ (Ensure \/ Connect \/ ReadResponse \/ Exit) /\ UNCHANGED childVars
  \/ child # "none" /\ RegisterSession /\ UNCHANGED childVars

SendStep(s) == (SendLog(s) \/ PushLine(s) \/ Trigger(s)) /\ UNCHANGED childVars

RunnerNext ==
  \/ ChildStep \/ RunnerRunStep \/ Killed
  \/ \E s \in Streams : ScanLine(s) \/ ScanEnds(s) \/ SendStep(s)
  \/ (LoopStep \/ BrokerStep) /\ UNCHANGED childVars

RunnerSpec == RunnerInit /\ [][RunnerNext]_runnerVars

\* As in Client, and the scanners read what there is to read. The child does what it likes.
FairRunnerSpec ==
  /\ RunnerSpec
  /\ WF_runnerVars(RunnerRunStep) /\ WF_runnerVars(LoopStep /\ UNCHANGED childVars)
  /\ \A s \in Streams : WF_runnerVars(ScanLine(s) \/ ScanEnds(s) \/ SendStep(s))
  /\ WF_runnerVars(BrokerStarts /\ UNCHANGED childVars)
  /\ \A k \in Links : WF_runnerVars(BrokerReads(k) /\ UNCHANGED childVars)

-----------------------------------------------------------------------------
(* Properties. *)

\* Types, those of the client included; buffer and pipes keep within their sizes.
RunnerTypeOK ==
  /\ TypeOK
  /\ child \in {"none", "running", "exited"} /\ killed \in BOOLEAN /\ long \in 0..MaxLong
  /\ stdio \in [Streams -> Seq({"line", "long"})]
  /\ \A s \in Streams : Len(stdio[s]) <= PipeSize
  /\ attached \in [Streams -> BOOLEAN]

\* "Wait for both scanners to finish before calling cmd.Wait, otherwise we might close the
\* pipes early" (runner.go:85): when Run ends the session the child is gone and the pipes are
\* empty, unless a line was too long, or a signal that was not forwarded ended Run before.
NothingLeftInPipes ==
  run \in {"close", "exited"} /\ child # "none" /\ ~killed =>
    child = "exited" /\ \A s \in Streams : stdio[s] = <<>> \/ Overlong(s)

\* Run waits for the answer to its registration for ever, although a failed registration is
\* meant to be "Non-fatal" (runner.go:61).
Unanswered == <>[](run = "await")

\* Whatever the broker does, reconnecting included, the child is not held up by it: again and
\* again its pipes are empty and the scanners wait for more, up to a line beyond 1 MB. The
\* exception is a broker that leaves the first registration without an answer.
PipesDrain ==
  Unanswered \/ \A s \in Streams :
    []<>((stdio[s] = <<>> /\ scanner[s] \in {"read", "eof"}) \/ Overlong(s) \/ run = "exited")

\* Nobody is left who could write.
Over == child = "exited" /\ \A s \in Streams : ~attached[s]

\* When the child and all who share its streams are gone, Run returns, whatever became of the
\* connection.
RunReturns == Unanswered \/ (Over ~> run = "exited")

\* "System never blocks development workflow" (PLAN.md:529): a child that writes can write
\* again as long as devlog run is there.
ChildIsNeverBlocked ==
  \A s \in Streams : []<>(stdio[s] = <<>> \/ run = "exited")
=============================================================================
