----------------------------- MODULE Lifecycle ------------------------------
(***************************************************************************)
(* How processes "devlog broker" share one data directory: the pid file    *)
(* with its flock (internal/broker/flock_unix.go), the socket file         *)
(* (internal/ipc/ipc_unix.go), and the steps of Start and Stop             *)
(* (internal/broker/broker.go) that touch them.  Every EnsureBroker that   *)
(* finds no socket starts such a process, so any number of them may run at *)
(* the same time; the flock is to let only one of them work.               *)
(*                                                                         *)
(* A process is a number.  The pid file is an inode; the path leads to at  *)
(* most one inode, an open file to its inode also after the path is gone.  *)
(* What Stop does between closing the listener and closing the store is in *)
(* module Pipeline, and one step here.                                     *)
(***************************************************************************)
EXTENDS Naturals, FiniteSets

CONSTANT MaxStarts \* bound: processes started

ASSUME LifecycleAssumption == MaxStarts \in Nat

VARIABLES
  pc,       \* pc[b]: where process b is in Start or Stop
  file,     \* file[b]: the inode b has open as b.flockFile, or 0
  holds,    \* the processes that hold the flock on their open file
  pidFile,  \* the inode at the path devlog.pid, or 0
  inodes,   \* how many inodes were created
  sock,     \* the process whose socket is at the path devlog.sock, or 0
  unlinked  \* whether a Stop has removed a pid file another process had open

vars == <<pc, file, holds, pidFile, inodes, sock, unlinked>>

Brokers == 1..MaxStarts
Nobody  == 0

Running == {b \in Brokers : pc[b] \notin {"unborn", "refused", "exited"}}

Init ==
  /\ pc = [b \in Brokers |-> "unborn"]
  /\ file = [b \in Brokers |-> 0] /\ holds = {}
  /\ pidFile = 0 /\ inodes = 0 /\ sock = Nobody
  /\ unlinked = FALSE

-----------------------------------------------------------------------------
(* Steps that Start and Stop share. *)

Goto(b, next) == pc' = [pc EXCEPT ![b] = next]

\* LOCK_UN and close, by releaseFlock or by the end of the process.
Release(b) == holds' = holds \ {b} /\ file' = [file EXCEPT ![b] = 0]

-----------------------------------------------------------------------------
(* Faulty variants of definitions below. The runs show that each breaks a    *)
(* property; none is part of the specification.                              *)

\* Without O_CREATE.
OpenPidFileOnly(b) ==
  /\ pc[b] = "open"
  /\ file' = [file EXCEPT ![b] = pidFile]
  /\ Goto(b, "flock")
  /\ UNCHANGED <<holds, pidFile, inodes, sock, unlinked>>

\* A shared lock.
FlockShared(b) ==
  /\ pc[b] = "flock"
  /\ holds' = holds \cup {b}
  /\ Goto(b, "unlink")
  /\ UNCHANGED <<file, pidFile, inodes, sock, unlinked>>

\* A stale socket file is left where it is.
RemoveNoSocket(b) ==
  /\ pc[b] = "unlink"
  /\ Goto(b, "bind")
  /\ UNCHANGED <<file, holds, pidFile, inodes, sock, unlinked>>

\* The flock is released when the listener is closed.
CloseListenerAndRelease(b) ==
  /\ pc[b] = "serving"
  /\ sock' = Nobody
  /\ holds' = holds \ {b}
  /\ Goto(b, "draining")
  /\ UNCHANGED <<file, pidFile, inodes, unlinked>>

-----------------------------------------------------------------------------
(* Start. *)

\* EnsureBroker, or the user, runs "devlog broker"; New opens the database.
StartProcess(b) ==
  /\ pc[b] = "unborn" /\ \A a \in 1..(b - 1) : pc[a] # "unborn"
  /\ Goto(b, "open")
  /\ UNCHANGED <<file, holds, pidFile, inodes, sock, unlinked>>

\* acquireFlock, its open with O_CREATE.
OpenPidFile(b) ==
  /\ pc[b] = "open"
  /\ IF pidFile # 0
     THEN file' = [file EXCEPT ![b] = pidFile] /\ UNCHANGED <<pidFile, inodes>>
     ELSE /\ inodes' = inodes + 1 /\ pidFile' = inodes + 1
          /\ file' = [file EXCEPT ![b] = inodes + 1]
  /\ Goto(b, "flock")
  /\ UNCHANGED <<holds, sock, unlinked>>

\* acquireFlock, LOCK_EX without blocking.
Flock(b) ==
  /\ pc[b] = "flock"
  /\ IF \E a \in holds : file[a] = file[b]
     THEN Release(b) /\ Goto(b, "refused")
     ELSE holds' = holds \cup {b} /\ Goto(b, "unlink") /\ UNCHANGED file
  /\ UNCHANGED <<pidFile, inodes, sock, unlinked>>

\* The pid cannot be written, or the socket not be created: Start gives the lock back.
StartFails(b) ==
  /\ pc[b] \in {"unlink", "bind"}
  /\ Release(b) /\ Goto(b, "exited")
  /\ UNCHANGED <<pidFile, inodes, sock, unlinked>>

\* ipc.Listen removes what is at the path, stale or not ...
RemoveSocket(b) ==
  /\ pc[b] = "unlink"
  /\ sock' = Nobody
  /\ Goto(b, "bind")
  /\ UNCHANGED <<file, holds, pidFile, inodes, unlinked>>

\* ... and binds, which fails when there is a socket at the path again.
Bind(b) ==
  /\ pc[b] = "bind"
  /\ IF sock = Nobody
     THEN sock' = b /\ Goto(b, "serving") /\ UNCHANGED <<file, holds>>
     ELSE Release(b) /\ Goto(b, "refused") /\ UNCHANGED sock
  /\ UNCHANGED <<pidFile, inodes, unlinked>>

-----------------------------------------------------------------------------
(* Stop. *)

\* Closing a listener of package net unlinks its path.
CloseListener(b) ==
  /\ pc[b] = "serving"
  /\ sock' = Nobody
  /\ Goto(b, "draining")
  /\ UNCHANGED <<file, holds, pidFile, inodes, unlinked>>

\* The store is closed, and ipc.Cleanup removes the socket path.
Cleanup(b) ==
  /\ pc[b] = "draining"
  /\ sock' = Nobody
  /\ Goto(b, "release")
  /\ UNCHANGED <<file, holds, pidFile, inodes, unlinked>>

\* Stop returns early, Wait does not return, and the flock stays.
CloseStoreFails(b) ==
  /\ pc[b] = "draining"
  /\ Goto(b, "stuck")
  /\ UNCHANGED <<file, holds, pidFile, inodes, sock, unlinked>>

ReleaseFlock(b) ==
  /\ pc[b] = "release"
  /\ Release(b) /\ Goto(b, "remove")
  /\ UNCHANGED <<pidFile, inodes, sock, unlinked>>

\* os.Remove takes the path away, whoever has locked the file meanwhile.
RemovePidFile(b) ==
  /\ pc[b] = "remove"
  /\ pidFile' = 0
  /\ unlinked' = (unlinked \/ \E a \in Brokers : file[a] # 0 /\ file[a] = pidFile)
  /\ Goto(b, "exited")
  /\ UNCHANGED <<file, holds, inodes, sock>>

\* The files stay, the lock does not.
Crash(b) ==
  /\ b \in Running
  /\ Release(b) /\ Goto(b, "exited")
  /\ UNCHANGED <<pidFile, inodes, sock, unlinked>>

StartStep(b) == OpenPidFile(b) \/ Flock(b) \/ StartFails(b) \/ RemoveSocket(b) \/ Bind(b)
StopStep(b) == Cleanup(b) \/ CloseStoreFails(b) \/ ReleaseFlock(b) \/ RemovePidFile(b)

Next == \E b \in Brokers :
  StartProcess(b) \/ StartStep(b) \/ CloseListener(b) \/ StopStep(b) \/ Crash(b)

Spec == Init /\ [][Next]_vars

-----------------------------------------------------------------------------
(* Properties. *)

\* Type correctness; a process that got past acquireFlock has the pid file open.
TypeOK ==
  /\ pc \in [Brokers -> {"unborn", "open", "flock", "unlink", "bind", "serving", "draining",
                         "stuck", "release", "remove", "refused", "exited"}]
  /\ inodes \in Nat
  /\ file \in [Brokers -> 0..inodes]
  /\ holds \subseteq Running /\ \A b \in holds : file[b] # 0
  /\ pidFile \in 0..inodes /\ sock \in Brokers \cup {Nobody}
  /\ unlinked \in BOOLEAN

\* "Acquire flock to enforce broker singleton" (broker.go:106): at most one process is
\* past acquireFlock, whatever starts, stops and crashes.
OneBroker == \A a, b \in holds : a = b

\* The flock does enforce it as long as no Stop has removed a pid file that another
\* process had open: stale files and crashes cannot lead to a second broker.
OneBrokerUnlessUnlinked == ~unlinked => OneBroker

\* Until then, too, the socket path leads to the broker that serves: a predecessor that is
\* still stopping does not remove the socket of its successor, nor does one that starts.
ServingIsReachable == ~unlinked => \A b \in Brokers : pc[b] = "serving" => sock = b

\* Until then, too, a process is refused only because a broker is at work: what a crash
\* leaves behind does not keep the next broker from starting.
RefusedOnlyByABroker ==
  [][~unlinked => \A b \in Brokers :
       pc[b] # "refused" /\ pc'[b] = "refused" => holds \ {b} # {}]_vars
=============================================================================
