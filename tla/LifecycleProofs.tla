-------------------------- MODULE LifecycleProofs ---------------------------
(* One broker per data directory, for any number of processes.             *)
EXTENDS Lifecycle, TLAPS

\* Where a process holds the flock, and where it has the pid file open.
Locked == {"unlink", "bind", "serving", "draining", "stuck", "release"}
Opened == Locked \cup {"flock"}

\* Type correctness, with what the program counters say about the lock.
LockInv ==
  /\ TypeOK
  /\ \A b \in Brokers : b \in holds <=> pc[b] \in Locked
  /\ \A b \in Brokers : file[b] # 0 <=> pc[b] \in Opened
  /\ \A a, b \in holds : file[a] = file[b] => a = b

\* As long as no file was removed under another process, all open files are the one at the
\* path, so that the lock on it excludes, and the socket path belongs to the holder.
PathInv ==
  ~unlinked =>
    /\ \A b \in Brokers : file[b] # 0 => file[b] = pidFile
    /\ \A b \in Brokers : pc[b] = "serving" => sock = b
    /\ \A b \in Brokers : pc[b] = "bind" => sock = Nobody

LEMMA InitInv == Init => LockInv /\ PathInv
<1> SUFFICES ASSUME Init PROVE LockInv /\ PathInv
  OBVIOUS
<1>1. TypeOK
  <2>1. unlinked \in BOOLEAN
    BY DEF Init
  <2>2. holds \subseteq Running /\ \A b \in holds : file[b] # 0
    BY DEF Init
  <2>3. /\ pc \in [Brokers -> {"unborn", "open", "flock", "unlink", "bind", "serving", "draining",
                             "stuck", "release", "remove", "refused", "exited"}]
        /\ inodes \in Nat /\ file \in [Brokers -> 0..inodes]
        /\ pidFile \in 0..inodes /\ sock \in Brokers \cup {Nobody}
    BY DEF Init
  <2> QED BY <2>1, <2>2, <2>3 DEF TypeOK
<1>2. LockInv
  BY <1>1 DEF Init, LockInv, Locked, Opened
<1>3. PathInv
  BY DEF Init, PathInv
<1> QED BY <1>2, <1>3

\* The steps of one process keep both invariants.
LEMMA StepInv ==
  ASSUME LockInv, PathInv, NEW b \in Brokers,
         StartProcess(b) \/ StartStep(b) \/ CloseListener(b) \/ StopStep(b) \/ Crash(b)
  PROVE  LockInv' /\ PathInv'
<1> USE DEF LockInv, PathInv, TypeOK, Running, Locked, Opened, Goto, Release, Nobody
<1>1. CASE StartProcess(b)
  BY <1>1 DEF StartProcess
<1>2. CASE OpenPidFile(b)
  BY <1>2 DEF OpenPidFile
<1>3. CASE Flock(b)
  BY <1>3 DEF Flock
<1>4. CASE StartFails(b)
  BY <1>4 DEF StartFails
<1>5. CASE RemoveSocket(b)
  BY <1>5 DEF RemoveSocket
<1>6. CASE Bind(b)
  BY <1>6 DEF Bind
<1>7. CASE CloseListener(b)
  BY <1>7 DEF CloseListener
<1>8. CASE Cleanup(b)
  BY <1>8 DEF Cleanup
<1>9. CASE CloseStoreFails(b)
  BY <1>9 DEF CloseStoreFails
<1>10. CASE ReleaseFlock(b)
  BY <1>10 DEF ReleaseFlock
<1>11. CASE RemovePidFile(b)
  <2> DEFINE open == \E a \in Brokers : file[a] # 0 /\ file[a] = pidFile
  <2>1. /\ pc[b] = "remove" /\ pc' = [pc EXCEPT ![b] = "exited"] /\ pidFile' = 0
        /\ UNCHANGED <<file, holds, inodes, sock>>
    BY <1>11 DEF RemovePidFile
  <2>2. unlinked' \in BOOLEAN /\ (~unlinked' => ~unlinked /\ ~open)
    BY <1>11, Zenon DEF RemovePidFile
  <2>3. LockInv'
    BY <2>1, <2>2
  <2>4. PathInv'
    BY <2>1, <2>2
  <2> QED BY <2>3, <2>4
<1>12. CASE Crash(b)
  <2>1. /\ pc' = [pc EXCEPT ![b] = "exited"] /\ file' = [file EXCEPT ![b] = 0]
        /\ holds' = holds \ {b} /\ UNCHANGED <<pidFile, inodes, sock, unlinked>>
    BY <1>12 DEF Crash
  <2>2. LockInv'
    BY <2>1
  <2>3. PathInv'
    BY <2>1
  <2> QED BY <2>2, <2>3
<1> QED
  BY <1>1, <1>2, <1>3, <1>4, <1>5, <1>6, <1>7, <1>8, <1>9, <1>10, <1>11, <1>12 DEF StartStep, StopStep

LEMMA NextInv == LockInv /\ PathInv /\ [Next]_vars => LockInv' /\ PathInv'
<1> SUFFICES ASSUME LockInv, PathInv, [Next]_vars PROVE LockInv' /\ PathInv'
  OBVIOUS
<1>1. CASE Next
  BY <1>1, StepInv DEF Next
<1>2. CASE UNCHANGED vars
  BY <1>2 DEF vars, LockInv, PathInv, TypeOK, Running, Locked, Opened
<1> QED BY <1>1, <1>2

LEMMA LockInvariant == Spec => [](LockInv /\ PathInv)
  BY InitInv, NextInv, PTL DEF Spec

\* The type invariant, for any number of processes.
THEOREM TypeCorrect == Spec => []TypeOK
<1>1. LockInv => TypeOK
  BY DEF LockInv
<1> QED BY <1>1, LockInvariant, PTL

\* acquireFlock admits one broker, for any number of processes that start, stop and crash in
\* any order, until a Stop removes a pid file that another process has open.
THEOREM FlockAdmitsOneBroker == Spec => []OneBrokerUnlessUnlinked
<1>1. LockInv /\ PathInv => OneBrokerUnlessUnlinked
  BY DEF LockInv, PathInv, OneBrokerUnlessUnlinked, OneBroker, TypeOK, Running
<1> QED BY <1>1, LockInvariant, PTL

\* And until then the socket path leads to the broker that serves.
THEOREM ServingStaysReachable == Spec => []ServingIsReachable
<1>1. PathInv => ServingIsReachable
  BY DEF PathInv, ServingIsReachable
<1> QED BY <1>1, LockInvariant, PTL

\* And until then a process is refused only because another one is at work as the broker.
THEOREM OnlyBrokersRefuse == Spec => RefusedOnlyByABroker
<1> DEFINE Refusal(b) == pc[b] # "refused" /\ pc'[b] = "refused" => holds \ {b} # {}
<1>1. LockInv /\ PathInv /\ [Next]_vars => [~unlinked => \A b \in Brokers : Refusal(b)]_vars
  <2> SUFFICES ASSUME LockInv, PathInv, Next, ~unlinked, NEW b \in Brokers,
                      pc[b] # "refused", pc'[b] = "refused"
               PROVE  holds \ {b} # {}
    OBVIOUS
  <2>1. PICK a \in Brokers :
          StartProcess(a) \/ StartStep(a) \/ CloseListener(a) \/ StopStep(a) \/ Crash(a)
    BY DEF Next
  <2>2. (Flock(a) \/ Bind(a)) /\ a = b
    BY <2>1 DEF LockInv, TypeOK, Goto, StartProcess, StartStep, StopStep, Crash, OpenPidFile,
                Flock, StartFails, RemoveSocket, Bind, CloseListener, Cleanup, CloseStoreFails,
                ReleaseFlock, RemovePidFile
  <2>3. CASE Flock(b)
    BY <2>3 DEF Flock, LockInv, TypeOK, Running, Locked, Goto
  <2>4. CASE Bind(b)
    BY <2>4 DEF Bind, PathInv, LockInv, TypeOK, Goto
  <2> QED BY <2>2, <2>3, <2>4
<1> QED BY <1>1, LockInvariant, PTL DEF Spec, RefusedOnlyByABroker
=============================================================================
