------------------------------ MODULE LogCache ------------------------------
(***************************************************************************)
(* internal/cache/cache.go: the recent lines of every service, used by all *)
(* connection handlers of the broker at once.  A map under one read-write  *)
(* lock leads from a service to its ring buffer, and every ring buffer has *)
(* a lock of its own.  No call holds both locks, so between finding the    *)
(* buffer and using it anything may happen; what is done under one lock is *)
(* one step.  A ring buffer is the list of its last entries, which module  *)
(* RingBuffer justifies.  The broker itself never calls Clear or ClearAll. *)
(***************************************************************************)
EXTENDS Naturals, Sequences

CONSTANTS Procs, Services,
          BufferSize, \* the argument of NewLogCache
          MaxAdds,    \* bound: entries added
          MaxClears   \* bound: calls of Clear and ClearAll together

ASSUME CacheAssumption ==
  /\ Services # {}
  /\ BufferSize \in Nat \ {0}
  /\ MaxAdds \in Nat /\ MaxClears \in Nat

VARIABLES
  buffers,  \* buffers[s]: the serviceBuffer of s in the map, or 0
  heap,     \* the serviceBuffers ever created, each a sequence of entries
  pc,       \* pc[p]: what goroutine p does next
  arg,      \* arg[p]: the entry p adds; for a call without one, a blank of its service
  sb,       \* sb[p]: the serviceBuffer that p has found, or 0
  result,   \* result[p]: what the last Recent of p returned
  added, cleared, \* counters for the bounds
  overlap,  \* the goroutines with an Add during which ClearAll ran
  finished, \* entries whose Add has returned and that nobody has cleared since
  expected  \* expected[p]: those of them that p's last Recent must know

cacheVars == <<buffers, heap>>
procVars  == <<pc, arg, sb, result>>
bounds    == <<added, cleared>>
ghosts    == <<overlap, finished, expected>>
vars      == <<cacheVars, procVars, bounds, ghosts>>

LogEntry == [ID : 0..MaxAdds, Service : Services]
Entry    == [ID : 1..MaxAdds, Service : Services]

Blank(s) == [ID |-> 0, Service |-> s]
NoArg    == Blank(CHOOSE s \in Services : TRUE)

Newest(q) == IF Len(q) > BufferSize THEN Tail(q) ELSE q

Init ==
  /\ buffers = [s \in Services |-> 0] /\ heap = <<>>
  /\ pc = [p \in Procs |-> "idle"]
  /\ arg = [p \in Procs |-> NoArg]
  /\ sb = [p \in Procs |-> 0] /\ result = [p \in Procs |-> <<>>]
  /\ added = 0 /\ cleared = 0
  /\ overlap = {} /\ finished = {}
  /\ expected = [p \in Procs |-> {}]

-----------------------------------------------------------------------------
(* Steps that the calls share. *)

\* A goroutine looks a service up under the read lock and goes on.
Lookup(p, a, found, missing) ==
  /\ pc[p] = "idle"
  /\ pc' = [pc EXCEPT ![p] = IF buffers[a.Service] # 0 THEN found ELSE missing]
  /\ sb' = [sb EXCEPT ![p] = buffers[a.Service]]
  /\ arg' = [arg EXCEPT ![p] = IF pc'[p] = "idle" THEN NoArg ELSE a]
  /\ result' = [result EXCEPT ![p] = <<>>]

Return(p) ==
  /\ pc' = [pc EXCEPT ![p] = "idle"]
  /\ sb' = [sb EXCEPT ![p] = 0]
  /\ arg' = [arg EXCEPT ![p] = NoArg]

\* What nobody can be blamed for not finding any more.
Forget(gone) ==
  /\ finished' = finished \ gone
  /\ expected' = [p \in Procs |-> IF pc[p] = "read" THEN expected[p] \ gone ELSE expected[p]]

-----------------------------------------------------------------------------
(* Faulty variants of definitions below. The runs show that each breaks a    *)
(* property; none is part of the specification.                              *)

\* No double-check after the write lock was acquired.
CreateUnchecked(p) ==
  /\ pc[p] = "create"
  /\ heap' = Append(heap, <<>>)
  /\ sb' = [sb EXCEPT ![p] = Len(heap) + 1]
  /\ buffers' = [buffers EXCEPT ![arg[p].Service] = Len(heap) + 1]
  /\ pc' = [pc EXCEPT ![p] = "push"]
  /\ UNCHANGED <<arg, result, bounds, ghosts>>

\* The slow path puts every service under the first buffer there is.
CreateShared(p) ==
  /\ pc[p] = "create"
  /\ heap' = IF heap = <<>> THEN <<<<>>>> ELSE heap
  /\ sb' = [sb EXCEPT ![p] = 1]
  /\ buffers' = [buffers EXCEPT ![arg[p].Service] = 1]
  /\ pc' = [pc EXCEPT ![p] = "push"]
  /\ UNCHANGED <<arg, result, bounds, ghosts>>

\* Recent does not test whether the service is known.
RecentLookupUnchecked(p, s) ==
  /\ Lookup(p, Blank(s), "read", "read")
  /\ expected' = [expected EXCEPT ![p] = {e \in finished : e.Service = s}]
  /\ UNCHANGED <<cacheVars, bounds, overlap, finished>>

\* Recent leaves out the last entry.
RecentShort(p) ==
  /\ pc[p] = "read"
  /\ result' = [result EXCEPT ![p] =
                  SubSeq(heap[sb[p]], 1, IF heap[sb[p]] = <<>> THEN 0 ELSE Len(heap[sb[p]]) - 1)]
  /\ Return(p)
  /\ UNCHANGED <<cacheVars, bounds, ghosts>>

\* Clear leaves the newest entry in the buffer.
ClearButNewest(p) ==
  /\ pc[p] = "clear"
  /\ heap' = [heap EXCEPT ![sb[p]] = IF @ = <<>> THEN @ ELSE <<@[Len(@)]>>]
  /\ IF sb[p] = buffers[arg[p].Service]
     THEN Forget({e \in Entry : e.Service = arg[p].Service})
     ELSE UNCHANGED <<finished, expected>>
  /\ Return(p)
  /\ UNCHANGED <<buffers, result, bounds, overlap>>

-----------------------------------------------------------------------------
(* Add: getOrCreate, then Push under the lock of the buffer. *)

\* The fast path of getOrCreate.
Add(p, s) ==
  /\ added < MaxAdds
  /\ added' = added + 1
  /\ Lookup(p, [ID |-> added + 1, Service |-> s], "push", "create")
  /\ expected' = [expected EXCEPT ![p] = {}]
  /\ UNCHANGED <<cacheVars, cleared, overlap, finished>>

\* The slow path: another goroutine may have created the buffer meanwhile.
Create(p) ==
  /\ pc[p] = "create"
  /\ LET s == arg[p].Service
     IN  IF buffers[s] # 0
         THEN sb' = [sb EXCEPT ![p] = buffers[s]] /\ UNCHANGED cacheVars
         ELSE /\ heap' = Append(heap, <<>>)
              /\ sb' = [sb EXCEPT ![p] = Len(heap) + 1]
              /\ buffers' = [buffers EXCEPT ![s] = Len(heap) + 1]
  /\ pc' = [pc EXCEPT ![p] = "push"]
  /\ UNCHANGED <<arg, result, bounds, ghosts>>

Push(p) ==
  /\ pc[p] = "push"
  /\ heap' = [heap EXCEPT ![sb[p]] = Newest(Append(@, arg[p]))]
  /\ finished' = IF p \in overlap THEN finished ELSE finished \cup {arg[p]}
  /\ overlap' = overlap \ {p}
  /\ Return(p)
  /\ UNCHANGED <<buffers, result, bounds, expected>>

-----------------------------------------------------------------------------
(* Recent and Clear. EntryCount takes the same steps as Recent, and Services *)
(* reads the map in one step; neither changes anything.                      *)

\* An unknown service has no entries: Recent returns nil.
RecentLookup(p, s) ==
  /\ Lookup(p, Blank(s), "read", "idle")
  /\ expected' = [expected EXCEPT ![p] = {e \in finished : e.Service = s}]
  /\ UNCHANGED <<cacheVars, bounds, overlap, finished>>

\* The limit is no smaller than the buffer.
Recent(p) ==
  /\ pc[p] = "read"
  /\ result' = [result EXCEPT ![p] = heap[sb[p]]]
  /\ Return(p)
  /\ UNCHANGED <<cacheVars, bounds, ghosts>>

ClearLookup(p, s) ==
  /\ cleared < MaxClears
  /\ cleared' = cleared + 1
  /\ Lookup(p, Blank(s), "clear", "idle")
  /\ expected' = [expected EXCEPT ![p] = {}]
  /\ UNCHANGED <<cacheVars, added, overlap, finished>>

Clear(p) ==
  /\ pc[p] = "clear"
  /\ heap' = [heap EXCEPT ![sb[p]] = <<>>]
  /\ IF sb[p] = buffers[arg[p].Service]
     THEN Forget({e \in Entry : e.Service = arg[p].Service})
     ELSE UNCHANGED <<finished, expected>>
  /\ Return(p)
  /\ UNCHANGED <<buffers, result, bounds, overlap>>

ClearAll ==
  /\ cleared < MaxClears
  /\ cleared' = cleared + 1
  /\ buffers' = [s \in Services |-> 0]
  /\ overlap' = {p \in Procs : pc[p] \in {"create", "push"}}
  /\ Forget(Entry)
  /\ UNCHANGED <<heap, procVars, added>>

-----------------------------------------------------------------------------
Call(p, s) == Add(p, s) \/ RecentLookup(p, s) \/ ClearLookup(p, s)
Step(p)    == Create(p) \/ Push(p) \/ Recent(p) \/ Clear(p)

Next == ClearAll \/ \E p \in Procs : Step(p) \/ \E s \in Services : Call(p, s)

Spec == Init /\ [][Next]_vars

-----------------------------------------------------------------------------
(* Properties. *)

\* Type correctness: the map leads to buffers that exist, and so does a goroutine that
\* is about to use one.
TypeOK ==
  /\ heap \in Seq(Seq(Entry))
  /\ buffers \in [Services -> 0..Len(heap)]
  /\ pc \in [Procs -> {"idle", "create", "push", "read", "clear"}]
  /\ arg \in [Procs -> LogEntry]
  /\ sb \in [Procs -> 0..Len(heap)]
  /\ \A p \in Procs : pc[p] \in {"push", "read", "clear"} => sb[p] # 0
  /\ \A p \in Procs : pc[p] \in {"create", "push"} => arg[p].ID # 0
  /\ result \in [Procs -> Seq(Entry)]
  /\ added \in 0..MaxAdds /\ cleared \in 0..MaxClears
  /\ overlap \subseteq {p \in Procs : pc[p] \in {"create", "push"}}
  /\ finished \in SUBSET Entry /\ expected \in [Procs -> SUBSET Entry]

\* The double-checked getOrCreate gives all goroutines that add to a service the one
\* buffer that the map holds: nobody pushes into a buffer that has been replaced, except
\* when ClearAll has replaced them all.
PushesReachTheMap ==
  \A p \in Procs \ overlap : pc[p] = "push" => sb[p] = buffers[arg[p].Service]

\* Two services never share a buffer, and no buffer holds a line of another service than
\* the one under which it is, or was, found.
BuffersKeepServicesApart ==
  /\ \A s, t \in Services : buffers[s] = buffers[t] /\ buffers[s] # 0 => s = t
  /\ \A b \in DOMAIN heap : \A i, j \in DOMAIN heap[b] : heap[b][i].Service = heap[b][j].Service

\* What a Recent has returned holds every entry of the service whose Add had returned
\* when it began and that nobody has cleared since, unless a full buffer has moved on.
RecentSeesFinishedAdds ==
  \A p \in Procs : pc[p] = "idle" =>
    \A e \in expected[p] :
      \/ \E i \in DOMAIN result[p] : result[p][i] = e
      \/ Len(result[p]) = BufferSize

Contents(s) == IF buffers[s] = 0 THEN <<>> ELSE heap[buffers[s]]

Adding(p) == IF pc[p] \in {"create", "push"} THEN {arg[p]} ELSE {}

Abstract == INSTANCE ServiceLogs
  WITH Proc <- Procs, Service <- Services, N <- BufferSize,
       logs <- [s \in Services |-> Contents(s)],
       pending <- [p \in Procs |-> Adding(p)]

\* The two levels of locks keep one list per service: concurrent calls of Add each take
\* effect at one instant, in no other service, and are lost only to a ClearAll.
ImplementsServiceLogs == Abstract!Spec
=============================================================================
