--------------------------- MODULE LogCacheProofs ---------------------------
(***************************************************************************)
(* Proofs about LogCache for any goroutines, services, buffer size and     *)
(* bounds.  The inductive invariant is TypeOK, PushesReachTheMap and       *)
(* Owned: every buffer, in the map or not, belongs to one service.         *)
(***************************************************************************)
EXTENDS LogCache, TLAPS

Using(p) == pc[p] \in {"push", "read", "clear"}

\* Every buffer has a service under which the map and the goroutines know it, and holds
\* lines of this service only.
OwnedBy(owner) ==
  /\ \A s \in Services : buffers[s] # 0 => owner[buffers[s]] = s
  /\ \A p \in Procs : Using(p) => owner[sb[p]] = arg[p].Service
  /\ \A b \in DOMAIN heap : \A i \in DOMAIN heap[b] : heap[b][i].Service = owner[b]

Owned == \E owner \in [1..Len(heap) -> Services] : OwnedBy(owner)

IInv == TypeOK /\ Owned /\ PushesReachTheMap

-----------------------------------------------------------------------------
\* The argument of an idle goroutine is an entry of some service.
LEMMA NoArgType == NoArg \in LogEntry
<1>1. PICK s \in Services : TRUE
  BY CacheAssumption
<1>2. (CHOOSE t \in Services : TRUE) \in Services
  BY <1>1
<1> QED
  BY <1>2, CacheAssumption DEF NoArg, Blank, LogEntry

\* An entry appended to a buffer leaves a sequence of entries, of the same services.
LEMMA NewestAppend ==
  ASSUME NEW q \in Seq(Entry), NEW e \in Entry
  PROVE  /\ Newest(Append(q, e)) \in Seq(Entry)
         /\ \A t : (\A i \in DOMAIN q : q[i].Service = t) /\ e.Service = t
              => \A i \in DOMAIN Newest(Append(q, e)) : Newest(Append(q, e))[i].Service = t
<1>1. Append(q, e) \in Seq(Entry) /\ Len(Append(q, e)) = Len(q) + 1
  OBVIOUS
<1>2. \A i \in 1..(Len(q) + 1) : Append(q, e)[i] = IF i = Len(q) + 1 THEN e ELSE q[i]
  OBVIOUS
<1>3. CASE Len(Append(q, e)) > BufferSize
  <2>1. Newest(Append(q, e)) = Tail(Append(q, e))
    BY <1>3 DEF Newest
  <2>2. Tail(Append(q, e)) \in Seq(Entry) /\ Len(Tail(Append(q, e))) = Len(q)
    BY <1>1
  <2>3. \A i \in 1..Len(q) : Tail(Append(q, e))[i] = Append(q, e)[i + 1]
    BY <1>1
  <2> QED
    BY <2>1, <2>2, <2>3, <1>2
<1>4. CASE ~(Len(Append(q, e)) > BufferSize)
  BY <1>1, <1>2, <1>4 DEF Newest
<1> QED
  BY <1>3, <1>4

-----------------------------------------------------------------------------
(* Type correctness. *)

LEMMA InitType == Init => TypeOK
  BY NoArgType, CacheAssumption DEF Init, TypeOK, LogEntry, Entry

LEMMA LookupType ==
  ASSUME TypeOK, NEW p \in Procs, NEW a \in LogEntry,
         NEW found \in {"push", "read", "clear"}, NEW missing \in {"idle", "create"},
         found = "push" => a.ID # 0, missing = "create" => a.ID # 0,
         found = "push" <=> missing = "create",
         Lookup(p, a, found, missing), UNCHANGED cacheVars
  PROVE  /\ pc' \in [Procs -> {"idle", "create", "push", "read", "clear"}]
         /\ arg' \in [Procs -> LogEntry] /\ sb' \in [Procs -> 0..Len(heap')]
         /\ \A q \in Procs : pc'[q] \in {"push", "read", "clear"} => sb'[q] # 0
         /\ \A q \in Procs : pc'[q] \in {"create", "push"} => arg'[q].ID # 0
         /\ result' \in [Procs -> Seq(Entry)]
         /\ overlap \subseteq {q \in Procs : pc'[q] \in {"create", "push"}}
<1>1. a.Service \in Services
  BY DEF LogEntry
<1>2. pc' \in [Procs -> {"idle", "create", "push", "read", "clear"}]
  BY DEF TypeOK, Lookup
<1>3. arg' \in [Procs -> LogEntry]
  BY NoArgType DEF TypeOK, Lookup
<1>4. sb' \in [Procs -> 0..Len(heap')]
  BY <1>1 DEF TypeOK, Lookup, cacheVars
<1>5. \A q \in Procs : pc'[q] \in {"push", "read", "clear"} => sb'[q] # 0
  BY <1>1 DEF TypeOK, Lookup
<1>6. \A q \in Procs : pc'[q] \in {"create", "push"} => arg'[q].ID # 0
  BY DEF TypeOK, Lookup
<1>7. result' \in [Procs -> Seq(Entry)]
  BY DEF TypeOK, Lookup
<1>8. overlap \subseteq {q \in Procs : pc'[q] \in {"create", "push"}}
  BY DEF TypeOK, Lookup
<1> QED
  BY <1>2, <1>3, <1>4, <1>5, <1>6, <1>7, <1>8

LEMMA ReturnType ==
  ASSUME TypeOK, NEW p \in Procs, Return(p), Len(heap') = Len(heap)
  PROVE  /\ pc' \in [Procs -> {"idle", "create", "push", "read", "clear"}]
         /\ arg' \in [Procs -> LogEntry] /\ sb' \in [Procs -> 0..Len(heap')]
         /\ \A q \in Procs : pc'[q] \in {"push", "read", "clear"} => sb'[q] # 0
         /\ \A q \in Procs : pc'[q] \in {"create", "push"} => arg'[q].ID # 0
         /\ overlap \ {p} \subseteq {q \in Procs : pc'[q] \in {"create", "push"}}
<1>1. Len(heap) \in Nat
  BY DEF TypeOK
<1> QED
  BY <1>1, NoArgType DEF TypeOK, Return

LEMMA BlankType == \A s \in Services : Blank(s) \in LogEntry /\ Blank(s).Service = s
  BY CacheAssumption DEF Blank, LogEntry

LEMMA AddedType ==
  ASSUME TypeOK, added < MaxAdds, NEW s \in Services
  PROVE  [ID |-> added + 1, Service |-> s] \in LogEntry /\ added + 1 \in 1..MaxAdds
  BY CacheAssumption DEF TypeOK, LogEntry

LEMMA ArgType ==
  ASSUME TypeOK, NEW p \in Procs, pc[p] \in {"create", "push"}
  PROVE  arg[p] \in Entry
<1>1. arg[p] \in LogEntry /\ arg[p].ID # 0
  BY DEF TypeOK
<1> QED
  BY <1>1, CacheAssumption DEF LogEntry, Entry

LEMMA ForgetType ==
  ASSUME TypeOK, NEW gone, Forget(gone)
  PROVE  finished' \in SUBSET Entry /\ expected' \in [Procs -> SUBSET Entry]
  BY DEF TypeOK, Forget

LEMMA NextType ==
  ASSUME TypeOK, [Next]_vars
  PROVE  TypeOK'
<1>1. ASSUME NEW p \in Procs, NEW s \in Services, Add(p, s)
      PROVE  TypeOK'
  <2> DEFINE a == [ID |-> added + 1, Service |-> s]
  <2>1. a \in LogEntry /\ a.ID # 0 /\ added + 1 \in 1..MaxAdds
    BY <1>1, AddedType DEF Add, TypeOK
  <2>2. Lookup(p, a, "push", "create") /\ UNCHANGED cacheVars
    BY <1>1 DEF Add
  <2>3. /\ added' \in 0..MaxAdds /\ expected' \in [Procs -> SUBSET Entry]
        /\ UNCHANGED <<cacheVars, cleared, overlap, finished>>
    BY <1>1, <2>1 DEF Add, TypeOK
  <2> HIDE DEF a
  <2> QED
    BY <2>1, <2>2, <2>3, LookupType DEF TypeOK, cacheVars
<1>2. ASSUME NEW p \in Procs, NEW s \in Services, RecentLookup(p, s)
      PROVE  TypeOK'
  <2>1. Lookup(p, Blank(s), "read", "idle") /\ UNCHANGED cacheVars
    BY <1>2 DEF RecentLookup
  <2> QED
    BY <1>2, <2>1, BlankType, LookupType DEF RecentLookup, TypeOK, cacheVars, bounds
<1>3. ASSUME NEW p \in Procs, NEW s \in Services, ClearLookup(p, s)
      PROVE  TypeOK'
  <2>1. Lookup(p, Blank(s), "clear", "idle") /\ UNCHANGED cacheVars
    BY <1>3 DEF ClearLookup
  <2>2. cleared' \in 0..MaxClears
    BY <1>3, CacheAssumption DEF ClearLookup, TypeOK
  <2> QED
    BY <1>3, <2>1, <2>2, BlankType, LookupType DEF ClearLookup, TypeOK, cacheVars
<1>4. ASSUME NEW p \in Procs, Create(p)
      PROVE  TypeOK'
  <2>1. CASE buffers[arg[p].Service] # 0
    <3>1. arg[p].Service \in Services
      BY <1>4 DEF TypeOK, LogEntry
    <3> QED
      BY <1>4, <2>1, <3>1 DEF Create, TypeOK, cacheVars, bounds, ghosts
  <2>2. CASE buffers[arg[p].Service] = 0
    <3>0. <<>> \in Seq(Entry) /\ heap \in Seq(Seq(Entry)) /\ heap' = Append(heap, <<>>)
      BY <1>4, <2>2 DEF Create, TypeOK
    <3>1. heap' \in Seq(Seq(Entry)) /\ Len(heap') = Len(heap) + 1
      BY <3>0
    <3>2. Len(heap) \in Nat
      BY DEF TypeOK
    <3>3. buffers' \in [Services -> 0..Len(heap')]
      BY <1>4, <2>2, <3>1, <3>2 DEF Create, TypeOK
    <3>4. sb' \in [Procs -> 0..Len(heap')] /\ sb'[p] # 0
      BY <1>4, <2>2, <3>1, <3>2 DEF Create, TypeOK
    <3>5. \A q \in Procs : q # p => sb'[q] = sb[q] /\ pc'[q] = pc[q]
      BY <1>4, <2>2 DEF Create, TypeOK
    <3> QED
      BY <1>4, <3>1, <3>3, <3>4, <3>5 DEF Create, TypeOK, bounds, ghosts
  <2> QED
    BY <2>1, <2>2
<1>5. ASSUME NEW p \in Procs, Push(p)
      PROVE  TypeOK'
  <2>1. arg[p] \in Entry /\ sb[p] \in 1..Len(heap)
    BY <1>5, ArgType DEF Push, TypeOK
  <2>2. heap[sb[p]] \in Seq(Entry)
    BY <2>1 DEF TypeOK
  <2> DEFINE q == Newest(Append(heap[sb[p]], arg[p]))
  <2>3. q \in Seq(Entry)
    BY <2>1, <2>2, NewestAppend
  <2>4. heap' = [heap EXCEPT ![sb[p]] = q]
    BY <1>5 DEF Push
  <2> HIDE DEF q
  <2>5. heap' \in Seq(Seq(Entry)) /\ Len(heap') = Len(heap)
    BY <2>1, <2>3, <2>4 DEF TypeOK
  <2> QED
    BY <1>5, <2>1, <2>5, ReturnType DEF Push, TypeOK, bounds
<1>6. ASSUME NEW p \in Procs, Recent(p)
      PROVE  TypeOK'
  <2>1. heap[sb[p]] \in Seq(Entry)
    BY <1>6 DEF Recent, TypeOK
  <2>2. p \notin overlap
    BY <1>6 DEF Recent, TypeOK
  <2> QED
    BY <1>6, <2>1, <2>2, ReturnType DEF Recent, TypeOK, cacheVars, bounds, ghosts
<1>7. ASSUME NEW p \in Procs, Clear(p)
      PROVE  TypeOK'
  <2>1. heap' \in Seq(Seq(Entry)) /\ Len(heap') = Len(heap)
    BY <1>7 DEF Clear, TypeOK
  <2>2. finished' \in SUBSET Entry /\ expected' \in [Procs -> SUBSET Entry]
    BY <1>7, ForgetType DEF Clear, TypeOK
  <2>3. p \notin overlap
    BY <1>7 DEF Clear, TypeOK
  <2> QED
    BY <1>7, <2>1, <2>2, <2>3, ReturnType DEF Clear, TypeOK, bounds
<1>8. CASE ClearAll
  <2>1. cleared' \in 0..MaxClears
    BY <1>8, CacheAssumption DEF ClearAll, TypeOK
  <2>2. finished' \in SUBSET Entry /\ expected' \in [Procs -> SUBSET Entry]
    BY <1>8, ForgetType DEF ClearAll
  <2>3. Len(heap) \in Nat
    BY DEF TypeOK
  <2> QED
    BY <1>8, <2>1, <2>2, <2>3 DEF ClearAll, TypeOK, procVars
<1>9. CASE UNCHANGED vars
  BY <1>9 DEF vars, cacheVars, procVars, bounds, ghosts, TypeOK
<1> QED
  BY <1>1, <1>2, <1>3, <1>4, <1>5, <1>6, <1>7, <1>8, <1>9 DEF Next, Call, Step

\* The map and the goroutines only ever know buffers that exist.
THEOREM TypeCorrect == Spec => []TypeOK
  BY InitType, NextType, PTL DEF Spec

-----------------------------------------------------------------------------
(* Who owns a buffer, and that the double-check keeps goroutines together. *)

LEMMA InitOwned == Init => Owned /\ PushesReachTheMap
<1> SUFFICES ASSUME Init PROVE Owned /\ PushesReachTheMap
  OBVIOUS
<1>1. PICK s \in Services : TRUE
  BY CacheAssumption
<1>2. heap = <<>> /\ [b \in 1..Len(heap) |-> s] \in [1..Len(heap) -> Services]
  BY <1>1 DEF Init
<1>3. OwnedBy([b \in 1..Len(heap) |-> s])
  BY <1>2 DEF Init, OwnedBy, Using
<1>4. Owned
  BY <1>2, <1>3 DEF Owned
<1> QED
  BY <1>4 DEF Init, PushesReachTheMap

LEMMA LookupOwned ==
  ASSUME TypeOK, NEW owner, OwnedBy(owner), NEW p \in Procs, NEW a \in LogEntry,
         NEW found \in {"push", "read", "clear"}, NEW missing \in {"idle", "create"},
         Lookup(p, a, found, missing), UNCHANGED cacheVars
  PROVE  OwnedBy(owner)'
<1>1. a.Service \in Services
  BY DEF LogEntry
<1>2. ASSUME NEW q \in Procs, Using(q)'
      PROVE  owner[sb'[q]] = arg'[q].Service
  <2>1. CASE q # p
    BY <1>2, <2>1 DEF Lookup, Using, TypeOK, OwnedBy
  <2>2. CASE q = p
    <3>1. buffers[a.Service] # 0 /\ pc'[p] = found
      BY <1>2, <2>2 DEF Lookup, Using, TypeOK
    <3>2. sb'[p] = buffers[a.Service] /\ arg'[p] = a
      BY <3>1 DEF Lookup, TypeOK
    <3> QED
      BY <1>1, <2>2, <3>1, <3>2 DEF OwnedBy
  <2> QED
    BY <2>1, <2>2
<1> QED
  BY <1>2 DEF OwnedBy, cacheVars

LEMMA ReturnUsing ==
  ASSUME TypeOK, NEW p \in Procs, Return(p)
  PROVE  \A q \in Procs : Using(q)' => q # p /\ Using(q) /\ sb'[q] = sb[q] /\ arg'[q] = arg[q]
  BY DEF TypeOK, Return, Using

LEMMA NextOwned ==
  ASSUME TypeOK, Owned, [Next]_vars
  PROVE  Owned'
<1>0. PICK owner \in [1..Len(heap) -> Services] : OwnedBy(owner)
  BY DEF Owned
<1>1. ASSUME NEW p \in Procs, NEW s \in Services, Add(p, s)
      PROVE  Owned'
  <2> DEFINE a == [ID |-> added + 1, Service |-> s]
  <2>1. a \in LogEntry
    BY <1>1, AddedType DEF Add
  <2>2. Lookup(p, a, "push", "create") /\ UNCHANGED cacheVars
    BY <1>1 DEF Add
  <2> HIDE DEF a
  <2>3. OwnedBy(owner)'
    BY <1>0, <2>1, <2>2, LookupOwned
  <2> QED
    BY <1>0, <2>2, <2>3 DEF Owned, cacheVars
<1>2. ASSUME NEW p \in Procs, NEW s \in Services, RecentLookup(p, s)
      PROVE  Owned'
  <2>1. Lookup(p, Blank(s), "read", "idle") /\ UNCHANGED cacheVars
    BY <1>2 DEF RecentLookup
  <2>2. OwnedBy(owner)'
    BY <1>0, <2>1, BlankType, LookupOwned
  <2> QED
    BY <1>0, <2>1, <2>2 DEF Owned, cacheVars
<1>3. ASSUME NEW p \in Procs, NEW s \in Services, ClearLookup(p, s)
      PROVE  Owned'
  <2>1. Lookup(p, Blank(s), "clear", "idle") /\ UNCHANGED cacheVars
    BY <1>3 DEF ClearLookup
  <2>2. OwnedBy(owner)'
    BY <1>0, <2>1, BlankType, LookupOwned
  <2> QED
    BY <1>0, <2>1, <2>2 DEF Owned, cacheVars
<1>4. ASSUME NEW p \in Procs, Create(p)
      PROVE  Owned'
  <2>0. arg[p].Service \in Services /\ arg' = arg
    BY <1>4 DEF Create, TypeOK, LogEntry
  <2>1. CASE buffers[arg[p].Service] # 0
    <3>1. UNCHANGED cacheVars
      BY <1>4, <2>1 DEF Create
    <3>2. \A q \in Procs : Using(q)' => owner[sb'[q]] = arg[q].Service
      BY <1>0, <1>4, <2>0, <2>1 DEF Create, TypeOK, Using, OwnedBy
    <3> QED
      BY <1>0, <2>0, <3>1, <3>2 DEF Owned, OwnedBy, cacheVars
  <2>2. CASE buffers[arg[p].Service] = 0
    <3> DEFINE new == Len(heap) + 1
    <3>0. heap \in Seq(Seq(Entry)) /\ <<>> \in Seq(Entry) /\ heap' = Append(heap, <<>>)
      BY <1>4, <2>2 DEF Create, TypeOK
    <3>1. /\ Len(heap) \in Nat /\ Len(heap') = new
          /\ \A b \in 1..new : heap'[b] = IF b = new THEN <<>> ELSE heap[b]
      BY <3>0
    <3>2. PICK more \in [1..Len(heap') -> Services] :
            more = [b \in 1..new |-> IF b = new THEN arg[p].Service ELSE owner[b]]
      <4>1. [b \in 1..new |-> IF b = new THEN arg[p].Service ELSE owner[b]]
              \in [1..Len(heap') -> Services]
        BY <1>0, <2>0, <3>1
      <4> QED
        BY <4>1
    <3>3. \A s \in Services : buffers'[s] # 0 => more[buffers'[s]] = s
      BY <1>0, <1>4, <2>0, <2>2, <3>1, <3>2 DEF Create, TypeOK, OwnedBy
    <3>4. \A q \in Procs : Using(q)' => more[sb'[q]] = arg'[q].Service
      <4> SUFFICES ASSUME NEW q \in Procs, Using(q)' PROVE more[sb'[q]] = arg'[q].Service
        OBVIOUS
      <4>1. CASE q = p
        BY <1>4, <2>0, <2>2, <3>1, <3>2, <4>1 DEF Create, TypeOK
      <4>2. CASE q # p
        <5>1. Using(q) /\ sb'[q] = sb[q] /\ arg'[q] = arg[q]
          BY <1>4, <2>0, <2>2, <4>2 DEF Create, TypeOK, Using
        <5>2. sb[q] \in 1..Len(heap)
          BY <5>1, <3>1 DEF TypeOK, Using
        <5> QED
          BY <1>0, <3>1, <3>2, <5>1, <5>2 DEF OwnedBy
      <4> QED
        BY <4>1, <4>2
    <3>5. \A b \in DOMAIN heap' : \A i \in DOMAIN heap'[b] : heap'[b][i].Service = more[b]
      <4> SUFFICES ASSUME NEW b \in DOMAIN heap', NEW i \in DOMAIN heap'[b]
                   PROVE  heap'[b][i].Service = more[b]
        OBVIOUS
      <4>1. heap' \in Seq(Seq(Entry))
        BY NextType, <1>4 DEF TypeOK, Next, Step
      <4>2. b \in 1..new
        BY <3>1, <4>1
      <4>3. b # new
        <5>1. DOMAIN <<>> = {}
          OBVIOUS
        <5> QED
          BY <3>1, <4>2, <5>1
      <4>4. b \in DOMAIN heap /\ heap'[b] = heap[b]
        BY <3>1, <4>2, <4>3 DEF TypeOK
      <4> QED
        BY <1>0, <3>2, <4>2, <4>3, <4>4 DEF OwnedBy
    <3>6. OwnedBy(more)'
      BY <3>3, <3>4, <3>5 DEF OwnedBy
    <3> QED
      BY <3>2, <3>6 DEF Owned
  <2> QED
    BY <2>1, <2>2
<1>5. ASSUME NEW p \in Procs, Push(p)
      PROVE  Owned'
  <2>0. arg[p] \in Entry
    BY <1>5, ArgType DEF Push
  <2>1. arg[p] \in Entry /\ sb[p] \in 1..Len(heap)
    BY <1>5, <2>0 DEF Push, TypeOK
  <2>2. heap \in Seq(Seq(Entry)) /\ heap[sb[p]] \in Seq(Entry) /\ DOMAIN heap = 1..Len(heap)
    BY <2>1 DEF TypeOK
  <2>3. heap' = [heap EXCEPT ![sb[p]] = Newest(Append(heap[sb[p]], arg[p]))]
    BY <1>5 DEF Push
  <2>4. Len(heap') = Len(heap) /\ DOMAIN heap' = DOMAIN heap
    BY <2>1, <2>2, <2>3, NewestAppend
  <2>5. owner[sb[p]] = arg[p].Service
    BY <1>0, <1>5 DEF OwnedBy, Push, Using
  <2>6. \A i \in DOMAIN Newest(Append(heap[sb[p]], arg[p])) :
           Newest(Append(heap[sb[p]], arg[p]))[i].Service = owner[sb[p]]
    BY <1>0, <2>1, <2>2, <2>5, NewestAppend DEF OwnedBy
  <2>7. \A b \in DOMAIN heap' : \A i \in DOMAIN heap'[b] : heap'[b][i].Service = owner[b]
    BY <1>0, <2>2, <2>3, <2>4, <2>6 DEF OwnedBy
  <2>8. \A q \in Procs : Using(q)' => owner[sb'[q]] = arg'[q].Service
    BY <1>0, <1>5, ReturnUsing DEF OwnedBy, Push
  <2>9. OwnedBy(owner)'
    BY <1>0, <1>5, <2>7, <2>8 DEF OwnedBy, Push
  <2> QED
    BY <1>0, <2>4, <2>9 DEF Owned
<1>6. ASSUME NEW p \in Procs, Recent(p)
      PROVE  Owned'
  <2>1. \A q \in Procs : Using(q)' => owner[sb'[q]] = arg'[q].Service
    BY <1>0, <1>6, ReturnUsing DEF OwnedBy, Recent
  <2>2. OwnedBy(owner)'
    BY <1>0, <1>6, <2>1 DEF OwnedBy, Recent, cacheVars
  <2> QED
    BY <1>0, <1>6, <2>2 DEF Owned, Recent, cacheVars
<1>7. ASSUME NEW p \in Procs, Clear(p)
      PROVE  Owned'
  <2>1. \A q \in Procs : Using(q)' => owner[sb'[q]] = arg'[q].Service
    BY <1>0, <1>7, ReturnUsing DEF OwnedBy, Clear
  <2>2. heap' = [heap EXCEPT ![sb[p]] = <<>>] /\ Len(heap') = Len(heap) /\ DOMAIN heap' = DOMAIN heap
    BY <1>7 DEF Clear, TypeOK
  <2>3. \A b \in DOMAIN heap' : \A i \in DOMAIN heap'[b] : heap'[b][i].Service = owner[b]
    <3>1. DOMAIN <<>> = {}
      OBVIOUS
    <3> QED
      BY <1>0, <2>2, <3>1 DEF OwnedBy
  <2>4. OwnedBy(owner)'
    BY <1>0, <1>7, <2>1, <2>3 DEF OwnedBy, Clear
  <2> QED
    BY <1>0, <2>2, <2>4 DEF Owned
<1>8. CASE ClearAll
  BY <1>0, <1>8 DEF ClearAll, Owned, OwnedBy, Using, procVars
<1>9. CASE UNCHANGED vars
  BY <1>0, <1>9 DEF vars, cacheVars, procVars, Owned, OwnedBy, Using
<1> QED
  BY <1>1, <1>2, <1>3, <1>4, <1>5, <1>6, <1>7, <1>8, <1>9 DEF Next, Call, Step

LEMMA NextPushes ==
  ASSUME TypeOK, PushesReachTheMap, [Next]_vars
  PROVE  PushesReachTheMap'
<1>0. \A p \in Procs : pc[p] = "push" => arg[p].Service \in Services /\ sb[p] # 0
  BY DEF TypeOK, LogEntry
<1>1. ASSUME NEW p \in Procs, NEW s \in Services, Add(p, s)
      PROVE  PushesReachTheMap'
  BY <1>1 DEF Add, Lookup, PushesReachTheMap, TypeOK, cacheVars
<1>2. ASSUME NEW p \in Procs, NEW s \in Services, RecentLookup(p, s) \/ ClearLookup(p, s)
      PROVE  PushesReachTheMap'
  <2>1. \A q \in Procs : pc'[q] = "push" =>
          pc[q] = "push" /\ sb'[q] = sb[q] /\ arg'[q] = arg[q]
    BY <1>2 DEF RecentLookup, ClearLookup, Lookup, TypeOK
  <2>2. buffers' = buffers /\ overlap' = overlap
    BY <1>2 DEF RecentLookup, ClearLookup, cacheVars
  <2> QED
    BY <2>1, <2>2 DEF PushesReachTheMap
<1>3. ASSUME NEW p \in Procs, Create(p)
      PROVE  PushesReachTheMap'
  <2> SUFFICES ASSUME NEW q \in Procs \ overlap, pc'[q] = "push"
               PROVE  sb'[q] = buffers'[arg[q].Service]
    BY <1>3 DEF Create, PushesReachTheMap, ghosts
  <2>1. arg[p].Service \in Services
    BY <1>3 DEF Create, TypeOK, LogEntry
  <2>2. CASE q = p
    BY <1>3, <2>1, <2>2 DEF Create, TypeOK, cacheVars
  <2>3. CASE q # p
    <3>1. pc[q] = "push" /\ sb'[q] = sb[q] /\ sb[q] = buffers[arg[q].Service] /\ sb[q] # 0
      BY <1>0, <1>3, <2>3 DEF Create, TypeOK, PushesReachTheMap, cacheVars
    <3> QED
      BY <1>0, <1>3, <2>1, <3>1 DEF Create, TypeOK, cacheVars
  <2> QED
    BY <2>2, <2>3
<1>4. ASSUME NEW p \in Procs, Push(p) \/ Recent(p) \/ Clear(p)
      PROVE  PushesReachTheMap'
  <2>1. \A q \in Procs : pc'[q] = "push" =>
          q # p /\ pc[q] = "push" /\ sb'[q] = sb[q] /\ arg'[q] = arg[q]
    BY <1>4 DEF Push, Recent, Clear, Return, TypeOK
  <2>2. buffers' = buffers /\ overlap \subseteq overlap' \cup {p}
    BY <1>4 DEF Push, Recent, Clear, cacheVars, ghosts
  <2> QED
    BY <2>1, <2>2 DEF PushesReachTheMap
<1>5. CASE ClearAll
  BY <1>5 DEF ClearAll, PushesReachTheMap, procVars
<1>6. CASE UNCHANGED vars
  BY <1>6 DEF vars, cacheVars, procVars, ghosts, PushesReachTheMap
<1> QED
  BY <1>1, <1>2, <1>3, <1>4, <1>5, <1>6 DEF Next, Call, Step

LEMMA Invariance == Spec => []IInv
<1>1. Init => IInv
  BY InitType, InitOwned DEF IInv
<1>2. IInv /\ [Next]_vars => IInv'
  BY NextType, NextOwned, NextPushes DEF IInv
<1> QED
  BY <1>1, <1>2, PTL DEF Spec

\* With the double-check of getOrCreate every Add pushes into the buffer that the map
\* holds for its service, unless a ClearAll ran during the call.
THEOREM AddsReachTheMap == Spec => []PushesReachTheMap
  BY Invariance, PTL DEF IInv

\* No two services share a buffer, and a buffer only ever holds lines of one service.
THEOREM ServicesStayApart == Spec => []BuffersKeepServicesApart
<1>1. IInv => BuffersKeepServicesApart
  <2> SUFFICES ASSUME IInv PROVE BuffersKeepServicesApart
    OBVIOUS
  <2>1. PICK owner \in [1..Len(heap) -> Services] : OwnedBy(owner)
    BY DEF IInv, Owned
  <2> QED
    BY <2>1 DEF OwnedBy, BuffersKeepServicesApart
<1> QED
  BY <1>1, Invariance, PTL

-----------------------------------------------------------------------------
(* LogCache implements ServiceLogs. *)

LEMMA InitImplements == Init => Abstract!Init
  BY DEF Init, Abstract!Init, Contents, Adding

\* A goroutine that looks a service up begins nothing but, perhaps, an Add.
LEMMA LookupAdding ==
  ASSUME TypeOK, NEW p \in Procs, NEW a \in LogEntry,
         NEW found \in {"push", "read", "clear"}, NEW missing \in {"idle", "create"},
         found = "push" <=> missing = "create",
         Lookup(p, a, found, missing)
  PROVE  /\ Adding(p) = {} /\ Adding(p)' = IF found = "push" THEN {a} ELSE {}
         /\ \A q \in Procs : q # p => Adding(q)' = Adding(q)
  BY DEF Lookup, Adding, TypeOK

LEMMA ReturnAdding ==
  ASSUME TypeOK, NEW p \in Procs, Return(p)
  PROVE  Adding(p)' = {} /\ \A q \in Procs : q # p => Adding(q)' = Adding(q)
  BY DEF Return, Adding, TypeOK

LEMMA StepImplements ==
  ASSUME IInv, [Next]_vars
  PROVE  [Abstract!Next]_(Abstract!vars)
<1> USE DEF IInv
<1> DEFINE logs == [s \in Services |-> Contents(s)]
           pending == [p \in Procs |-> Adding(p)]
<1>0. PICK owner \in [1..Len(heap) -> Services] : OwnedBy(owner)
  BY DEF Owned
<1>1. ASSUME NEW p \in Procs, NEW s \in Services, Add(p, s)
      PROVE  Abstract!Begin(p)
  <2> DEFINE a == [ID |-> added + 1, Service |-> s]
  <2>1. a \in LogEntry /\ a \in Entry
    BY <1>1, AddedType DEF Add, Entry
  <2>2. Lookup(p, a, "push", "create") /\ UNCHANGED <<cacheVars, overlap>>
    BY <1>1 DEF Add
  <2> HIDE DEF a
  <2>3. Adding(p) = {} /\ pending' = [pending EXCEPT ![p] = {a}]
    BY <2>1, <2>2, LookupAdding
  <2>4. logs' = logs
    BY <2>2 DEF Contents, cacheVars
  <2> QED
    BY <2>1, <2>2, <2>3, <2>4 DEF Abstract!Begin
<1>2. ASSUME NEW p \in Procs, NEW s \in Services, RecentLookup(p, s) \/ ClearLookup(p, s)
      PROVE  UNCHANGED Abstract!vars
  <2>1. PICK found \in {"read", "clear"} : Lookup(p, Blank(s), found, "idle")
    BY <1>2 DEF RecentLookup, ClearLookup
  <2>2. pending' = pending
    <3>1. Blank(s) \in LogEntry
      BY BlankType
    <3>2. Adding(p) = {} /\ Adding(p)' = {} /\ \A q \in Procs : q # p => Adding(q)' = Adding(q)
      BY <2>1, <3>1, LookupAdding
    <3> QED
      BY <3>2
  <2>3. logs' = logs /\ overlap' = overlap
    BY <1>2 DEF RecentLookup, ClearLookup, Contents, cacheVars
  <2> QED
    BY <2>2, <2>3 DEF Abstract!vars
<1>3. ASSUME NEW p \in Procs, Create(p)
      PROVE  UNCHANGED Abstract!vars
  <2>1. pending' = pending /\ overlap' = overlap
    BY <1>3 DEF Create, Adding, TypeOK, ghosts
  <2>2. ASSUME NEW s \in Services PROVE Contents(s)' = Contents(s)
    <3>1. CASE buffers[arg[p].Service] # 0
      BY <1>3, <3>1 DEF Create, Contents, cacheVars
    <3>2. CASE buffers[arg[p].Service] = 0
      <4>0. heap \in Seq(Seq(Entry)) /\ <<>> \in Seq(Entry) /\ heap' = Append(heap, <<>>)
        BY <1>3, <3>2 DEF Create, TypeOK
      <4>1. /\ Len(heap) \in Nat /\ heap'[Len(heap) + 1] = <<>>
            /\ \A b \in 1..Len(heap) : heap'[b] = heap[b]
        BY <4>0
      <4>2. CASE s = arg[p].Service
        <5>1. buffers'[s] = Len(heap) + 1
          BY <1>3, <3>2, <4>2 DEF Create, TypeOK
        <5> QED
          BY <3>2, <4>1, <4>2, <5>1 DEF Contents
      <4>3. CASE s # arg[p].Service
        <5>1. buffers'[s] = buffers[s] /\ buffers[s] \in 0..Len(heap)
          BY <1>3, <3>2, <4>3 DEF Create, TypeOK
        <5> QED
          BY <4>1, <5>1 DEF Contents
      <4> QED
        BY <4>2, <4>3
    <3> QED
      BY <3>1, <3>2
  <2> QED
    BY <2>1, <2>2 DEF Abstract!vars
<1>4. ASSUME NEW p \in Procs, Push(p)
      PROVE  Abstract!Append1(p) \/ Abstract!Cleared(p)
  <2>0. arg[p] \in Entry
    BY <1>4, ArgType DEF Push
  <2>1. sb[p] \in 1..Len(heap) /\ heap[sb[p]] \in Seq(Entry) /\ arg[p].Service \in Services
    BY <1>4, <2>0 DEF Push, TypeOK, Entry
  <2>2. Adding(p) = {arg[p]}
    BY <1>4 DEF Push, Adding
  <2>3. Return(p) /\ overlap' = overlap \ {p} /\ buffers' = buffers
    BY <1>4 DEF Push
  <2>4. pending' = [pending EXCEPT ![p] = {}]
    BY <2>3, ReturnAdding
  <2>5. Abstract!End(p)
    BY <2>3, <2>4 DEF Abstract!End
  <2>6. heap' = [heap EXCEPT ![sb[p]] = Newest(Append(heap[sb[p]], arg[p]))]
    BY <1>4 DEF Push
  <2>7. \A s \in Services : buffers[s] = sb[p] => s = arg[p].Service
    BY <1>0, <1>4, <2>1 DEF OwnedBy, Push, Using
  <2>8. CASE buffers[arg[p].Service] = sb[p]
    <3>1. \A s \in Services : Contents(s)' = IF s = arg[p].Service
                               THEN Newest(Append(Contents(s), arg[p])) ELSE Contents(s)
      BY <2>1, <2>3, <2>6, <2>7, <2>8 DEF Contents, TypeOK
    <3>2. logs' = [logs EXCEPT ![arg[p].Service] = Abstract!Newest(Append(@, arg[p]))]
      BY <2>1, <3>1 DEF Newest, Abstract!Newest
    <3>3. \E e \in pending[p] :
            logs' = [logs EXCEPT ![e.Service] = Abstract!Newest(Append(@, e))]
      BY <2>2, <3>2
    <3> QED
      BY <2>5, <3>3 DEF Abstract!Append1
  <2>9. CASE buffers[arg[p].Service] # sb[p]
    <3>1. p \in overlap
      BY <1>4, <2>9 DEF PushesReachTheMap, Push
    <3>2. \A s \in Services : Contents(s)' = Contents(s)
      BY <2>1, <2>3, <2>6, <2>7, <2>9 DEF Contents, TypeOK
    <3> QED
      BY <2>5, <3>1, <3>2 DEF Abstract!Cleared
  <2> QED
    BY <2>8, <2>9
<1>5. ASSUME NEW p \in Procs, Recent(p)
      PROVE  UNCHANGED Abstract!vars
  <2>1. Adding(p) = {} /\ Return(p) /\ UNCHANGED <<cacheVars, overlap>>
    BY <1>5 DEF Recent, Adding, ghosts
  <2>2. pending' = pending
    BY <2>1, ReturnAdding
  <2> QED
    BY <2>1, <2>2 DEF Abstract!vars, Contents, cacheVars
<1>6. ASSUME NEW p \in Procs, Clear(p)
      PROVE  UNCHANGED Abstract!vars \/ \E s \in Services : Abstract!Clear(s)
  <2>1. Adding(p) = {} /\ Return(p) /\ UNCHANGED <<buffers, overlap>>
    BY <1>6 DEF Clear, Adding
  <2>2. pending' = pending
    BY <2>1, ReturnAdding
  <2>3. sb[p] \in 1..Len(heap) /\ arg[p].Service \in Services
    BY <1>6 DEF Clear, TypeOK, LogEntry
  <2>4. heap' = [heap EXCEPT ![sb[p]] = <<>>]
    BY <1>6 DEF Clear
  <2>5. \A s \in Services : buffers[s] = sb[p] => s = arg[p].Service
    BY <1>0, <1>6, <2>3 DEF OwnedBy, Clear, Using
  <2>6. CASE buffers[arg[p].Service] = sb[p]
    <3>1. \A s \in Services : Contents(s)' = IF s = arg[p].Service THEN <<>> ELSE Contents(s)
      BY <2>1, <2>3, <2>4, <2>5, <2>6 DEF Contents, TypeOK
    <3>2. logs' = [logs EXCEPT ![arg[p].Service] = <<>>]
      BY <2>3, <3>1
    <3> QED
      BY <2>1, <2>2, <2>3, <3>2 DEF Abstract!Clear
  <2>7. CASE buffers[arg[p].Service] # sb[p]
    <3>1. \A s \in Services : Contents(s)' = Contents(s)
      BY <2>1, <2>3, <2>4, <2>5, <2>7 DEF Contents, TypeOK
    <3> QED
      BY <2>1, <2>2, <3>1 DEF Abstract!vars
  <2> QED
    BY <2>6, <2>7
<1>7. CASE ClearAll
  <2>1. logs' = [s \in Services |-> <<>>]
    BY <1>7 DEF ClearAll, Contents
  <2>2. pending' = pending
    BY <1>7 DEF ClearAll, procVars, Adding
  <2>3. overlap' = {p \in Procs : pending[p] # {}}
    BY <1>7 DEF ClearAll, Adding
  <2>4. Abstract!ClearAll
    BY <2>1, <2>2, <2>3 DEF Abstract!ClearAll
  <2> QED
    BY <2>4 DEF Abstract!Next
<1>8. CASE UNCHANGED vars
  BY <1>8 DEF vars, cacheVars, procVars, ghosts, Abstract!vars, Contents, Adding
<1> QED
  BY <1>1, <1>2, <1>3, <1>4, <1>5, <1>6, <1>7, <1>8 DEF Next, Call, Step, Abstract!Next

\* The cache with its two levels of locks is one list per service for any number of
\* goroutines: every call of Add takes effect at one instant, or falls to a ClearAll.
THEOREM ImplementsAbstractCache == Spec => ImplementsServiceLogs
<1>1. IInv /\ [Next]_vars => [Abstract!Next]_(Abstract!vars)
  BY StepImplements
<1> QED
  BY <1>1, InitImplements, Invariance, PTL DEF Spec, ImplementsServiceLogs, Abstract!Spec

-----------------------------------------------------------------------------
(* Recent sees the Adds that had returned before it. *)

Keeps(q, e) == (\E i \in DOMAIN q : q[i] = e) \/ Len(q) = BufferSize

\* What was added is kept where the next reader, and one at work, will look for it.
KeptInv ==
  /\ \A b \in DOMAIN heap : Len(heap[b]) <= BufferSize
  /\ \A e \in finished : buffers[e.Service] # 0 /\ Keeps(heap[buffers[e.Service]], e)
  /\ \A p \in Procs : pc[p] = "read" => \A e \in expected[p] :
       e.Service = arg[p].Service /\ sb[p] = buffers[e.Service]
  /\ \A p \in Procs : pc[p] \in {"create", "push", "clear"} => expected[p] = {}
  /\ \A p \in Procs : pc[p] = "read" => \A e \in expected[p] : Keeps(heap[sb[p]], e)
  /\ RecentSeesFinishedAdds

\* Appending to a buffer that is within its size keeps the new entry and all the others,
\* or leaves the buffer full.
LEMMA KeepsAppend ==
  ASSUME NEW q \in Seq(Entry), NEW e \in Entry, Len(q) <= BufferSize
  PROVE  /\ Len(Newest(Append(q, e))) <= BufferSize
         /\ Keeps(Newest(Append(q, e)), e)
         /\ \A x : Keeps(q, x) => Keeps(Newest(Append(q, e)), x)
<1>0. BufferSize \in Nat \ {0} /\ Len(q) \in Nat
  BY CacheAssumption
<1>1. Append(q, e) \in Seq(Entry) /\ Len(Append(q, e)) = Len(q) + 1
  OBVIOUS
<1>2. \A i \in 1..(Len(q) + 1) : Append(q, e)[i] = IF i = Len(q) + 1 THEN e ELSE q[i]
  OBVIOUS
<1>3. CASE Len(q) = BufferSize
  <2>1. Newest(Append(q, e)) = Tail(Append(q, e))
    BY <1>0, <1>1, <1>3 DEF Newest
  <2>2. Len(Tail(Append(q, e))) = BufferSize
    BY <1>1, <1>3
  <2> QED
    BY <1>0, <2>1, <2>2 DEF Keeps
<1>4. CASE Len(q) < BufferSize
  <2>1. Newest(Append(q, e)) = Append(q, e)
    BY <1>0, <1>1, <1>4 DEF Newest
  <2>2. DOMAIN Append(q, e) = 1..(Len(q) + 1) /\ DOMAIN q = 1..Len(q)
    BY <1>1
  <2>3. Len(Append(q, e)) <= BufferSize
    BY <1>0, <1>1, <1>4
  <2>4. Keeps(Append(q, e), e)
    <3>1. Len(q) + 1 \in DOMAIN Append(q, e) /\ Append(q, e)[Len(q) + 1] = e
      BY <1>0, <1>2, <2>2
    <3> QED
      BY <3>1 DEF Keeps
  <2>5. ASSUME NEW x, Keeps(q, x) PROVE Keeps(Append(q, e), x)
    <3>1. PICK i \in DOMAIN q : q[i] = x
      BY <1>0, <1>4, <2>5 DEF Keeps
    <3>2. i \in DOMAIN Append(q, e) /\ Append(q, e)[i] = x
      BY <1>0, <1>2, <2>2, <3>1
    <3> QED
      BY <3>2 DEF Keeps
  <2> QED
    BY <2>1, <2>3, <2>4, <2>5
<1> QED
  BY <1>0, <1>3, <1>4

LEMMA InitKept == Init => KeptInv
  BY DEF Init, KeptInv, RecentSeesFinishedAdds

LEMMA LookupKept ==
  ASSUME TypeOK, KeptInv, NEW p \in Procs, NEW a \in LogEntry, NEW known \in SUBSET Entry,
         NEW found \in {"push", "read", "clear"}, NEW missing \in {"idle", "create"},
         Lookup(p, a, found, missing),
         UNCHANGED <<cacheVars, finished>>, expected' = [expected EXCEPT ![p] = known],
         known # {} => found = "read",
         \A e \in known : e \in finished /\ e.Service = a.Service
  PROVE  KeptInv'
<1>0. a.Service \in Services /\ pc[p] = "idle"
  BY DEF LogEntry, Lookup
<1>1. \A q \in Procs : q # p => /\ pc'[q] = pc[q] /\ arg'[q] = arg[q] /\ sb'[q] = sb[q]
                                /\ result'[q] = result[q] /\ expected'[q] = expected[q]
  BY DEF Lookup, TypeOK
<1>2. expected'[p] = known /\ sb'[p] = buffers[a.Service]
  BY DEF Lookup, TypeOK
<1>3. known # {} => /\ buffers[a.Service] # 0 /\ pc'[p] = "read" /\ arg'[p] = a
                    /\ \A e \in known : Keeps(heap[buffers[a.Service]], e)
  <2>1. \A e \in known : buffers[a.Service] # 0 /\ Keeps(heap[buffers[a.Service]], e)
    <3> SUFFICES ASSUME NEW e \in known
                 PROVE  buffers[a.Service] # 0 /\ Keeps(heap[buffers[a.Service]], e)
      OBVIOUS
    <3>1. e \in finished /\ e.Service = a.Service
      OBVIOUS
    <3>2. buffers[e.Service] # 0 /\ Keeps(heap[buffers[e.Service]], e)
      BY <3>1 DEF KeptInv
    <3> QED
      BY <3>1, <3>2
  <2>2. known # {} => buffers[a.Service] # 0
    BY <2>1
  <2>3. known # {} => pc'[p] = "read" /\ arg'[p] = a
    BY <1>0, <2>2 DEF Lookup, TypeOK
  <2> QED
    BY <2>1, <2>2, <2>3
<1>4. heap' = heap /\ buffers' = buffers /\ finished' = finished
  BY DEF cacheVars
<1>5. \A q \in Procs : pc'[q] = "read" => \A e \in expected'[q] :
        e.Service = arg'[q].Service /\ sb'[q] = buffers'[e.Service]
  BY <1>1, <1>2, <1>3, <1>4 DEF KeptInv
<1>6. \A q \in Procs : pc'[q] \in {"create", "push", "clear"} => expected'[q] = {}
  BY <1>1, <1>2, <1>3 DEF KeptInv
<1>7. \A q \in Procs : pc'[q] = "read" => \A e \in expected'[q] : Keeps(heap[sb'[q]], e)
  BY <1>1, <1>2, <1>3 DEF KeptInv
<1>8. RecentSeesFinishedAdds'
  BY <1>1, <1>2, <1>3 DEF KeptInv, RecentSeesFinishedAdds
<1> QED
  BY <1>4, <1>5, <1>6, <1>7, <1>8 DEF KeptInv, Keeps

LEMMA NextKept ==
  ASSUME IInv, KeptInv, [Next]_vars
  PROVE  KeptInv'
<1> USE DEF IInv
<1>0. PICK owner \in [1..Len(heap) -> Services] : OwnedBy(owner)
  BY DEF Owned
<1>1. ASSUME NEW p \in Procs, NEW s \in Services, Add(p, s)
      PROVE  KeptInv'
  <2> DEFINE a == [ID |-> added + 1, Service |-> s]
  <2>1. a \in LogEntry
    BY <1>1, AddedType DEF Add
  <2>2. Lookup(p, a, "push", "create") /\ UNCHANGED <<cacheVars, finished>>
    BY <1>1 DEF Add
  <2>3. expected' = [expected EXCEPT ![p] = {}]
    BY <1>1 DEF Add
  <2> HIDE DEF a
  <2> QED
    BY <2>1, <2>2, <2>3, LookupKept
<1>2. ASSUME NEW p \in Procs, NEW s \in Services, RecentLookup(p, s)
      PROVE  KeptInv'
  <2> DEFINE known == {e \in finished : e.Service = s}
  <2>1. Lookup(p, Blank(s), "read", "idle") /\ UNCHANGED <<cacheVars, finished>>
    BY <1>2 DEF RecentLookup
  <2>2. expected' = [expected EXCEPT ![p] = known]
    BY <1>2 DEF RecentLookup
  <2>3. known \in SUBSET Entry /\ \A e \in known : e \in finished /\ e.Service = Blank(s).Service
    BY BlankType DEF TypeOK
  <2> HIDE DEF known
  <2> QED
    BY <2>1, <2>2, <2>3, BlankType, LookupKept
<1>3. ASSUME NEW p \in Procs, NEW s \in Services, ClearLookup(p, s)
      PROVE  KeptInv'
  <2>1. Lookup(p, Blank(s), "clear", "idle") /\ UNCHANGED <<cacheVars, finished>>
    BY <1>3 DEF ClearLookup
  <2>2. expected' = [expected EXCEPT ![p] = {}]
    BY <1>3 DEF ClearLookup
  <2> QED
    BY <2>1, <2>2, BlankType, LookupKept
<1>4. ASSUME NEW p \in Procs, Create(p)
      PROVE  KeptInv'
  <2>0. /\ pc' = [pc EXCEPT ![p] = "push"] /\ pc[p] = "create" /\ expected[p] = {}
        /\ UNCHANGED <<arg, result, finished, expected>>
    BY <1>4 DEF Create, KeptInv, ghosts
  <2>1. \A q \in Procs : q # p => pc'[q] = pc[q] /\ sb'[q] = sb[q]
    BY <1>4 DEF Create, TypeOK
  <2> DEFINE longer == Append(heap, <<>>)
  <2>a. heap \in Seq(Seq(Entry)) /\ <<>> \in Seq(Entry) /\ Len(<<>>) = 0
    BY DEF TypeOK
  <2>b. heap' = heap \/ heap' = longer
    BY <1>4 DEF Create, cacheVars
  <2>c. /\ DOMAIN heap = 1..Len(heap) /\ DOMAIN longer = 1..(Len(heap) + 1) /\ Len(heap) \in Nat
        /\ \A b \in 1..(Len(heap) + 1) : longer[b] = IF b = Len(heap) + 1 THEN <<>> ELSE heap[b]
    BY <2>a
  <2>2. \A b \in DOMAIN heap : b \in DOMAIN heap' /\ heap'[b] = heap[b]
    <3>1. \A b \in DOMAIN heap : b \in DOMAIN longer /\ longer[b] = heap[b]
      BY <2>c
    <3> QED
      BY <2>b, <3>1
  <2>3. \A b \in DOMAIN heap' : Len(heap'[b]) <= BufferSize
    <3>1. \A b \in DOMAIN longer : longer[b] = <<>> \/ (b \in DOMAIN heap /\ longer[b] = heap[b])
      BY <2>c
    <3>2. \A b \in DOMAIN longer : Len(longer[b]) <= BufferSize
      BY <2>a, <3>1, CacheAssumption DEF KeptInv
    <3> HIDE DEF longer
    <3> QED
      BY <2>b, <3>2 DEF KeptInv
  <2>4. \A s \in Services : buffers[s] # 0 => buffers'[s] = buffers[s] /\ buffers[s] \in DOMAIN heap
    BY <1>4 DEF Create, TypeOK, cacheVars
  <2>5. \A e \in finished : e.Service \in Services
    BY DEF TypeOK, Entry
  <2>6. \A e \in finished' : buffers'[e.Service] # 0 /\ Keeps(heap'[buffers'[e.Service]], e)
    BY <2>0, <2>2, <2>4, <2>5 DEF KeptInv
  <2>7. \A q \in Procs : pc'[q] = "read" => \A e \in expected'[q] :
          /\ e.Service = arg'[q].Service /\ sb'[q] = buffers'[e.Service]
          /\ Keeps(heap'[sb'[q]], e)
    <3> SUFFICES ASSUME NEW q \in Procs, pc'[q] = "read", NEW e \in expected[q]
                 PROVE  /\ e.Service = arg[q].Service /\ sb'[q] = buffers'[e.Service]
                        /\ Keeps(heap'[sb'[q]], e)
      BY <2>0
    <3>1. q # p /\ pc[q] = "read" /\ sb'[q] = sb[q] /\ sb[q] # 0
      BY <2>0, <2>1 DEF TypeOK
    <3>2. e.Service = arg[q].Service /\ sb[q] = buffers[e.Service] /\ Keeps(heap[sb[q]], e)
      BY <3>1 DEF KeptInv
    <3>3. e.Service \in Services
      BY DEF TypeOK, Entry
    <3> QED
      BY <2>2, <2>4, <3>1, <3>2, <3>3
  <2>8. \A q \in Procs : pc'[q] \in {"create", "push", "clear"} => expected'[q] = {}
    BY <2>0, <2>1 DEF KeptInv
  <2>9. RecentSeesFinishedAdds'
    BY <2>0, <2>1 DEF KeptInv, RecentSeesFinishedAdds
  <2> QED
    BY <2>3, <2>6, <2>7, <2>8, <2>9 DEF KeptInv, Keeps
<1>5. ASSUME NEW p \in Procs, Push(p)
      PROVE  KeptInv'
  <2>0. arg[p] \in Entry
    BY <1>5, ArgType DEF Push
  <2>1. sb[p] \in 1..Len(heap) /\ heap[sb[p]] \in Seq(Entry) /\ DOMAIN heap = 1..Len(heap)
    BY <1>5 DEF Push, TypeOK
  <2>2. /\ heap' = [heap EXCEPT ![sb[p]] = Newest(Append(heap[sb[p]], arg[p]))]
        /\ UNCHANGED <<buffers, result, expected>> /\ Return(p)
        /\ expected[p] = {} /\ pc[p] = "push"
    BY <1>5 DEF Push, KeptInv
  <2>3. /\ Len(Newest(Append(heap[sb[p]], arg[p]))) <= BufferSize
        /\ Keeps(Newest(Append(heap[sb[p]], arg[p])), arg[p])
        /\ \A x : Keeps(heap[sb[p]], x) => Keeps(Newest(Append(heap[sb[p]], arg[p])), x)
    BY <2>0, <2>1, KeepsAppend DEF KeptInv
  <2>4. /\ DOMAIN heap' = DOMAIN heap
        /\ \A b \in DOMAIN heap : /\ Len(heap'[b]) <= BufferSize
                                  /\ \A x : Keeps(heap[b], x) => Keeps(heap'[b], x)
    BY <2>1, <2>2, <2>3 DEF KeptInv
  <2>5. Keeps(heap'[sb[p]], arg[p])
    BY <2>1, <2>2, <2>3
  <2>6. \A e \in finished' : buffers'[e.Service] # 0 /\ Keeps(heap'[buffers'[e.Service]], e)
    <3> SUFFICES ASSUME NEW e \in finished' PROVE buffers[e.Service] # 0 /\ Keeps(heap'[buffers[e.Service]], e)
      BY <2>2
    <3>1. CASE e \in finished
      <4>1. e.Service \in Services /\ buffers[e.Service] # 0 /\ Keeps(heap[buffers[e.Service]], e)
        BY <3>1 DEF KeptInv, TypeOK, Entry
      <4>2. buffers[e.Service] \in DOMAIN heap
        BY <2>1, <4>1 DEF TypeOK
      <4> QED
        BY <2>4, <4>1, <4>2
    <3>2. CASE e \notin finished
      <4>1. e = arg[p] /\ p \notin overlap
        BY <1>5, <3>2 DEF Push
      <4>2. sb[p] = buffers[e.Service]
        BY <1>5, <4>1 DEF Push, PushesReachTheMap
      <4> QED
        BY <2>1, <2>5, <4>1, <4>2
    <3> QED
      BY <3>1, <3>2
  <2>7. \A q \in Procs : q # p => pc'[q] = pc[q] /\ sb'[q] = sb[q] /\ arg'[q] = arg[q]
    BY <2>2 DEF Return, TypeOK
  <2>8. pc'[p] = "idle"
    BY <2>2 DEF Return, TypeOK
  <2>9. \A q \in Procs : pc'[q] = "read" => \A e \in expected'[q] :
          /\ e.Service = arg'[q].Service /\ sb'[q] = buffers'[e.Service]
          /\ Keeps(heap'[sb'[q]], e)
    <3> SUFFICES ASSUME NEW q \in Procs, pc'[q] = "read", NEW e \in expected[q]
                 PROVE  /\ e.Service = arg'[q].Service /\ sb'[q] = buffers[e.Service]
                        /\ Keeps(heap'[sb'[q]], e)
      BY <2>2
    <3>1. q # p /\ pc[q] = "read" /\ sb'[q] = sb[q] /\ arg'[q] = arg[q]
      BY <2>7, <2>8
    <3>2. e.Service = arg[q].Service /\ sb[q] = buffers[e.Service] /\ Keeps(heap[sb[q]], e)
      BY <3>1 DEF KeptInv
    <3>3. sb[q] \in DOMAIN heap
      BY <2>1, <3>1 DEF TypeOK
    <3> QED
      BY <2>4, <3>1, <3>2, <3>3
  <2>10. \A q \in Procs : pc'[q] \in {"create", "push", "clear"} => expected'[q] = {}
    BY <2>2, <2>7, <2>8 DEF KeptInv
  <2>11. RecentSeesFinishedAdds'
    BY <2>2, <2>7, <2>8 DEF KeptInv, RecentSeesFinishedAdds
  <2> QED
    BY <2>4, <2>6, <2>9, <2>10, <2>11 DEF KeptInv, Keeps
<1>6. ASSUME NEW p \in Procs, Recent(p)
      PROVE  KeptInv'
  <2>1. /\ result' = [result EXCEPT ![p] = heap[sb[p]]] /\ Return(p) /\ pc[p] = "read"
        /\ UNCHANGED <<heap, buffers, finished, expected>>
    BY <1>6 DEF Recent, cacheVars, ghosts
  <2>2. \A q \in Procs : q # p => /\ pc'[q] = pc[q] /\ sb'[q] = sb[q] /\ arg'[q] = arg[q]
                                  /\ result'[q] = result[q]
    BY <2>1 DEF Return, TypeOK
  <2>3. pc'[p] = "idle" /\ result'[p] = heap[sb[p]]
    BY <2>1 DEF Return, TypeOK
  <2>4. RecentSeesFinishedAdds'
    BY <2>1, <2>2, <2>3 DEF KeptInv, Keeps, RecentSeesFinishedAdds
  <2>5. \A q \in Procs : pc'[q] # "idle" => /\ pc'[q] = pc[q] /\ sb'[q] = sb[q]
                                           /\ arg'[q] = arg[q] /\ expected'[q] = expected[q]
    BY <2>1, <2>2, <2>3
  <2>6. \A q \in Procs : pc'[q] = "read" => \A e \in expected'[q] :
          /\ e.Service = arg'[q].Service /\ sb'[q] = buffers'[e.Service]
          /\ Keeps(heap'[sb'[q]], e)
    <3> SUFFICES ASSUME NEW q \in Procs, pc'[q] = "read", NEW e \in expected'[q]
                 PROVE  /\ e.Service = arg[q].Service /\ sb[q] = buffers[e.Service]
                        /\ Keeps(heap[sb[q]], e)
      BY <2>1, <2>5
    <3>1. pc[q] = "read" /\ e \in expected[q]
      BY <2>5
    <3> QED
      BY <3>1 DEF KeptInv
  <2>7. \A q \in Procs : pc'[q] \in {"create", "push", "clear"} => expected'[q] = {}
    BY <2>5 DEF KeptInv
  <2> QED
    BY <2>1, <2>4, <2>6, <2>7 DEF KeptInv, Keeps
<1>7. ASSUME NEW p \in Procs, Clear(p)
      PROVE  KeptInv'
  <2> DEFINE gone == {e \in Entry : e.Service = arg[p].Service}
  <2>1. sb[p] \in 1..Len(heap) /\ DOMAIN heap = 1..Len(heap) /\ arg[p].Service \in Services
    BY <1>7 DEF Clear, TypeOK, LogEntry
  <2>2. /\ heap' = [heap EXCEPT ![sb[p]] = <<>>] /\ Return(p) /\ pc[p] = "clear"
        /\ UNCHANGED <<buffers, result>> /\ expected[p] = {}
    BY <1>7 DEF Clear, KeptInv
  <2>3. \A s \in Services : buffers[s] = sb[p] => s = arg[p].Service
    BY <1>0, <1>7, <2>1 DEF OwnedBy, Clear, Using
  <2>4. /\ finished' \subseteq finished
        /\ \A q \in Procs : expected'[q] \subseteq expected[q]
        /\ \A q \in Procs : pc[q] # "read" => expected'[q] = expected[q]
    <3>1. CASE sb[p] = buffers[arg[p].Service]
      <4>1. /\ finished' = finished \ gone
            /\ expected' = [q \in Procs |-> IF pc[q] = "read" THEN expected[q] \ gone ELSE expected[q]]
        BY <1>7, <3>1 DEF Clear, Forget
      <4> HIDE DEF gone
      <4> QED
        BY <4>1
    <3>2. CASE sb[p] # buffers[arg[p].Service]
      BY <1>7, <3>2 DEF Clear
    <3> QED
      BY <3>1, <3>2
  <2>5. \A e \in finished' : buffers[e.Service] # sb[p]
    <3> SUFFICES ASSUME NEW e \in finished', buffers[e.Service] = sb[p] PROVE FALSE
      OBVIOUS
    <3>1. e \in Entry /\ e.Service = arg[p].Service
      BY <2>3, <2>4 DEF TypeOK, Entry
    <3> QED
      BY <1>7, <3>1 DEF Clear, Forget
  <2>6. \A q \in Procs : pc[q] = "read" => \A e \in expected'[q] : buffers[e.Service] # sb[p]
    <3> SUFFICES ASSUME NEW q \in Procs, pc[q] = "read", NEW e \in expected'[q],
                        buffers[e.Service] = sb[p]
                 PROVE  FALSE
      OBVIOUS
    <3>1. e \in Entry /\ e.Service = arg[p].Service
      BY <2>3, <2>4 DEF TypeOK, Entry
    <3> QED
      BY <1>7, <3>1 DEF Clear, Forget
  <2>7. \A b \in DOMAIN heap' : b \in DOMAIN heap /\ Len(heap'[b]) <= BufferSize
    <3>1. Len(<<>>) = 0
      OBVIOUS
    <3> QED
      BY <2>1, <2>2, <3>1, CacheAssumption DEF KeptInv
  <2>8. \A b \in DOMAIN heap : b # sb[p] => heap'[b] = heap[b]
    BY <2>2
  <2>9. \A e \in finished' : buffers'[e.Service] # 0 /\ Keeps(heap'[buffers'[e.Service]], e)
    <3> SUFFICES ASSUME NEW e \in finished'
                 PROVE  buffers[e.Service] # 0 /\ Keeps(heap'[buffers[e.Service]], e)
      BY <2>2
    <3>1. e.Service \in Services /\ buffers[e.Service] # 0 /\ Keeps(heap[buffers[e.Service]], e)
      BY <2>4 DEF KeptInv, TypeOK, Entry
    <3>2. buffers[e.Service] \in DOMAIN heap
      BY <2>1, <3>1 DEF TypeOK
    <3> QED
      BY <2>5, <2>8, <3>1, <3>2
  <2>10. \A q \in Procs : q # p => pc'[q] = pc[q] /\ sb'[q] = sb[q] /\ arg'[q] = arg[q]
    BY <2>2 DEF Return, TypeOK
  <2>11. pc'[p] = "idle"
    BY <2>2 DEF Return, TypeOK
  <2>12. \A q \in Procs : pc'[q] = "read" => \A e \in expected'[q] :
           /\ e.Service = arg'[q].Service /\ sb'[q] = buffers'[e.Service]
           /\ Keeps(heap'[sb'[q]], e)
    <3> SUFFICES ASSUME NEW q \in Procs, pc'[q] = "read", NEW e \in expected'[q]
                 PROVE  /\ e.Service = arg'[q].Service /\ sb'[q] = buffers[e.Service]
                        /\ Keeps(heap'[sb'[q]], e)
      BY <2>2
    <3>1. q # p /\ pc[q] = "read" /\ sb'[q] = sb[q] /\ arg'[q] = arg[q] /\ e \in expected[q]
      BY <2>4, <2>10, <2>11
    <3>2. e.Service = arg[q].Service /\ sb[q] = buffers[e.Service] /\ Keeps(heap[sb[q]], e)
      BY <3>1 DEF KeptInv
    <3>3. sb[q] \in DOMAIN heap /\ sb[q] # sb[p]
      BY <2>1, <2>6, <3>1, <3>2 DEF TypeOK
    <3> QED
      BY <2>8, <3>1, <3>2, <3>3
  <2>13. \A q \in Procs : pc'[q] \in {"create", "push", "clear"} => expected'[q] = {}
    BY <2>4, <2>10, <2>11 DEF KeptInv
  <2>14. RecentSeesFinishedAdds'
    BY <2>2, <2>4, <2>10, <2>11 DEF KeptInv, RecentSeesFinishedAdds
  <2> QED
    BY <2>7, <2>9, <2>12, <2>13, <2>14 DEF KeptInv, Keeps
<1>8. CASE ClearAll
  <2>1. finished' = {}
    BY <1>8 DEF ClearAll, Forget, TypeOK
  <2>2. \A q \in Procs : expected'[q] = IF pc[q] = "read" THEN {} ELSE expected[q]
    BY <1>8 DEF ClearAll, Forget, TypeOK
  <2>3. UNCHANGED <<heap, pc, arg, sb, result>>
    BY <1>8 DEF ClearAll, procVars
  <2> QED
    BY <2>1, <2>2, <2>3 DEF KeptInv, Keeps, RecentSeesFinishedAdds
<1>9. CASE UNCHANGED vars
  BY <1>9 DEF vars, cacheVars, procVars, ghosts, KeptInv, Keeps, RecentSeesFinishedAdds
<1> QED
  BY <1>1, <1>2, <1>3, <1>4, <1>5, <1>6, <1>7, <1>8, <1>9 DEF Next, Call, Step

\* A Recent returns every entry of its service whose Add had returned before it began and
\* that nobody has cleared since, unless a full buffer has moved on.
THEOREM RecentSeesThem == Spec => []RecentSeesFinishedAdds
<1>1. KeptInv => RecentSeesFinishedAdds
  BY DEF KeptInv
<1> QED
  BY <1>1, InitKept, NextKept, Invariance, PTL DEF Spec
=============================================================================
