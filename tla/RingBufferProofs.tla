-------------------------- MODULE RingBufferProofs --------------------------
(* The ring buffer is a bounded list, for every capacity and every use.    *)
EXTENDS RingBuffer, SequenceTheorems, TLAPS

LEMMA CapIsPositive == Cap \in Nat \ {0}
  BY RingAssumption DEF Cap

\* Where the i-th of the m newest entries is, without the remainders: m entries back from
\* the write position h, one turn further if that is before the first slot.
Slot(h, m, i) == IF h - m + i - 1 >= 0 THEN h - m + i - 1 ELSE h - m + i - 1 + Cap

LEMMA RemainderBelow == ASSUME NEW n \in Nat \ {0}, NEW a \in 0..(n - 1) PROVE a % n = a
  OBVIOUS

LEMMA RemainderAbove == ASSUME NEW n \in Nat \ {0}, NEW a \in n..(2 * n - 1) PROVE a % n = a - n
  OBVIOUS

LEMMA WindowSlots ==
  ASSUME TypeOK, NEW m \in 0..Cap
  PROVE  Window(m) = [i \in 1..m |-> buf[Slot(head, m, i)]]
<1> DEFINE start == (head - m + Cap) % Cap
<1>1. Cap \in Nat \ {0} /\ head \in 0..(Cap - 1)
  BY CapIsPositive DEF TypeOK, Slots
<1>2. start = IF head - m >= 0 THEN head - m ELSE head - m + Cap
  <2>1. CASE head - m >= 0
    <3>1. head - m + Cap \in Cap..(2 * Cap - 1)
      BY <1>1, <2>1
    <3> QED BY <1>1, <2>1, <3>1, RemainderAbove
  <2>2. CASE head - m < 0
    <3>1. head - m + Cap \in 0..(Cap - 1)
      BY <1>1, <2>2
    <3> QED BY <1>1, <2>2, <3>1, RemainderBelow
  <2> QED BY <1>1, <2>1, <2>2
<1> HIDE DEF start
<1>3. ASSUME NEW i \in 1..m PROVE (start + i - 1) % Cap = Slot(head, m, i)
  <2>1. CASE start + i - 1 < Cap
    <3>1. start + i - 1 \in 0..(Cap - 1)
      BY <1>1, <1>2, <2>1
    <3> QED BY <1>1, <1>2, <2>1, <3>1, RemainderBelow DEF Slot
  <2>2. CASE start + i - 1 >= Cap
    <3>1. start + i - 1 \in Cap..(2 * Cap - 1)
      BY <1>1, <1>2, <2>2
    <3> QED BY <1>1, <1>2, <2>2, <3>1, RemainderAbove DEF Slot
  <2> QED BY <1>1, <1>2, <2>1, <2>2
<1> QED BY <1>3 DEF Window, start

\* The entries held, in a form that can be carried over to the next state.
Held == [i \in 1..count |-> buf[Slot(head, count, i)]]

LEMMA WindowIsHeld == TypeOK => Window(count) = Held
  BY WindowSlots DEF TypeOK, Held

LEMMA SlotIsSlot ==
  ASSUME TypeOK, NEW m \in 0..Cap, NEW i \in 1..m
  PROVE  Slot(head, m, i) \in Slots
  BY CapIsPositive DEF TypeOK, Slots, Slot

\* The next write position without the remainder.
LEMMA NextHead ==
  ASSUME TypeOK
  PROVE  (head + 1) % Cap = IF head + 1 = Cap THEN 0 ELSE head + 1
<1>1. Cap \in Nat \ {0} /\ head \in 0..(Cap - 1)
  BY CapIsPositive DEF TypeOK, Slots
<1>2. CASE head + 1 = Cap
  BY <1>1, <1>2, RemainderAbove
<1>3. CASE head + 1 # Cap
  <2>1. head + 1 \in 0..(Cap - 1)
    BY <1>1, <1>3
  <2> QED BY <1>1, <1>3, <2>1, RemainderBelow
<1> QED BY <1>2, <1>3

\* The slots in use hold entries, never the zero of an unused one.
Filled == \A i \in 1..count : buf[Slot(head, count, i)] \in 1..pushed

WindowInv == TypeOK /\ Filled

LEMMA WindowIsHeldNext == TypeOK' => (Window(count) = Held)'
  BY WindowIsHeld, PTL

\* Two ways to say that v is w with x behind it: nothing is dropped, or the oldest is.
LEMMA AppendEq ==
  ASSUME NEW S, NEW w \in Seq(S), NEW x \in S, NEW k \in Nat, k = Len(w) + 1,
         NEW v \in [1..k -> S], \A i \in 1..Len(w) : v[i] = w[i], v[k] = x
  PROVE  v = Append(w, x)
<1>1. v \in Seq(S) /\ Len(v) = k
  OBVIOUS
<1>2. Append(w, x) \in Seq(S) /\ Len(Append(w, x)) = k
  OBVIOUS
<1>3. \A i \in 1..Len(v) : v[i] = Append(w, x)[i]
  BY <1>1
<1> QED BY <1>1, <1>2, <1>3, SeqEqual

LEMMA TailAppendEq ==
  ASSUME NEW S, NEW w \in Seq(S), NEW x \in S, NEW k \in Nat \ {0}, k = Len(w),
         NEW v \in [1..k -> S], \A i \in 1..(k - 1) : v[i] = w[i + 1], v[k] = x
  PROVE  v = Tail(Append(w, x))
<1> DEFINE a == Append(w, x)
<1>1. v \in Seq(S) /\ Len(v) = k
  OBVIOUS
<1>2. /\ a \in Seq(S) /\ Len(a) = k + 1 /\ a # <<>>
      /\ \A i \in 1..k : a[i] = w[i]
      /\ a[k + 1] = x
  OBVIOUS
<1> HIDE DEF a
<1>3. Tail(a) \in Seq(S) /\ Len(Tail(a)) = k /\ \A i \in 1..k : Tail(a)[i] = a[i + 1]
  BY <1>2
<1>4. \A i \in 1..k : v[i] = a[i + 1]
  <2>1. ASSUME NEW i \in 1..(k - 1) PROVE v[i] = a[i + 1]
    <3>1. i + 1 \in 1..k
      OBVIOUS
    <3> QED BY <1>2, <3>1
  <2> QED BY <1>2, <2>1
<1> QED BY <1>1, <1>3, <1>4, SeqEqual DEF a

\* Pushing onto the array is pushing onto the bounded list.
LEMMA PushWindow ==
  ASSUME WindowInv, Push, TypeOK'
  PROVE  /\ Filled'
         /\ Window(count)' = Log!Newest(Append(Window(count), pushed + 1))
<1> DEFINE w == [i \in 1..count |-> buf[Slot(head, count, i)]]
           x == pushed + 1
           v == [i \in 1..count' |-> buf'[Slot(head', count', i)]]
<1>1. /\ Cap \in Nat \ {0} /\ head \in 0..(Cap - 1) /\ count \in 0..Cap
      /\ pushed \in Nat /\ pushed' = x
      /\ head' = IF head + 1 = Cap THEN 0 ELSE head + 1
      /\ count' = IF count < Cap THEN count + 1 ELSE count
      /\ buf' = [buf EXCEPT ![head] = x]
      /\ buf \in [0..(Cap - 1) -> 0..MaxPushes]
  BY CapIsPositive, NextHead, RingAssumption DEF WindowInv, TypeOK, Slots, Push
<1>2. Window(count) = w
  BY WindowIsHeld DEF WindowInv, Held
<1>3. Window(count)' = v
  BY WindowIsHeldNext DEF Held, Slot
<1>4. \A i \in 1..count : w[i] \in 1..pushed
  BY DEF WindowInv, Filled
<1>5. w \in Seq(1..pushed) /\ Len(w) = count
  BY <1>1, <1>4
<1>6. \A i \in 1..count : Slot(head, count, i) \in 0..(Cap - 1)
  BY <1>1 DEF Slot
<1>7. /\ count' \in 1..Cap
      /\ Slot(head', count', count') = head
      /\ \A i \in 1..count' : Slot(head', count', i) \in Slots
  BY <1>1 DEF Slot, Slots
<1>8. v[count'] = x /\ v \in [1..count' -> 0..MaxPushes]
  BY <1>1, <1>7 DEF TypeOK
<1>9. w \in Seq(1..x) /\ x \in 1..x
  BY <1>1, <1>5
<1>10. CASE count < Cap
  <2>1. \A i \in 1..count : v[i] = w[i]
    <3>1. ASSUME NEW i \in 1..count PROVE v[i] = w[i]
      <4>1. /\ i \in 1..count' /\ Slot(head', count', i) = Slot(head, count, i)
            /\ Slot(head, count, i) # head
        BY <1>1, <1>10 DEF Slot
      <4> QED BY <1>1, <1>6, <4>1
    <3> QED BY <3>1
  <2>2. count' = count + 1
    BY <1>1, <1>10
  <2>3. v \in [1..count' -> 1..x]
    <3>1. ASSUME NEW i \in 1..count' PROVE v[i] \in 1..x
      <4>1. CASE i = count'
        BY <1>8, <1>9, <4>1
      <4>2. CASE i # count'
        <5>1. i \in 1..count
          BY <1>1, <2>2, <4>2
        <5> HIDE DEF v, w
        <5>2. v[i] = w[i] /\ w[i] \in 1..pushed
          BY <1>4, <2>1, <5>1
        <5> QED BY <1>1, <5>2
      <4> QED BY <4>1, <4>2
    <3> HIDE DEF x
    <3> QED BY <3>1
  <2> HIDE DEF v, w, x
  <2>4. v = Append(w, x)
    BY <1>1, <1>5, <1>7, <1>8, <1>9, <2>1, <2>2, <2>3, AppendEq
  <2>5. v = Log!Newest(Append(w, x))
    BY <1>1, <1>5, <1>9, <1>10, <2>4 DEF Log!Newest
  <2>6. Filled'
    BY <1>1, <2>3 DEF Filled, Slot, v
  <2> QED BY <1>2, <1>3, <2>5, <2>6 DEF x
<1>11. CASE count = Cap
  <2>1. \A i \in 1..(count - 1) : v[i] = w[i + 1]
    <3>1. ASSUME NEW i \in 1..(count - 1) PROVE v[i] = w[i + 1]
      <4>1. /\ i \in 1..count' /\ i + 1 \in 1..count
            /\ Slot(head', count', i) = Slot(head, count, i + 1)
            /\ Slot(head, count, i + 1) # head
        BY <1>1, <1>11 DEF Slot
      <4> QED BY <1>1, <1>6, <4>1
    <3> QED BY <3>1
  <2>2. count' = count
    BY <1>1, <1>11
  <2>3. v \in [1..count' -> 1..x]
    <3>1. ASSUME NEW i \in 1..count' PROVE v[i] \in 1..x
      <4>1. CASE i = count'
        BY <1>8, <1>9, <4>1
      <4>2. CASE i # count'
        <5>1. i \in 1..(count - 1) /\ i + 1 \in 1..count
          BY <1>1, <2>2, <4>2
        <5> HIDE DEF v, w
        <5>2. v[i] = w[i + 1] /\ w[i + 1] \in 1..pushed
          BY <1>4, <2>1, <5>1
        <5> QED BY <1>1, <5>2
      <4> QED BY <4>1, <4>2
    <3> HIDE DEF x
    <3> QED BY <3>1
  <2> HIDE DEF v, w, x
  <2>4. v = Tail(Append(w, x))
    <3>1. count' \in Nat \ {0} /\ count' = Len(w) /\ \A i \in 1..(count' - 1) : v[i] = w[i + 1]
      BY <1>5, <1>7, <2>1, <2>2
    <3> QED BY <1>8, <1>9, <2>3, <3>1, TailAppendEq
  <2>5. v = Log!Newest(Append(w, x))
    BY <1>1, <1>5, <1>9, <1>11, <2>4 DEF Log!Newest
  <2>6. Filled'
    BY <1>1, <2>3 DEF Filled, Slot, v
  <2> QED BY <1>2, <1>3, <2>5, <2>6 DEF x
<1> QED BY <1>1, <1>10, <1>11

\* An emptied buffer is the empty list, whatever its array holds.
LEMMA WindowOfNone ==
  ASSUME WindowInv, TypeOK', count' = 0
  PROVE  Filled' /\ Window(count)' = <<>>
<1>1. Window(count)' = [i \in 1..0 |-> buf'[Slot(head', 0, i)]]
  BY WindowIsHeldNext DEF Held, Slot
<1>2. Filled'
  BY DEF Filled
<1> QED BY <1>1, <1>2

-----------------------------------------------------------------------------
LEMMA InitWindow == Init => WindowInv
<1> SUFFICES ASSUME Init PROVE WindowInv
  OBVIOUS
<1>1. TypeOK
  BY CapIsPositive, RingAssumption DEF Init, TypeOK, Slots, Zero
<1>2. Filled
  BY DEF Init, Filled
<1> QED BY <1>1, <1>2 DEF WindowInv

LEMMA TypeStep == WindowInv /\ [Next]_vars => TypeOK'
<1> SUFFICES ASSUME WindowInv, [Next]_vars PROVE TypeOK'
  OBVIOUS
<1>1. Cap \in Nat \ {0} /\ TypeOK
  BY CapIsPositive DEF WindowInv
<1>2. CASE Push
  BY <1>1, <1>2, NextHead, RingAssumption DEF TypeOK, Push, Slots
<1>3. CASE Clear
  BY <1>1, <1>3, RingAssumption DEF TypeOK, Clear, Slots, Zero
<1>4. CASE Drain
  <2>1. Window(count) = Held
    BY <1>1, WindowIsHeld
  <2>2. Held \in Seq(Entry)
    <3>1. \A i \in 1..count : buf[Slot(head, count, i)] \in Entry
      <4>1. pushed \in 0..MaxPushes /\ 1..pushed \subseteq Entry
        BY <1>1, RingAssumption DEF TypeOK, Entry
      <4> QED BY <4>1 DEF WindowInv, Filled
    <3>2. count \in Nat
      BY <1>1 DEF TypeOK
    <3> QED BY <3>1, <3>2 DEF Held
  <2> QED BY <1>1, <1>4, <2>1, <2>2 DEF TypeOK, Drain, Slots
<1>5. CASE UNCHANGED vars
  BY <1>1, <1>5 DEF TypeOK, vars, ring
<1> QED BY <1>2, <1>3, <1>4, <1>5 DEF Next

LEMMA WindowUnchanged ==
  ASSUME WindowInv, UNCHANGED vars
  PROVE  Filled' /\ Window(count)' = Window(count)
  BY DEF WindowInv, Filled, Slot, Window, vars, ring

LEMMA WindowStep == WindowInv /\ [Next]_vars => WindowInv'
<1> SUFFICES ASSUME WindowInv, [Next]_vars PROVE WindowInv'
  OBVIOUS
<1>1. TypeOK'
  BY TypeStep
<1>2. CASE Push
  BY <1>1, <1>2, PushWindow DEF WindowInv
<1>3. CASE Clear \/ Drain
  BY <1>1, <1>3, WindowOfNone DEF WindowInv, Clear, Drain
<1>4. CASE UNCHANGED vars
  BY <1>1, <1>4, WindowUnchanged DEF WindowInv
<1> QED BY <1>2, <1>3, <1>4 DEF Next

LEMMA WindowInvariant == Spec => []WindowInv
  BY InitWindow, WindowStep, PTL DEF Spec

\* The type invariant, for every capacity, also one that NewRingBuffer has to clamp.
THEOREM TypeCorrect == Spec => []TypeOK
<1>1. WindowInv => TypeOK
  BY DEF WindowInv
<1> QED BY <1>1, WindowInvariant, PTL

\* Every step of the array is a step of the bounded list or changes nothing of it.
LEMMA AbstractStep == WindowInv /\ [Next]_vars => [Log!Next]_(Log!vars)
<1> SUFFICES ASSUME WindowInv, [Next]_vars PROVE [Log!Next]_(Log!vars)
  OBVIOUS
<1>1. TypeOK'
  BY TypeStep
<1>2. CASE Push
  <2>1. pushed + 1 \in Entry
    BY <1>2, RingAssumption DEF WindowInv, TypeOK, Push, Entry
  <2>2. Window(count)' = Log!Newest(Append(Window(count), pushed + 1)) /\ taken' = taken
    BY <1>1, <1>2, PushWindow DEF Push
  <2> QED BY <2>1, <2>2 DEF Log!Next, Log!Push
<1>3. CASE Clear
  <2>1. Window(count)' = <<>> /\ taken' = taken
    BY <1>1, <1>3, WindowOfNone DEF Clear
  <2> QED BY <2>1 DEF Log!Next, Log!Clear
<1>4. CASE Drain
  <2>1. Window(count)' = <<>> /\ taken' = taken \o Window(count)
    BY <1>1, <1>4, WindowOfNone DEF Drain
  <2> QED BY <2>1 DEF Log!Next, Log!Take
<1>5. CASE UNCHANGED vars
  <2>1. Window(count)' = Window(count) /\ taken' = taken
    BY <1>5, WindowUnchanged DEF vars
  <2> QED BY <2>1 DEF Log!vars
<1> QED BY <1>2, <1>3, <1>4, <1>5 DEF Next

\* The circular array of the cache and of the client, with its wrapping write position, is
\* the list of the last Cap entries, for every capacity and any number of pushes.
THEOREM ImplementsAbstractLog == Spec => ImplementsBoundedLog
<1>1. Init => Log!Init
  <2> SUFFICES ASSUME Init PROVE Log!Init
    OBVIOUS
  <2>1. Window(count) = <<>>
    <3>1. Window(count) = Held
      BY InitWindow, WindowIsHeld DEF WindowInv
    <3> QED BY <3>1 DEF Init, Held
  <2> QED BY <2>1 DEF Init, Log!Init
<1>2. WindowInv /\ [Next]_vars => [Log!Next]_(Log!vars)
  BY AbstractStep
<1> QED BY <1>1, <1>2, WindowInvariant, PTL DEF Spec, ImplementsBoundedLog, Log!Spec

\* Recent(n) is the n newest entries held, oldest first, for every n.
THEOREM RecentIsAlwaysNewest == Spec => []RecentIsNewest
<1>1. WindowInv => RecentIsNewest
  <2> SUFFICES ASSUME WindowInv, NEW n \in (-1)..(Cap + 1)
               PROVE  /\ Len(Recent(n)) = (IF n < 0 THEN 0 ELSE IF n < count THEN n ELSE count)
                      /\ \A i \in DOMAIN Recent(n) :
                           Recent(n)[i] = Window(count)[Len(Window(count)) - Len(Recent(n)) + i]
    BY DEF RecentIsNewest
  <2> DEFINE m == IF n < 0 THEN 0 ELSE IF n < count THEN n ELSE count
  <2>1. Cap \in Nat \ {0} /\ count \in 0..Cap /\ head \in 0..(Cap - 1)
    BY CapIsPositive DEF WindowInv, TypeOK, Slots
  <2>2. m \in 0..count
    BY <2>1
  <2>3. Recent(n) = [i \in 1..m |-> buf[Slot(head, m, i)]]
    <3>1. CASE n <= 0
      BY <2>1, <3>1 DEF Recent
    <3>2. CASE n > 0
      BY <2>1, <2>2, <3>2, WindowSlots DEF Recent, WindowInv
    <3> QED BY <2>1, <3>1, <3>2
  <2>4. Window(count) = [i \in 1..count |-> buf[Slot(head, count, i)]]
    BY <2>1, WindowSlots DEF WindowInv
  <2> HIDE DEF m
  <2>5. Len(Recent(n)) = m /\ DOMAIN Recent(n) = 1..m /\ Len(Window(count)) = count
    BY <2>1, <2>2, <2>3, <2>4
  <2>6. ASSUME NEW i \in 1..m PROVE Recent(n)[i] = Window(count)[count - m + i]
    <3>1. count - m + i \in 1..count /\ Slot(head, m, i) = Slot(head, count, count - m + i)
      BY <2>1, <2>2 DEF Slot
    <3> QED BY <2>3, <2>4, <3>1
  <2> QED BY <2>5, <2>6 DEF m
<1> QED BY <1>1, WindowInvariant, PTL
=============================================================================
