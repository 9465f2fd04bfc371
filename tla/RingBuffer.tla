----------------------------- MODULE RingBuffer -----------------------------
(***************************************************************************)
(* The circular buffers of devlog: RingBuffer of internal/cache, in which  *)
(* the broker keeps the recent lines of a service, and lineBuffer of       *)
(* internal/client, in which a client keeps lines while it has no broker.  *)
(* They are the same array, write position and count; drain, which only    *)
(* lineBuffer has, leaves the old lines in the array, which Clear, which   *)
(* only RingBuffer has, overwrites.  Both are used under a lock, so an     *)
(* operation is one step.                                                  *)
(***************************************************************************)
EXTENDS Integers, Sequences

CONSTANTS Capacity,  \* the argument of NewRingBuffer
          MaxPushes  \* bound: entries pushed

ASSUME RingAssumption == Capacity \in Int /\ MaxPushes \in Nat

VARIABLES buf,    \* the array, its slots counted from 0
          head,   \* next write position
          count,  \* entries held
          pushed, \* how many entries were pushed; the entries are 1, 2, ...
          taken   \* all that drain has returned so far

ring == <<buf, head, count>>
vars == <<ring, pushed, taken>>

Zero  == 0
Entry == 1..MaxPushes

\* NewRingBuffer clamps a capacity below 1.
Cap   == IF Capacity < 1 THEN 1 ELSE Capacity
Slots == 0..(Cap - 1)

Init ==
  /\ buf = [i \in Slots |-> Zero]
  /\ head = 0 /\ count = 0
  /\ pushed = 0 /\ taken = <<>>

-----------------------------------------------------------------------------
(* Faulty variants of definitions below. The runs show that each breaks a    *)
(* property; none is part of the specification.                              *)

\* The window starts one entry late.
WindowOffByOne(m) ==
  LET start == (head - m + 1 + Cap) % Cap
  IN  [i \in 1..m |-> buf[(start + i - 1) % Cap]]

\* The wrapped position is used before it is written: slot Cap does not exist.
PushLateWrap ==
  /\ pushed < MaxPushes
  /\ pushed' = pushed + 1
  /\ buf' = [buf EXCEPT ![head] = pushed + 1]
  /\ head' = IF head = Cap THEN 0 ELSE head + 1
  /\ count' = IF count < Cap THEN count + 1 ELSE count
  /\ UNCHANGED taken

\* A limit beyond the entries held is not cut down to them.
RecentUnclamped(n) ==
  IF n <= 0 THEN <<>>
  ELSE [i \in 1..n |-> buf[(((head - n + Cap) % Cap) + i - 1) % Cap]]

-----------------------------------------------------------------------------
\* The m newest entries, oldest first.
Window(m) ==
  LET start == (head - m + Cap) % Cap
  IN  [i \in 1..m |-> buf[(start + i - 1) % Cap]]

Recent(n) == IF n <= 0 THEN <<>> ELSE Window(IF n > count THEN count ELSE n)

Push ==
  /\ pushed < MaxPushes
  /\ pushed' = pushed + 1
  /\ buf' = [buf EXCEPT ![head] = pushed + 1]
  /\ head' = (head + 1) % Cap
  /\ count' = IF count < Cap THEN count + 1 ELSE count
  /\ UNCHANGED taken

Clear ==
  /\ buf' = [i \in Slots |-> Zero]
  /\ head' = 0 /\ count' = 0
  /\ UNCHANGED <<pushed, taken>>

\* Nothing is returned, and nothing reset, when the buffer is empty.
Drain ==
  /\ count > 0
  /\ taken' = taken \o Window(count)
  /\ head' = 0 /\ count' = 0
  /\ UNCHANGED <<buf, pushed>>

Next == Push \/ Clear \/ Drain

Spec == Init /\ [][Next]_vars

-----------------------------------------------------------------------------
(* Properties. *)

\* Type correctness: the write position is a slot and the count fits the array.
TypeOK ==
  /\ buf \in [Slots -> 0..MaxPushes]
  /\ head \in Slots /\ count \in 0..Cap
  /\ pushed \in 0..MaxPushes
  /\ taken \in Seq(Entry)

Log == INSTANCE BoundedLog WITH N <- Cap, items <- Window(count)

\* The array with its wrapping indices behaves as a list of the last Cap entries pushed.
ImplementsBoundedLog == Log!Spec

\* Recent(n) of internal/cache is what its comment says for every n: the n newest entries
\* held, oldest first, all of them when n is larger, none when it is not positive.
RecentIsNewest ==
  \A n \in (-1)..(Cap + 1) :
    LET all  == Window(count)
        some == Recent(n)
    IN  /\ Len(some) = (IF n < 0 THEN 0 ELSE IF n < count THEN n ELSE count)
        /\ \A i \in DOMAIN some : some[i] = all[Len(all) - Len(some) + i]
=============================================================================
