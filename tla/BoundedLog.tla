----------------------------- MODULE BoundedLog -----------------------------
(***************************************************************************)
(* What the ring buffers of the cache and of the client promise: they hold *)
(* the last N entries pushed, oldest first, and give each of them away at  *)
(* most once.                                                              *)
(***************************************************************************)
EXTENDS Naturals, Sequences

CONSTANTS Entry, N

VARIABLES items, \* the entries held, oldest first
          taken  \* the entries drained so far

vars == <<items, taken>>

Init == items = <<>> /\ taken = <<>>

Newest(s) == IF Len(s) > N THEN Tail(s) ELSE s

Push(x) == items' = Newest(Append(items, x)) /\ UNCHANGED taken

Take == taken' = taken \o items /\ items' = <<>>

Clear == items' = <<>> /\ UNCHANGED taken

Next == Take \/ Clear \/ \E x \in Entry : Push(x)

Spec == Init /\ [][Next]_vars
=============================================================================
