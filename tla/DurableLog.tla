----------------------------- MODULE DurableLog -----------------------------
(***************************************************************************)
(* What the broker promises about the lines it has accepted: they are      *)
(* stored in the order in which they were accepted, each once, or a run of *)
(* the oldest waiting ones is lost as a whole (a failed transaction, or a  *)
(* crash, which loses them all).  A stored line never changes and leaves   *)
(* the table only by being pruned; its id is never used again.             *)
(***************************************************************************)
EXTENDS Naturals, Sequences

CONSTANT Line

VARIABLES pending, \* accepted lines that wait for the database, oldest first
          log,     \* all lines ever stored, by id
          live     \* ids that were not pruned

vars == <<pending, log, live>>

Init == pending = <<>> /\ log = <<>> /\ live = {}

Accept == /\ \E e \in Line : pending' = Append(pending, e)
          /\ UNCHANGED <<log, live>>

Oldest(k) == SubSeq(pending, 1, k)
Settle(k) == pending' = SubSeq(pending, k + 1, Len(pending))

Commit(k) == /\ log' = log \o Oldest(k)
             /\ live' = live \cup (Len(log) + 1)..(Len(log) + k)
             /\ Settle(k)

Lose(k) == Settle(k) /\ UNCHANGED <<log, live>>

Expire == live' \in SUBSET live /\ UNCHANGED <<pending, log>>

Next == Accept \/ Expire \/ \E k \in 1..Len(pending) : Commit(k) \/ Lose(k)

Spec == Init /\ [][Next]_vars
=============================================================================
