----------------------------- MODULE AtMostOnce -----------------------------
(***************************************************************************)
(* What devlog promises of the lines of a child process on their way to    *)
(* the broker: a line arrives at most once.  It may be overtaken by later  *)
(* lines, and it may be lost.                                              *)
(***************************************************************************)
CONSTANT Line

VARIABLES pending,  \* lines read from the child and not yet at the broker
          arrived   \* lines the broker has received

vars == <<pending, arrived>>

Init == pending = {} /\ arrived = {}

Read(x) == x \notin pending \cup arrived /\ pending' = pending \cup {x} /\ UNCHANGED arrived

Arrive(x) == x \in pending /\ pending' = pending \ {x} /\ arrived' = arrived \cup {x}

Lose(xs) == xs \subseteq pending /\ pending' = pending \ xs /\ UNCHANGED arrived

Next == (\E x \in Line : Read(x) \/ Arrive(x)) \/ \E xs \in SUBSET pending : Lose(xs)

Spec == Init /\ [][Next]_vars
=============================================================================
