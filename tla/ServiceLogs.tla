---------------------------- MODULE ServiceLogs -----------------------------
(***************************************************************************)
(* What internal/cache/LogCache promises goroutines that call it at the    *)
(* same time: every service has one list of its last N entries; a call of  *)
(* Add appends to the list of its service at one instant between its start *)
(* and its end.  Only an Add during which ClearAll runs may find its entry *)
(* cleared together with those that were there before.                     *)
(***************************************************************************)
EXTENDS Naturals, Sequences

CONSTANTS Proc, Service, Entry, N

VARIABLES logs,    \* logs[s]: the entries of service s, oldest first
          pending, \* pending[p]: the entry of the Add that p has begun, in a set
          overlap  \* the processes with an Add during which ClearAll ran

vars == <<logs, pending, overlap>>

Init ==
  /\ logs = [s \in Service |-> <<>>]
  /\ pending = [p \in Proc |-> {}]
  /\ overlap = {}

Newest(q) == IF Len(q) > N THEN Tail(q) ELSE q

Begin(p) ==
  /\ pending[p] = {}
  /\ \E e \in Entry : pending' = [pending EXCEPT ![p] = {e}]
  /\ UNCHANGED <<logs, overlap>>

End(p) ==
  /\ pending' = [pending EXCEPT ![p] = {}]
  /\ overlap' = overlap \ {p}

Append1(p) ==
  /\ \E e \in pending[p] :
       logs' = [logs EXCEPT ![e.Service] = Newest(Append(@, e))]
  /\ End(p)

\* The entry was cleared before the call ended.
Cleared(p) ==
  /\ p \in overlap
  /\ End(p)
  /\ UNCHANGED logs

Clear(s) ==
  /\ logs' = [logs EXCEPT ![s] = <<>>]
  /\ UNCHANGED <<pending, overlap>>

ClearAll ==
  /\ logs' = [s \in Service |-> <<>>]
  /\ overlap' = {p \in Proc : pending[p] # {}}
  /\ UNCHANGED pending

Next ==
  \/ ClearAll
  \/ \E s \in Service : Clear(s)
  \/ \E p \in Proc : Begin(p) \/ Append1(p) \/ Cleared(p)

Spec == Init /\ [][Next]_vars
=============================================================================
