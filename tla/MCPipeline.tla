----------------------------- MODULE MCPipeline -----------------------------
(* Instances of Pipeline for TLC: two clients of the same service or of two. *)
EXTENDS Pipeline

CONSTANTS c1, c2, web, api

MCConns     == {c1, c2}
OneService  == [c \in MCConns |-> web]
TwoServices == c1 :> web @@ c2 :> api

\* Clients of one service are alike.
Symmetric == Permutations(MCConns)
=============================================================================
