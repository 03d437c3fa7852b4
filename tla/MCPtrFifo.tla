----------------------------- MODULE MCPtrFifo ------------------------------
(***************************************************************************)
(* Two threads push, one waits for pointers without a deadline (as the      *)
(* locations hoardling does) and one only tries (as the orders hoardling).  *)
(***************************************************************************)
EXTENDS PtrFifo, TLC

CONSTANTS w1, w2, r1, r2, x1, x2, x3
MCPatience == (w1 :> 15) @@ (w2 :> 15) @@ (r1 :> 0) @@ (r2 :> 3)
Symmetry == Permutations({x1, x2, x3}) \cup Permutations({w1, w2})
=============================================================================
