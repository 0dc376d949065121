----------------------------- MODULE MCForkServer -----------------------------
EXTENDS ForkServer, TLC

(* The children are interchangeable, and so are the connections.           *)
Symmetry == Permutations(Children) \cup Permutations(Conns)
=============================================================================
