--------------------------- MODULE MCRosRpcQueries ---------------------------
(* Instances of the query service for TLC: nodes and types may be permuted. *)
EXTENDS RosRpcQueries, TLC

Symmetry == Permutations(Names) \cup Permutations(Types) \cup Permutations(Threads)
=============================================================================
