--------------------------- MODULE MCRosRpcServer ---------------------------
(* Instances of the rpc service for TLC: nodes and threads may be permuted. *)
EXTENDS RosRpcServer, TLC

Symmetry == Permutations(Names) \cup Permutations(Addrs) \cup Permutations(Threads)
=============================================================================
