------------------------- MODULE MCNodeRegistration -------------------------
(* An instance of NodeRegistration: a node with two objects. *)
EXTENDS NodeRegistration

MCHandles == {<<"n1", 1>>, <<"n1", 2>>}
=============================================================================
