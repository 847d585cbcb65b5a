--------------------------- MODULE PubSubRegistry ---------------------------
(***************************************************************************)
(* What the master promises about its directory of publishers and          *)
(* subscribers, without saying how it is stored: a relation between node   *)
(* names and topic keys for each role, the contact each known node last    *)
(* gave, and the flows, which are nothing but the join of the two          *)
(* relations.  MessageGraph, which keeps indexes and edges and updates     *)
(* them incrementally, implements this specification.                      *)
(***************************************************************************)

CONSTANTS NodeInfo,   \* contacts: records with a field node_name
          TopicKey    \* keys under which nodes publish and subscribe

VARIABLES publications,   \* {<<name, key>>}: who publishes what
          subscriptions,  \* {<<name, key>>}: who subscribes to what
          directory,      \* node name -> the contact it last registered with
          flows           \* {[src_node, dst_node, key]}: who sends to whom

vars == <<publications, subscriptions, directory, flows>>

Init == /\ publications = {}
        /\ subscriptions = {}
        /\ directory = [n \in {} |-> {}]
        /\ flows = {}

(* Every publisher of a key paired with every subscriber of the same key.  *)
Join(pubs, subs) ==
  {[src_node |-> m[1][1], dst_node |-> m[2][1], key |-> m[1][2]] :
     m \in {ps \in pubs \X subs : ps[1][2] = ps[2][2]}}

Known(pubs, subs) == {r[1] : r \in pubs \cup subs}

(* The flows always follow from the two relations. *)
Recompute == flows' = Join(publications', subscriptions')

(* A node gives its contact, which replaces an earlier one. *)
Enroll(node) ==
  directory' = [n \in Known(publications', subscriptions') |->
                  IF n = node.node_name THEN node ELSE directory[n]]

(* A node that neither publishes nor subscribes any more is forgotten. *)
Forget ==
  directory' = [n \in Known(publications', subscriptions') |-> directory[n]]

Advertise(node, k) ==
  /\ publications' = publications \cup {<<node.node_name, k>>}
  /\ UNCHANGED subscriptions
  /\ Enroll(node)
  /\ Recompute

Attach(node, k) ==
  /\ subscriptions' = subscriptions \cup {<<node.node_name, k>>}
  /\ UNCHANGED publications
  /\ Enroll(node)
  /\ Recompute

Withdraw(node, k) ==
  /\ publications' = publications \ {<<node.node_name, k>>}
  /\ UNCHANGED subscriptions
  /\ Forget
  /\ Recompute

Detach(node, k) ==
  /\ subscriptions' = subscriptions \ {<<node.node_name, k>>}
  /\ UNCHANGED publications
  /\ Forget
  /\ Recompute

Next == \E node \in NodeInfo, k \in TopicKey :
          \/ Advertise(node, k)
          \/ Attach(node, k)
          \/ Withdraw(node, k)
          \/ Detach(node, k)

Spec == Init /\ [][Next]_vars
=============================================================================
