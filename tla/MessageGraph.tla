---------------------------- MODULE MessageGraph ----------------------------
(***************************************************************************)
(* The master's directory (message_graph.h, message_graph.cpp): vertices,  *)
(* two indexes from topic keys to node names, and the set of edges, all    *)
(* four updated incrementally by the same four operations.  Each operation *)
(* is one action, with the edge removal and the clean-up it ends with.     *)
(* The maps of the code are functions whose domain is the set of keys      *)
(* present in the map.                                                     *)
(***************************************************************************)
EXTENDS Functions

CONSTANTS Names,    \* node names
          Addrs,    \* ip:port a node can be reached at
          Topics,   \* topic names
          Types     \* message type names

NodeInfo == [node_name : Names, addr : Addrs]
TopicKey == [topic : Topics, msg_type : Types]
Edge     == [src_node : Names, dst_node : Names, key : TopicKey]

NodeVertex == [info       : NodeInfo,
               publishes  : SUBSET TopicKey,
               subscribes : SUBSET TopicKey]

VARIABLES nodes,                 \* node name -> vertex
          publishers_by_topic,   \* topic key -> names of its publishers
          subscribers_by_topic,  \* topic key -> names of its subscribers
          edges                  \* who sends to whom, under which key

graphVars == <<nodes, publishers_by_topic, subscribers_by_topic, edges>>

EmptyMap == [x \in {} |-> {}]

Init == /\ nodes = EmptyMap
        /\ publishers_by_topic = EmptyMap
        /\ subscribers_by_topic = EmptyMap
        /\ edges = {}

-----------------------------------------------------------------------------
(* Maps. *)

Put(map, x, v) ==
  [y \in DOMAIN map \cup {x} |-> IF y = x THEN v ELSE map[y]]

(* The names listed under a key; none when the key has no bucket. *)
Bucket(index, k) == IF k \in DOMAIN index THEN index[k] ELSE {}

InsertIn(index, k, name) == Put(index, k, Bucket(index, k) \cup {name})

(* Faulty variant: the empty bucket stays in the index. *)
EraseKeepingBucket(index, k, name) ==
  [x \in DOMAIN index |-> IF x = k THEN index[x] \ {name} ELSE index[x]]

(* A bucket that becomes empty is removed with its key. *)
EraseFrom(index, k, name) ==
  LET rest == [x \in DOMAIN index |->
                 IF x = k THEN index[x] \ {name} ELSE index[x]]
  IN  IF Bucket(rest, k) = {} THEN Restrict(rest, DOMAIN rest \ {k}) ELSE rest

-----------------------------------------------------------------------------
(* Registrations. *)

PublishesOf(name)  == IF name \in DOMAIN nodes THEN nodes[name].publishes ELSE {}
SubscribesOf(name) == IF name \in DOMAIN nodes THEN nodes[name].subscribes ELSE {}

(* Faulty variants: the topics are lost, or the first contact is kept. *)
FreshVertex(node) == [info |-> node, publishes |-> {}, subscribes |-> {}]

VertexWithOldContact(node) ==
  [info       |-> IF node.node_name \in DOMAIN nodes
                  THEN nodes[node.node_name].info ELSE node,
   publishes  |-> PublishesOf(node.node_name),
   subscribes |-> SubscribesOf(node.node_name)]

(* The vertex of a node after it gave its contact: its topics are kept. *)
UpsertNode(node) ==
  [info       |-> node,
   publishes  |-> PublishesOf(node.node_name),
   subscribes |-> SubscribesOf(node.node_name)]

(* Faulty variant: the edges are not made. *)
ConnectNobody(node, k) == {}

ConnectPublisherToSubscribers(pub_node, k) ==
  {[src_node |-> pub_node, dst_node |-> sub, key |-> k] :
     sub \in Bucket(subscribers_by_topic, k)}

ConnectPublishersToSubscriber(sub_node, k) ==
  {[src_node |-> pub, dst_node |-> sub_node, key |-> k] :
     pub \in Bucket(publishers_by_topic, k)}

AddPublisher(node, k) ==
  LET name == node.node_name
      v    == UpsertNode(node)
  IN  /\ nodes' = Put(nodes, name, [v EXCEPT !.publishes = @ \cup {k}])
      /\ publishers_by_topic' = InsertIn(publishers_by_topic, k, name)
      /\ edges' = edges \cup ConnectPublisherToSubscribers(name, k)
      /\ UNCHANGED subscribers_by_topic

AddSubscriber(node, k) ==
  LET name == node.node_name
      v    == UpsertNode(node)
  IN  /\ nodes' = Put(nodes, name, [v EXCEPT !.subscribes = @ \cup {k}])
      /\ subscribers_by_topic' = InsertIn(subscribers_by_topic, k, name)
      /\ edges' = edges \cup ConnectPublishersToSubscriber(name, k)
      /\ UNCHANGED publishers_by_topic

-----------------------------------------------------------------------------
(* Withdrawals. *)

(* The edges under key k that leave (a publisher) or enter (a subscriber). *)
RemoveEdgesBy(name, k, node_is_publisher) ==
  {e \in edges :
     /\ e.key = k
     /\ name = IF node_is_publisher THEN e.src_node ELSE e.dst_node}

(* Faulty variant: only the edges are looked at. *)
CleanupWithoutTopics(vertices, es, name) ==
  IF \A e \in es : name \notin {e.src_node, e.dst_node}
  THEN Restrict(vertices, DOMAIN vertices \ {name})
  ELSE vertices

(* The vertices without that of `name`, if it is isolated: no topic left,  *)
(* and no edge that still touches it.                                      *)
CleanupIsolatedNodeIfAny(vertices, es, name) ==
  IF /\ name \in DOMAIN vertices
     /\ vertices[name].publishes = {}
     /\ vertices[name].subscribes = {}
     /\ \A e \in es : name \notin {e.src_node, e.dst_node}
  THEN Restrict(vertices, DOMAIN vertices \ {name})
  ELSE vertices

RemovePublisher(node, k) ==
  LET name     == node.node_name
      vertices == [n \in DOMAIN nodes |->
                     IF n = name THEN [nodes[n] EXCEPT !.publishes = @ \ {k}]
                                 ELSE nodes[n]]
  IN  /\ publishers_by_topic' = EraseFrom(publishers_by_topic, k, name)
      /\ edges' = edges \ RemoveEdgesBy(name, k, TRUE)
      /\ nodes' = CleanupIsolatedNodeIfAny(vertices, edges', name)
      /\ UNCHANGED subscribers_by_topic

RemoveSubscriber(node, k) ==
  LET name     == node.node_name
      vertices == [n \in DOMAIN nodes |->
                     IF n = name THEN [nodes[n] EXCEPT !.subscribes = @ \ {k}]
                                 ELSE nodes[n]]
  IN  /\ subscribers_by_topic' = EraseFrom(subscribers_by_topic, k, name)
      /\ edges' = edges \ RemoveEdgesBy(name, k, FALSE)
      /\ nodes' = CleanupIsolatedNodeIfAny(vertices, edges', name)
      /\ UNCHANGED publishers_by_topic

Next == \E node \in NodeInfo, k \in TopicKey :
          \/ AddPublisher(node, k)
          \/ AddSubscriber(node, k)
          \/ RemovePublisher(node, k)
          \/ RemoveSubscriber(node, k)

Spec == Init /\ [][Next]_graphVars

-----------------------------------------------------------------------------
(* Queries, as the rpc service uses them. *)

GetAllNodes == {nodes[n].info : n \in DOMAIN nodes}

HasNode(name) == name \in DOMAIN nodes

(* Every list that a lookup by topic name alone can return: the code takes *)
(* the first bucket whose key has that topic, whatever its message type,   *)
(* in the iteration order of an unordered map; none yields an empty list.  *)
(* Names that have no vertex are left out.                                 *)
ByTopic(index, topic) ==
  LET keys == {k \in DOMAIN index : k.topic = topic}
  IN  IF keys = {} THEN {{}}
      ELSE {{nodes[n].info : n \in index[k] \cap DOMAIN nodes} : k \in keys}

GetPublishersByTopic(topic)  == ByTopic(publishers_by_topic, topic)
GetSubscribersByTopic(topic) == ByTopic(subscribers_by_topic, topic)

-----------------------------------------------------------------------------
(* Properties. *)

IsMap(map, Keys, Values) ==
  /\ DOMAIN map \subseteq Keys
  /\ map \in [DOMAIN map -> Values]

(* Type invariant: the three maps and the edge set of the MessageGraph     *)
(* class hold values of their declared types, and the name under which a   *)
(* vertex is stored is the one in its contact.                             *)
TypeOK == /\ IsMap(nodes, Names, NodeVertex)
          /\ \A n \in DOMAIN nodes : nodes[n].info.node_name = n
          /\ IsMap(publishers_by_topic, TopicKey, SUBSET Names)
          /\ IsMap(subscribers_by_topic, TopicKey, SUBSET Names)
          /\ edges \subseteq Edge

(* The topic indexes and the sets kept in the vertices are two copies of   *)
(* the same relation, updated by different statements of the four          *)
(* operations: they never disagree, in either role.                        *)
IndexesAgree ==
  \A n \in Names, k \in TopicKey :
    /\ n \in Bucket(publishers_by_topic, k) <=> k \in PublishesOf(n)
    /\ n \in Bucket(subscribers_by_topic, k) <=> k \in SubscribesOf(n)

(* The edge set, built and cut one operation at a time, is exactly the     *)
(* set of matching publisher and subscriber pairs, in whatever order they  *)
(* came and went.                                                          *)
EdgesExact ==
  edges = {e \in Edge :
             /\ e.src_node \in Bucket(publishers_by_topic, e.key)
             /\ e.dst_node \in Bucket(subscribers_by_topic, e.key)}

(* The clean-up that follows every removal leaves nothing behind: a vertex *)
(* has a topic, and a bucket has a node.  (find_if takes the first bucket  *)
(* of a topic, so an empty one left behind would hide the others.)         *)
NothingLeftBehind ==
  /\ \A n \in DOMAIN nodes : PublishesOf(n) \cup SubscribesOf(n) # {}
  /\ \A k \in DOMAIN publishers_by_topic : publishers_by_topic[k] # {}
  /\ \A k \in DOMAIN subscribers_by_topic : subscribers_by_topic[k] # {}

Registry == INSTANCE PubSubRegistry WITH
  publications  <- {np \in Names \X TopicKey : np[2] \in PublishesOf(np[1])},
  subscriptions <- {np \in Names \X TopicKey : np[2] \in SubscribesOf(np[1])},
  directory     <- [n \in DOMAIN nodes |-> nodes[n].info],
  flows         <- edges

(* The graph implements the registry: indexes, edges and clean-up are      *)
(* invisible, every operation has its meaning on the two relations, and a  *)
(* node keeps its contact until it registers again or its last topic goes. *)
ImplementsRegistry == Registry!Spec
=============================================================================
