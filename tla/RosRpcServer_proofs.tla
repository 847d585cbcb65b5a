------------------------ MODULE RosRpcServer_proofs ------------------------
(***************************************************************************)
(* Proofs about the registration handlers for every set of nodes, topics,  *)
(* message types and worker threads: each request takes effect; and, as    *)
(* long as no topic is used under two message types at once, publishers    *)
(* and subscribers find one another and no target is left stale.           *)
(***************************************************************************)
EXTENDS RosRpcServer, TLAPS

GraphProofs == INSTANCE MessageGraph_proofs

Pub(name) == Graph!PublishesOf(name)
Sub(name) == Graph!SubscribesOf(name)

GraphInv == /\ Graph!TypeOK
            /\ Graph!IndexesAgree
            /\ Graph!EdgesExact
            /\ Graph!NothingLeftBehind

-----------------------------------------------------------------------------
(* The graph's theorems, for the graph of this service.                    *)

LEMMA SameSets ==
  /\ NodeInfo = GraphProofs!NodeInfo
  /\ TopicKey = GraphProofs!TopicKey
BY DEF NodeInfo, TopicKey, Graph!NodeInfo, Graph!TopicKey,
       GraphProofs!NodeInfo, GraphProofs!TopicKey

LEMMA SameRoles ==
  /\ \A n : Pub(n) = GraphProofs!PublishesOf(n)
  /\ \A n : Sub(n) = GraphProofs!SubscribesOf(n)
  /\ \A n : Pub(n)' = GraphProofs!PublishesOf(n)'
  /\ \A n : Sub(n)' = GraphProofs!SubscribesOf(n)'
BY DEF Pub, Sub, Graph!PublishesOf, Graph!SubscribesOf,
       GraphProofs!PublishesOf, GraphProofs!SubscribesOf

LEMMA SameInvariant ==
  /\ GraphInv <=> GraphProofs!IndInv
  /\ GraphInv' <=> GraphProofs!IndInv'
<1> USE DEF Graph!IsMap, GraphProofs!IsMap,
            Graph!Bucket, GraphProofs!Bucket, Graph!TopicKey, GraphProofs!TopicKey
<1>1. /\ Graph!TypeOK <=> GraphProofs!TypeOK
      /\ Graph!TypeOK' <=> GraphProofs!TypeOK'
  BY DEF Graph!TypeOK, GraphProofs!TypeOK, Graph!NodeVertex, GraphProofs!NodeVertex,
         Graph!NodeInfo, GraphProofs!NodeInfo, Graph!Edge, GraphProofs!Edge
<1>2. /\ Graph!EdgesExact <=> GraphProofs!EdgesExact
      /\ Graph!EdgesExact' <=> GraphProofs!EdgesExact'
  BY DEF Graph!EdgesExact, GraphProofs!EdgesExact, Graph!Edge, GraphProofs!Edge
<1>3. /\ Graph!IndexesAgree <=> GraphProofs!IndexesAgree
      /\ Graph!IndexesAgree' <=> GraphProofs!IndexesAgree'
  BY DEF Graph!IndexesAgree, GraphProofs!IndexesAgree, Graph!PublishesOf,
         GraphProofs!PublishesOf, Graph!SubscribesOf, GraphProofs!SubscribesOf
<1>4. /\ Graph!NothingLeftBehind <=> GraphProofs!NothingLeftBehind
      /\ Graph!NothingLeftBehind' <=> GraphProofs!NothingLeftBehind'
  BY DEF Graph!NothingLeftBehind, GraphProofs!NothingLeftBehind, Graph!PublishesOf,
         GraphProofs!PublishesOf, Graph!SubscribesOf, GraphProofs!SubscribesOf
<1> QED BY <1>1, <1>2, <1>3, <1>4 DEF GraphInv, GraphProofs!IndInv

LEMMA SameOperations ==
  ASSUME NEW node, NEW k
  PROVE  /\ Graph!AddPublisher(node, k) <=> GraphProofs!AddPublisher(node, k)
         /\ Graph!AddSubscriber(node, k) <=> GraphProofs!AddSubscriber(node, k)
         /\ Graph!RemovePublisher(node, k) <=> GraphProofs!RemovePublisher(node, k)
         /\ Graph!RemoveSubscriber(node, k) <=> GraphProofs!RemoveSubscriber(node, k)
<1> USE DEF Graph!Bucket, GraphProofs!Bucket
<1>1. Graph!AddPublisher(node, k) <=> GraphProofs!AddPublisher(node, k)
  BY DEF Graph!AddPublisher, GraphProofs!AddPublisher, Graph!Put, GraphProofs!Put,
         Graph!InsertIn, GraphProofs!InsertIn, Graph!UpsertNode, GraphProofs!UpsertNode,
         Graph!PublishesOf, GraphProofs!PublishesOf,
         Graph!SubscribesOf, GraphProofs!SubscribesOf,
         Graph!ConnectPublisherToSubscribers, GraphProofs!ConnectPublisherToSubscribers
<1>2. Graph!AddSubscriber(node, k) <=> GraphProofs!AddSubscriber(node, k)
  BY DEF Graph!AddSubscriber, GraphProofs!AddSubscriber, Graph!Put, GraphProofs!Put,
         Graph!InsertIn, GraphProofs!InsertIn, Graph!UpsertNode, GraphProofs!UpsertNode,
         Graph!PublishesOf, GraphProofs!PublishesOf,
         Graph!SubscribesOf, GraphProofs!SubscribesOf,
         Graph!ConnectPublishersToSubscriber, GraphProofs!ConnectPublishersToSubscriber
<1> USE DEF Graph!Restrict, GraphProofs!Restrict,
            Graph!EraseFrom, GraphProofs!EraseFrom,
            Graph!RemoveEdgesBy, GraphProofs!RemoveEdgesBy,
            Graph!CleanupIsolatedNodeIfAny, GraphProofs!CleanupIsolatedNodeIfAny
<1>3. Graph!RemovePublisher(node, k) <=> GraphProofs!RemovePublisher(node, k)
  BY DEF Graph!RemovePublisher, GraphProofs!RemovePublisher
<1>4. Graph!RemoveSubscriber(node, k) <=> GraphProofs!RemoveSubscriber(node, k)
  BY DEF Graph!RemoveSubscriber, GraphProofs!RemoveSubscriber
<1> QED BY <1>1, <1>2, <1>3, <1>4

(* Nothing of any node but this one changes. *)
OthersKept(name) ==
  \A n : n # name => /\ n \in DOMAIN nodes' <=> n \in DOMAIN nodes
                     /\ n \in DOMAIN nodes => nodes'[n].info = nodes[n].info
                     /\ Pub(n)' = Pub(n)
                     /\ Sub(n)' = Sub(n)

(* A registration keeps the graph in order, stands with the contact it     *)
(* gave, and touches no other node (AddPublisher, AddSubscriber).          *)
LEMMA GraphAdds ==
  ASSUME GraphInv, NEW node \in NodeInfo, NEW k \in TopicKey
  PROVE  /\ Graph!AddPublisher(node, k) =>
              /\ GraphInv' /\ OthersKept(node.node_name)
              /\ node.node_name \in DOMAIN nodes' /\ nodes'[node.node_name].info = node
              /\ Pub(node.node_name)' = Pub(node.node_name) \cup {k}
              /\ Sub(node.node_name)' = Sub(node.node_name)
         /\ Graph!AddSubscriber(node, k) =>
              /\ GraphInv' /\ OthersKept(node.node_name)
              /\ node.node_name \in DOMAIN nodes' /\ nodes'[node.node_name].info = node
              /\ Pub(node.node_name)' = Pub(node.node_name)
              /\ Sub(node.node_name)' = Sub(node.node_name) \cup {k}
<1>1. /\ node \in GraphProofs!NodeInfo /\ k \in GraphProofs!TopicKey
      /\ GraphProofs!IndInv /\ GraphProofs!TypeOK
  BY SameSets, SameInvariant DEF GraphProofs!IndInv
<1>2. ASSUME Graph!AddPublisher(node, k)
      PROVE  /\ GraphInv' /\ OthersKept(node.node_name)
             /\ node.node_name \in DOMAIN nodes' /\ nodes'[node.node_name].info = node
             /\ Pub(node.node_name)' = Pub(node.node_name) \cup {k}
             /\ Sub(node.node_name)' = Sub(node.node_name)
  <2>1. GraphProofs!AddPublisher(node, k)
    BY <1>2, SameOperations
  <2>2. GraphInv'
    BY <1>1, <2>1, SameInvariant, GraphProofs!AddPublisherInductive
  <2>3. /\ DOMAIN nodes' = DOMAIN nodes \cup {node.node_name}
        /\ \A n \in DOMAIN nodes' :
             nodes'[n].info = IF n = node.node_name THEN node ELSE nodes[n].info
        /\ \A n : Pub(n)' = IF n = node.node_name THEN Pub(n) \cup {k} ELSE Pub(n)
        /\ \A n : Sub(n)' = Sub(n)
    BY <1>1, <2>1, SameRoles, GraphProofs!AddPublisherVertices
  <2> QED BY <2>2, <2>3 DEF OthersKept
<1>3. ASSUME Graph!AddSubscriber(node, k)
      PROVE  /\ GraphInv' /\ OthersKept(node.node_name)
             /\ node.node_name \in DOMAIN nodes' /\ nodes'[node.node_name].info = node
             /\ Pub(node.node_name)' = Pub(node.node_name)
             /\ Sub(node.node_name)' = Sub(node.node_name) \cup {k}
  <2>1. GraphProofs!AddSubscriber(node, k)
    BY <1>3, SameOperations
  <2>2. GraphInv'
    BY <1>1, <2>1, SameInvariant, GraphProofs!AddSubscriberInductive
  <2>3. /\ DOMAIN nodes' = DOMAIN nodes \cup {node.node_name}
        /\ \A n \in DOMAIN nodes' :
             nodes'[n].info = IF n = node.node_name THEN node ELSE nodes[n].info
        /\ \A n : Pub(n)' = Pub(n)
        /\ \A n : Sub(n)' = IF n = node.node_name THEN Sub(n) \cup {k} ELSE Sub(n)
    BY <1>1, <2>1, SameRoles, GraphProofs!AddSubscriberVertices
  <2> QED BY <2>2, <2>3 DEF OthersKept
<1> QED BY <1>2, <1>3

(* So does a withdrawal, which takes one role from its node                *)
(* (RemovePublisher, RemoveSubscriber).                                    *)
LEMMA GraphRemoves ==
  ASSUME GraphInv, NEW node \in NodeInfo, NEW k \in TopicKey
  PROVE  /\ Graph!RemovePublisher(node, k) =>
              /\ GraphInv' /\ OthersKept(node.node_name)
              /\ Pub(node.node_name)' = Pub(node.node_name) \ {k}
              /\ Sub(node.node_name)' = Sub(node.node_name)
         /\ Graph!RemoveSubscriber(node, k) =>
              /\ GraphInv' /\ OthersKept(node.node_name)
              /\ Pub(node.node_name)' = Pub(node.node_name)
              /\ Sub(node.node_name)' = Sub(node.node_name) \ {k}
<1>1. /\ node \in GraphProofs!NodeInfo /\ k \in GraphProofs!TopicKey
      /\ GraphProofs!IndInv /\ GraphProofs!TypeOK
  BY SameSets, SameInvariant DEF GraphProofs!IndInv
<1>2. ASSUME Graph!RemovePublisher(node, k)
      PROVE  /\ GraphInv' /\ OthersKept(node.node_name)
             /\ Pub(node.node_name)' = Pub(node.node_name) \ {k}
             /\ Sub(node.node_name)' = Sub(node.node_name)
  <2>1. GraphProofs!RemovePublisher(node, k)
    BY <1>2, SameOperations
  <2>2. GraphInv'
    BY <1>1, <2>1, SameInvariant, GraphProofs!RemovePublisherInductive
  <2>3. /\ DOMAIN nodes' \subseteq DOMAIN nodes
        /\ DOMAIN nodes \subseteq DOMAIN nodes' \cup {node.node_name}
        /\ \A n \in DOMAIN nodes' : nodes'[n].info = nodes[n].info
        /\ \A n : Pub(n)' = IF n = node.node_name THEN Pub(n) \ {k} ELSE Pub(n)
        /\ \A n : Sub(n)' = Sub(n)
    BY <1>1, <2>1, SameRoles, GraphProofs!RemovePublisherVertices
  <2> QED BY <2>2, <2>3 DEF OthersKept
<1>3. ASSUME Graph!RemoveSubscriber(node, k)
      PROVE  /\ GraphInv' /\ OthersKept(node.node_name)
             /\ Pub(node.node_name)' = Pub(node.node_name)
             /\ Sub(node.node_name)' = Sub(node.node_name) \ {k}
  <2>1. GraphProofs!RemoveSubscriber(node, k)
    BY <1>3, SameOperations
  <2>2. GraphInv'
    BY <1>1, <2>1, SameInvariant, GraphProofs!RemoveSubscriberInductive
  <2>3. /\ DOMAIN nodes' \subseteq DOMAIN nodes
        /\ DOMAIN nodes \subseteq DOMAIN nodes' \cup {node.node_name}
        /\ \A n \in DOMAIN nodes' : nodes'[n].info = nodes[n].info
        /\ \A n : Pub(n)' = Pub(n)
        /\ \A n : Sub(n)' = IF n = node.node_name THEN Sub(n) \ {k} ELSE Sub(n)
    BY <1>1, <2>1, SameRoles, GraphProofs!RemoveSubscriberVertices
  <2> QED BY <2>2, <2>3 DEF OthersKept
<1> QED BY <1>2, <1>3

(* The edges join the publishers and the subscribers of a key; indexes and *)
(* vertices name the same nodes.                                           *)
LEMMA GraphJoins ==
  ASSUME GraphInv
  PROVE  /\ \A e \in edges : /\ e.key \in Pub(e.src_node) /\ e.key \in Sub(e.dst_node)
                             /\ e.src_node \in Names /\ e.dst_node \in Names
                             /\ e.key \in TopicKey
         /\ \A e \in Graph!Edge : e.key \in Pub(e.src_node) /\ e.key \in Sub(e.dst_node)
                                  => e \in edges
         /\ \A n : Pub(n) \subseteq DOMAIN publishers_by_topic
         /\ \A n : Sub(n) \subseteq DOMAIN subscribers_by_topic
         /\ \A n : Pub(n) \cup Sub(n) # {} => n \in DOMAIN nodes
         /\ \A n : Pub(n) \cup Sub(n) \subseteq TopicKey
         /\ \A n \in DOMAIN nodes : /\ n \in Names /\ nodes[n].info \in NodeInfo
                                    /\ nodes[n].info.node_name = n
         /\ \A n, k : k \in Pub(n) =>
              k \in DOMAIN publishers_by_topic /\ n \in publishers_by_topic[k]
         /\ \A n, k : k \in Sub(n) =>
              k \in DOMAIN subscribers_by_topic /\ n \in subscribers_by_topic[k]
         /\ \A k \in DOMAIN publishers_by_topic :
              k \in TopicKey /\ \A n \in publishers_by_topic[k] : k \in Pub(n)
         /\ \A k \in DOMAIN subscribers_by_topic :
              k \in TopicKey /\ \A n \in subscribers_by_topic[k] : k \in Sub(n)
<1>1. \A n \in DOMAIN nodes : /\ n \in Names /\ nodes[n].info \in NodeInfo
                              /\ nodes[n].info.node_name = n
                              /\ nodes[n].publishes \subseteq TopicKey
                              /\ nodes[n].subscribes \subseteq TopicKey
  BY DEF GraphInv, Graph!TypeOK, Graph!IsMap, Graph!NodeVertex, NodeInfo, TopicKey
<1>2. \A n : /\ Pub(n) \cup Sub(n) # {} => n \in DOMAIN nodes
             /\ Pub(n) \cup Sub(n) \subseteq TopicKey
  BY <1>1 DEF Pub, Sub, Graph!PublishesOf, Graph!SubscribesOf
<1>3. \A n \in Names, k \in TopicKey :
        /\ n \in Graph!Bucket(publishers_by_topic, k) <=> k \in Pub(n)
        /\ n \in Graph!Bucket(subscribers_by_topic, k) <=> k \in Sub(n)
  BY DEF GraphInv, Graph!IndexesAgree, TopicKey, Pub, Sub
<1>4. \A n, k : k \in Pub(n) =>
        k \in DOMAIN publishers_by_topic /\ n \in publishers_by_topic[k]
  BY <1>1, <1>2, <1>3 DEF Graph!Bucket
<1>5. \A n, k : k \in Sub(n) =>
        k \in DOMAIN subscribers_by_topic /\ n \in subscribers_by_topic[k]
  BY <1>1, <1>2, <1>3 DEF Graph!Bucket
<1>6. /\ \A k \in DOMAIN publishers_by_topic :
           k \in TopicKey /\ publishers_by_topic[k] \subseteq Names
      /\ \A k \in DOMAIN subscribers_by_topic :
           k \in TopicKey /\ subscribers_by_topic[k] \subseteq Names
  BY DEF GraphInv, Graph!TypeOK, Graph!IsMap, TopicKey
<1>7. /\ \A k \in DOMAIN publishers_by_topic : \A n \in publishers_by_topic[k] : k \in Pub(n)
      /\ \A k \in DOMAIN subscribers_by_topic : \A n \in subscribers_by_topic[k] : k \in Sub(n)
  BY <1>3, <1>6 DEF Graph!Bucket
<1>8. \A e \in edges : /\ e.key \in Pub(e.src_node) /\ e.key \in Sub(e.dst_node)
                       /\ e.src_node \in Names /\ e.dst_node \in Names
                       /\ e.key \in TopicKey
  BY <1>3 DEF GraphInv, Graph!EdgesExact, Graph!Edge, TopicKey
<1>9. \A e \in Graph!Edge : e.key \in Pub(e.src_node) /\ e.key \in Sub(e.dst_node)
                            => e \in edges
  BY <1>3 DEF GraphInv, Graph!EdgesExact, Graph!Edge, TopicKey
<1> QED BY <1>1, <1>2, <1>4, <1>5, <1>6, <1>7, <1>8, <1>9

-----------------------------------------------------------------------------
(* The inductive invariant.                                                *)

Busys == {t \in Threads : call[t] # Idle}

(* A node has one request under way. *)
OneRequest ==
  \A t, u \in Busys : call[t].node.node_name = call[u].node.node_name => t = u

(* A handler that notifies names its own node, and nobody else. *)
WellMade(c) ==
  /\ c.op # "UnregisterPublisher"
  /\ c.update.topic = c.key.topic
  /\ c.update.add_targets \subseteq {c.node}
  /\ c.op = "Subscribe" => c.update.add_targets = {c.node}
  /\ c.op = "Unsubscribe" => c.update.add_targets = {}
  /\ c.update.remove_targets = IF c.op = "Unsubscribe" THEN {c.node} ELSE {}

GoesOn(c) ==
  /\ c.pc \in {"query", "reply"} => c.remaining = {}
  /\ c.pc \in {"lookup", "post"} => WellMade(c)
  /\ c.pc = "query" => /\ c.op # "UnregisterPublisher"
                       /\ c.update = EmptyUpdate(c.key.topic)
  /\ c.op = "RegisterPublisher" =>
       /\ c.remaining \subseteq {c.node.node_name}
       /\ c.pc = "post" => c.to.node_name = c.node.node_name

Progress == \A t \in Busys : GoesOn(call[t])

(* The registration or the withdrawal of a request stands while its        *)
(* handler runs.                                                           *)
Stands(c) ==
  LET name == c.node.node_name
  IN  /\ c.op \in {"Subscribe", "RegisterPublisher"} =>
           name \in DOMAIN nodes /\ nodes[name].info = c.node
      /\ c.op = "Subscribe" => c.key \in Sub(name)
      /\ c.op = "RegisterPublisher" => c.key \in Pub(name)
      /\ c.op = "Unsubscribe" => c.key \notin Sub(name)
      /\ c.op = "UnregisterPublisher" => c.key \notin Pub(name)

Effective == \A t \in Busys : Stands(call[t])

(* Who has targets for a topic, told or seen, publishes it. *)
ToldPublish == \A x \in told \cup seen : x[2] \in Publishing(x[1])

IndInv == /\ GraphInv /\ TypeOK
          /\ OneRequest /\ Progress /\ Effective /\ ToldPublish

-----------------------------------------------------------------------------
(* The steps, as the invariant sees them.                                  *)

(* What the graph's state determines stays when it does. *)
LEMMA GraphStays ==
  ASSUME UNCHANGED graphVars
  PROVE  /\ GraphInv' <=> GraphInv
         /\ Graph!TypeOK' <=> Graph!TypeOK
         /\ \A n : Pub(n)' = Pub(n) /\ Sub(n)' = Sub(n)
         /\ \A n : Publishing(n)' = Publishing(n) /\ Subscribing(n)' = Subscribing(n)
         /\ nodes' = nodes /\ edges' = edges
BY DEF graphVars, GraphInv, Graph!TypeOK, Graph!IndexesAgree, Graph!EdgesExact,
       Graph!NothingLeftBehind, Graph!PublishesOf, Graph!SubscribesOf, Graph!IsMap,
       Graph!Bucket, Pub, Sub, Publishing, Subscribing

(* A thread has a request, or has none. *)
LEMMA BusyOrIdle ==
  /\ Idle \notin Busy
  /\ Idle.pc = "idle"
  /\ \A c \in Busy : c # Idle
BY DEF Idle, Busy

LEMMA AcceptStep ==
  ASSUME call \in [Threads -> Busy \cup {Idle}], NEW t \in Threads,
         NEW op \in Ops, NEW node \in NodeInfo, NEW k \in TopicKey,
         NEW pc \in {"query", "reply"}, Accept(t, op, node, k, pc)
  PROVE  /\ call' \in [Threads -> Busy \cup {Idle}]
         /\ t \notin Busys /\ Busys' = Busys \cup {t}
         /\ \A u \in Threads : u # t => call'[u] = call[u]
         /\ \A u \in Busys : call[u].node.node_name # node.node_name
         /\ call'[t] \in Busy
         /\ call'[t].pc = pc /\ call'[t].op = op
         /\ call'[t].node = node /\ call'[t].key = k
         /\ call'[t].remaining = {} /\ call'[t].update = EmptyUpdate(k.topic)
<1> DEFINE new == [pc |-> pc, op |-> op, node |-> node, key |-> k,
                   update |-> EmptyUpdate(k.topic), remaining |-> {},
                   to |-> NoContact]
<1>1. EmptyUpdate(k.topic) \in Update
  BY DEF EmptyUpdate, Update, TopicKey, Graph!TopicKey
<1>2. new \in Busy
  BY <1>1 DEF Busy
<1>3. call' = [call EXCEPT ![t] = new] /\ call[t] = Idle
  BY DEF Accept
<1>4. \A u \in Busys : call[u].node.node_name # node.node_name
  BY DEF Accept, InFlight, Busys
<1>5. /\ new.pc = pc /\ new.op = op /\ new.node = node /\ new.key = k
      /\ new.remaining = {} /\ new.update = EmptyUpdate(k.topic)
  OBVIOUS
<1> HIDE DEF new
<1>6. call'[t] = new /\ \A u \in Threads : u # t => call'[u] = call[u]
  BY <1>3
<1>7. call' \in [Threads -> Busy \cup {Idle}]
  BY <1>2, <1>3
<1>8. t \notin Busys /\ Busys' = Busys \cup {t}
  BY <1>2, <1>3, <1>6, BusyOrIdle DEF Busys
<1> QED BY <1>2, <1>4, <1>5, <1>6, <1>7, <1>8

(* A list that a lookup by topic may return: nodes registered for a key of *)
(* the topic; all of them when one key has that topic.                     *)
LEMMA PublishersFound ==
  ASSUME GraphInv, NEW topic, NEW found \in Graph!GetPublishersByTopic(topic)
  PROVE  /\ found \subseteq NodeInfo
         /\ \A i \in found : /\ i.node_name \in DOMAIN nodes
                              /\ topic \in Publishing(i.node_name)
         /\ \A k, n : /\ k \in Pub(n) /\ k.topic = topic
                      /\ \A j \in DOMAIN publishers_by_topic : j.topic = topic => j = k
                      => nodes[n].info \in found
<1>1. CASE {k \in DOMAIN publishers_by_topic : k.topic = topic} = {}
  <2>1. found = {}
    BY <1>1 DEF Graph!GetPublishersByTopic, Graph!ByTopic
  <2>2. \A k, n : k \in Pub(n) => k.topic # topic
    BY <1>1, GraphJoins
  <2> QED BY <2>1, <2>2
<1>2. CASE {k \in DOMAIN publishers_by_topic : k.topic = topic} # {}
  <2>1. PICK k \in DOMAIN publishers_by_topic :
          /\ k.topic = topic
          /\ found = {nodes[n].info : n \in publishers_by_topic[k] \cap DOMAIN nodes}
    BY <1>2 DEF Graph!GetPublishersByTopic, Graph!ByTopic
  <2>2. \A n \in publishers_by_topic[k] : topic \in Publishing(n)
    BY <2>1, GraphJoins DEF Publishing, Pub
  <2>3. ASSUME NEW j, NEW n, j \in Pub(n), j.topic = topic,
               \A i \in DOMAIN publishers_by_topic : i.topic = topic => i = j
        PROVE  nodes[n].info \in found
    <3>1. j = k
      BY <2>1, <2>3
    <3>2. n \in publishers_by_topic[k] /\ n \in DOMAIN nodes
      BY <2>3, <3>1, GraphJoins
    <3> QED BY <2>1, <3>2
  <2>4. /\ found \subseteq NodeInfo
        /\ \A i \in found : i.node_name \in DOMAIN nodes /\ topic \in Publishing(i.node_name)
    BY <2>1, <2>2, GraphJoins
  <2> QED BY <2>3, <2>4
<1> QED BY <1>1, <1>2

LEMMA SubscribersFound ==
  ASSUME GraphInv, NEW topic, NEW found \in Graph!GetSubscribersByTopic(topic)
  PROVE  /\ found \subseteq NodeInfo
         /\ \A i \in found : /\ i.node_name \in DOMAIN nodes
                              /\ topic \in Subscribing(i.node_name)
         /\ \A k, n : /\ k \in Sub(n) /\ k.topic = topic
                      /\ \A j \in DOMAIN subscribers_by_topic : j.topic = topic => j = k
                      => nodes[n].info \in found
<1>1. CASE {k \in DOMAIN subscribers_by_topic : k.topic = topic} = {}
  <2>1. found = {}
    BY <1>1 DEF Graph!GetSubscribersByTopic, Graph!ByTopic
  <2>2. \A k, n : k \in Sub(n) => k.topic # topic
    BY <1>1, GraphJoins
  <2> QED BY <2>1, <2>2
<1>2. CASE {k \in DOMAIN subscribers_by_topic : k.topic = topic} # {}
  <2>1. PICK k \in DOMAIN subscribers_by_topic :
          /\ k.topic = topic
          /\ found = {nodes[n].info : n \in subscribers_by_topic[k] \cap DOMAIN nodes}
    BY <1>2 DEF Graph!GetSubscribersByTopic, Graph!ByTopic
  <2>2. \A n \in subscribers_by_topic[k] : topic \in Subscribing(n)
    BY <2>1, GraphJoins DEF Subscribing, Sub
  <2>3. ASSUME NEW j, NEW n, j \in Sub(n), j.topic = topic,
               \A i \in DOMAIN subscribers_by_topic : i.topic = topic => i = j
        PROVE  nodes[n].info \in found
    <3>1. j = k
      BY <2>1, <2>3
    <3>2. n \in subscribers_by_topic[k] /\ n \in DOMAIN nodes
      BY <2>3, <3>1, GraphJoins
    <3> QED BY <2>1, <3>2
  <2>4. /\ found \subseteq NodeInfo
        /\ \A i \in found : i.node_name \in DOMAIN nodes /\ topic \in Subscribing(i.node_name)
    BY <2>1, <2>2, GraphJoins
  <2> QED BY <2>3, <2>4
<1> QED BY <1>1, <1>2

(* What a request does to the graph and to the targets. *)
Registers(op, node, k) ==
  LET name == node.node_name
  IN  /\ GraphInv' /\ OthersKept(name)
      /\ op \in {"Subscribe", "RegisterPublisher"} =>
           name \in DOMAIN nodes' /\ nodes'[name].info = node
      /\ Pub(name)' = IF op = "RegisterPublisher" THEN Pub(name) \cup {k}
                      ELSE IF op = "UnregisterPublisher" THEN Pub(name) \ {k}
                      ELSE Pub(name)
      /\ Sub(name)' = IF op = "Subscribe" THEN Sub(name) \cup {k}
                      ELSE IF op = "Unsubscribe" THEN Sub(name) \ {k}
                      ELSE Sub(name)
      /\ IF op = "UnregisterPublisher"
         THEN /\ told' = {x \in told : x[2] \in Publishing(x[1])'}
              /\ seen' = {x \in seen : x[2] \in Publishing(x[1])'}
         ELSE told' = told /\ seen' = seen

FirstStep(op) == IF op = "UnregisterPublisher" THEN "reply" ELSE "query"

LEMMA RequestStep ==
  ASSUME GraphInv, NEW t \in Threads, Request(t)
  PROVE  \E op \in Ops, node \in NodeInfo, k \in TopicKey :
           Accept(t, op, node, k, FirstStep(op)) /\ Registers(op, node, k)
<1>1. PICK node \in NodeInfo, k \in TopicKey :
        \/ Subscribe(t, node, k)
        \/ Unsubscribe(t, node, k)
        \/ RegisterPublisher(t, node, k)
        \/ UnregisterPublisher(t, node, k)
  BY DEF Request
<1>2. CASE Subscribe(t, node, k)
  <2>1. Accept(t, "Subscribe", node, k, FirstStep("Subscribe"))
    BY <1>2 DEF Subscribe, FirstStep
  <2>2. Registers("Subscribe", node, k)
    BY <1>2, GraphAdds DEF Subscribe, Registers
  <2> QED BY <2>1, <2>2 DEF Ops
<1>3. CASE Unsubscribe(t, node, k)
  <2>1. Accept(t, "Unsubscribe", node, k, FirstStep("Unsubscribe"))
    BY <1>3 DEF Unsubscribe, FirstStep
  <2>2. Registers("Unsubscribe", node, k)
    BY <1>3, GraphRemoves DEF Unsubscribe, Registers
  <2> QED BY <2>1, <2>2 DEF Ops
<1>4. CASE RegisterPublisher(t, node, k)
  <2>1. Accept(t, "RegisterPublisher", node, k, FirstStep("RegisterPublisher"))
    BY <1>4 DEF RegisterPublisher, FirstStep
  <2>2. Registers("RegisterPublisher", node, k)
    BY <1>4, GraphAdds DEF RegisterPublisher, Registers
  <2> QED BY <2>1, <2>2 DEF Ops
<1>5. CASE UnregisterPublisher(t, node, k)
  <2>1. Accept(t, "UnregisterPublisher", node, k, FirstStep("UnregisterPublisher"))
    BY <1>5 DEF UnregisterPublisher, FirstStep
  <2>2. Registers("UnregisterPublisher", node, k)
    BY <1>5, GraphRemoves DEF UnregisterPublisher, Registers
  <2> QED BY <2>1, <2>2 DEF Ops
<1> QED BY <1>1, <1>2, <1>3, <1>4, <1>5

(* A step of a handler after its call into the graph: the request stays    *)
(* what it was.                                                            *)
SameRequest(t) ==
  /\ t \in Busys /\ Busys' = Busys
  /\ \A u \in Threads : u # t => call'[u] = call[u]
  /\ call'[t].op = call[t].op
  /\ call'[t].node = call[t].node
  /\ call'[t].key = call[t].key

LEMMA QueryStep ==
  ASSUME GraphInv, call \in [Threads -> Busy \cup {Idle}], NEW t \in Threads, Query(t)
  PROVE  /\ UNCHANGED graphVars /\ told' = told
         /\ SameRequest(t) /\ call' \in [Threads -> Busy \cup {Idle}]
         /\ call[t] \in Busy /\ call[t].pc = "query"
         /\ \E found \in Lookup(call[t]) :
              /\ found \subseteq NodeInfo
              /\ call'[t].update = UpdateOf(call[t], found)
              /\ call'[t].remaining = Recipients(call[t], found)
              /\ call'[t].pc = IF Recipients(call[t], found) = {} THEN "reply" ELSE "lookup"
              /\ seen' = IF call[t].op # "RegisterPublisher" THEN seen
                         ELSE {x \in seen : <<x[1], x[2]>> #
                                 <<call[t].node.node_name, call[t].key.topic>>}
                              \cup {<<call[t].node.node_name, call[t].key.topic,
                                      s.node_name>> : s \in found}
<1>1. PICK found \in Lookup(call[t]) :
        LET c  == call[t]
            to == Recipients(c, found)
        IN  /\ call' = [call EXCEPT ![t].pc = IF to = {} THEN "reply" ELSE "lookup",
                                    ![t].update = UpdateOf(c, found),
                                    ![t].remaining = to]
            /\ seen' = IF c.op # "RegisterPublisher" THEN seen
                       ELSE {x \in seen : <<x[1], x[2]>> # <<c.node.node_name, c.key.topic>>}
                            \cup {<<c.node.node_name, c.key.topic, s.node_name>> : s \in found}
  BY DEF Query
<1>2. call[t] \in Busy /\ call[t].pc = "query" /\ t \in Busys
  BY BusyOrIdle DEF Query, Busys
<1>3. found \subseteq NodeInfo
  BY PublishersFound, SubscribersFound DEF Lookup
<1> DEFINE to == Recipients(call[t], found)
           up == UpdateOf(call[t], found)
<1>4. /\ to \subseteq Names
      /\ call[t].node \in NodeInfo /\ call[t].update \in Update
  BY <1>2, <1>3 DEF Recipients, Busy, NodeInfo, Graph!NodeInfo
<1>5. up \in Update
  <2>1. /\ {call[t].node} \in SUBSET NodeInfo
        /\ (IF found = {} THEN {} ELSE {call[t].node}) \in SUBSET NodeInfo
    BY <1>4
  <2>2. \A s \in SUBSET NodeInfo :
          /\ [call[t].update EXCEPT !.add_targets = s] \in Update
          /\ [call[t].update EXCEPT !.remove_targets = s] \in Update
    BY <1>4 DEF Update
  <2> QED BY <2>1, <2>2 DEF UpdateOf
<1> HIDE DEF to, up
<1>6. call' = [call EXCEPT ![t] = [call[t] EXCEPT
                 !.pc = IF to = {} THEN "reply" ELSE "lookup",
                 !.update = up, !.remaining = to]]
  BY <1>1, <1>2 DEF to, up
<1> DEFINE new == [call[t] EXCEPT !.pc = IF to = {} THEN "reply" ELSE "lookup",
                                  !.update = up, !.remaining = to]
<1>7. /\ new \in Busy
      /\ new.pc = IF to = {} THEN "reply" ELSE "lookup"
      /\ new.update = up /\ new.remaining = to
      /\ new.op = call[t].op /\ new.node = call[t].node /\ new.key = call[t].key
  BY <1>2, <1>4, <1>5 DEF Busy
<1> HIDE DEF new
<1>8. /\ call' \in [Threads -> Busy \cup {Idle}]
      /\ call'[t] = new /\ \A u \in Threads : u # t => call'[u] = call[u]
  BY <1>6, <1>7 DEF new
<1>9. SameRequest(t)
  BY <1>2, <1>7, <1>8, BusyOrIdle DEF SameRequest, Busys
<1>10. UNCHANGED graphVars /\ told' = told
  BY DEF Query
<1> QED BY <1>1, <1>2, <1>3, <1>7, <1>8, <1>9, <1>10 DEF to, up

LEMMA LookupStep ==
  ASSUME GraphInv, call \in [Threads -> Busy \cup {Idle}], NEW t \in Threads,
         SendUpdateLookup(t)
  PROVE  /\ UNCHANGED graphVars /\ told' = told /\ seen' = seen
         /\ SameRequest(t) /\ call' \in [Threads -> Busy \cup {Idle}]
         /\ call[t] \in Busy /\ call[t].pc = "lookup"
         /\ call'[t].update = call[t].update
         /\ call'[t].pc = "post"
         /\ \E name \in call[t].remaining :
              /\ call'[t].remaining = call[t].remaining \ {name}
              /\ call'[t].to = IF name \in DOMAIN nodes THEN nodes[name].info
                               ELSE NoContact
<1>1. PICK name \in call[t].remaining :
        call' = [call EXCEPT ![t].pc = "post",
                             ![t].remaining = @ \ {name},
                             ![t].to = IF Graph!HasNode(name)
                                       THEN nodes[name].info ELSE NoContact]
  BY DEF SendUpdateLookup
<1>2. call[t] \in Busy /\ call[t].pc = "lookup" /\ t \in Busys
  BY BusyOrIdle DEF SendUpdateLookup, Busys
<1> DEFINE to == IF name \in DOMAIN nodes THEN nodes[name].info ELSE NoContact
           new == [call[t] EXCEPT !.pc = "post", !.remaining = call[t].remaining \ {name},
                                  !.to = to]
<1>3. to \in NodeInfo \cup {NoContact}
  BY GraphJoins
<1>4. call' = [call EXCEPT ![t] = new]
  BY <1>1, <1>2 DEF Graph!HasNode
<1> HIDE DEF to
<1>5. /\ new \in Busy
      /\ new.pc = "post" /\ new.remaining = call[t].remaining \ {name} /\ new.to = to
      /\ new.update = call[t].update
      /\ new.op = call[t].op /\ new.node = call[t].node /\ new.key = call[t].key
  BY <1>2, <1>3 DEF Busy
<1> HIDE DEF new
<1>6. /\ call' \in [Threads -> Busy \cup {Idle}]
      /\ call'[t] = new /\ \A u \in Threads : u # t => call'[u] = call[u]
  BY <1>4, <1>5
<1>7. SameRequest(t)
  BY <1>2, <1>5, <1>6, BusyOrIdle DEF SameRequest, Busys
<1>8. UNCHANGED graphVars /\ told' = told /\ seen' = seen
  BY DEF SendUpdateLookup
<1> QED BY <1>2, <1>5, <1>6, <1>7, <1>8 DEF to

LEMMA PostStep ==
  ASSUME call \in [Threads -> Busy \cup {Idle}], NEW t \in Threads, SendUpdatePost(t)
  PROVE  /\ UNCHANGED graphVars
         /\ SameRequest(t) /\ call' \in [Threads -> Busy \cup {Idle}]
         /\ call[t] \in Busy /\ call[t].pc = "post"
         /\ call'[t].update = call[t].update
         /\ call'[t].remaining = call[t].remaining
         /\ call'[t].pc = IF call[t].remaining = {} THEN "reply" ELSE "lookup"
         /\ told' = (told \ Entries(call[t], call[t].update.remove_targets))
                      \cup Entries(call[t], call[t].update.add_targets)
         /\ seen' = seen \ Entries(call[t], call[t].update.remove_targets)
<1>1. call[t] \in Busy /\ call[t].pc = "post" /\ t \in Busys
  BY BusyOrIdle DEF SendUpdatePost, Busys
<1> DEFINE pc  == IF call[t].remaining = {} THEN "reply" ELSE "lookup"
           new == [call[t] EXCEPT !.pc = pc, !.to = NoContact]
<1>2. call' = [call EXCEPT ![t] = new]
  BY <1>1 DEF SendUpdatePost
<1> HIDE DEF pc
<1>3. pc \in {"reply", "lookup"}
  BY DEF pc
<1>4. /\ new \in Busy
      /\ new.pc = pc /\ new.remaining = call[t].remaining
      /\ new.update = call[t].update
      /\ new.op = call[t].op /\ new.node = call[t].node /\ new.key = call[t].key
  BY <1>1, <1>3 DEF Busy
<1> HIDE DEF new
<1>5. /\ call' \in [Threads -> Busy \cup {Idle}]
      /\ call'[t] = new /\ \A u \in Threads : u # t => call'[u] = call[u]
  BY <1>2, <1>4
<1>6. SameRequest(t)
  BY <1>1, <1>4, <1>5, BusyOrIdle DEF SameRequest, Busys
<1> QED BY <1>1, <1>4, <1>5, <1>6 DEF SendUpdatePost, pc

LEMMA ReplyStep ==
  ASSUME call \in [Threads -> Busy \cup {Idle}], NEW t \in Threads, Reply(t)
  PROVE  /\ UNCHANGED graphVars /\ told' = told /\ seen' = seen
         /\ t \in Busys /\ Busys' = Busys \ {t}
         /\ call' \in [Threads -> Busy \cup {Idle}]
         /\ \A u \in Threads : u # t => call'[u] = call[u]
         /\ call[t] \in Busy /\ call[t].pc = "reply"
<1>1. call[t] \in Busy /\ call[t].pc = "reply" /\ t \in Busys
  BY BusyOrIdle DEF Reply, Busys
<1> QED BY <1>1 DEF Reply, Busys

-----------------------------------------------------------------------------
(* The invariant holds initially and every step keeps it.                  *)

LEMMA InitInductive == Init => IndInv
<1> SUFFICES ASSUME Init PROVE IndInv
  OBVIOUS
<1>1. GraphProofs!Init
  BY DEF Init, Graph!Init, GraphProofs!Init, Graph!EmptyMap, GraphProofs!EmptyMap
<1>2. GraphInv
  BY <1>1, GraphProofs!InitInductive, SameInvariant
<1>3. Busys = {} /\ told = {} /\ seen = {} /\ call \in [Threads -> Busy \cup {Idle}]
  BY DEF Init, Busys
<1> QED BY <1>2, <1>3 DEF IndInv, GraphInv, TypeOK, OneRequest, Progress, Effective, ToldPublish

LEMMA StandsStays ==
  ASSUME UNCHANGED graphVars, NEW u, Stands(call[u]),
         call'[u].op = call[u].op, call'[u].node = call[u].node, call'[u].key = call[u].key
  PROVE  Stands(call[u])'
BY GraphStays DEF Stands

LEMMA OneTargetTyped ==
  ASSUME GraphInv, NEW c, c.update \in Update, NEW infos \in SUBSET NodeInfo
  PROVE  /\ Entries(c, infos) \subseteq Names \X Topics \X Names
         /\ \A x \in Entries(c, infos) : /\ x[1] = c.to.node_name /\ x[2] = c.update.topic
                                         /\ \E i \in infos : x[3] = i.node_name
                                         /\ x[2] \in Publishing(x[1])
<1>1. \A x \in Entries(c, infos) :
        /\ x[1] = c.to.node_name /\ x[2] = c.update.topic
        /\ \E i \in infos : x = <<c.to.node_name, c.update.topic, i.node_name>>
        /\ x[2] \in Publishing(x[1])
  BY DEF Entries
<1>2. \A n : Publishing(n) # {} => n \in Names
  BY GraphJoins DEF Publishing, Pub
<1>3. c.update.topic \in Topics /\ \A i \in infos : i.node_name \in Names
  BY DEF Update, NodeInfo, Graph!NodeInfo
<1>4. \A x \in Entries(c, infos) : x[1] \in Names
  BY <1>1, <1>2
<1>5. ASSUME NEW x \in Entries(c, infos) PROVE x \in Names \X Topics \X Names
  <2>1. PICK i \in infos : x = <<c.to.node_name, c.update.topic, i.node_name>>
    BY <1>1
  <2>2. c.to.node_name \in Names
    BY <2>1, <1>4
  <2> QED BY <2>1, <2>2, <1>3
<1>6. \A x \in Entries(c, infos) : \E i \in infos : x[3] = i.node_name
  BY <1>1
<1> QED BY <1>1, <1>5, <1>6

LEMMA RequestKeeps ==
  ASSUME IndInv, NEW t \in Threads, Request(t)
  PROVE  IndInv'
<1>1. PICK op \in Ops, node \in NodeInfo, k \in TopicKey :
        Accept(t, op, node, k, FirstStep(op)) /\ Registers(op, node, k)
  BY RequestStep DEF IndInv
<1>2. FirstStep(op) \in {"query", "reply"}
  BY DEF FirstStep
<1>3. /\ call' \in [Threads -> Busy \cup {Idle}]
      /\ t \notin Busys /\ Busys' = Busys \cup {t}
      /\ \A u \in Threads : u # t => call'[u] = call[u]
      /\ \A u \in Busys : call[u].node.node_name # node.node_name
      /\ call'[t] \in Busy
      /\ call'[t].pc = FirstStep(op) /\ call'[t].op = op
      /\ call'[t].node = node /\ call'[t].key = k
      /\ call'[t].remaining = {} /\ call'[t].update = EmptyUpdate(k.topic)
  BY <1>1, <1>2, AcceptStep DEF IndInv, TypeOK
<1>4. \A u \in Busys : u \in Threads /\ u # t /\ call'[u] = call[u]
  BY <1>3 DEF Busys
<1>5. GraphInv' /\ Graph!TypeOK'
  BY <1>1 DEF Registers, GraphInv
<1>6. TypeOK'
  <2>1. told' \subseteq told /\ seen' \subseteq seen
    BY <1>1 DEF Registers
  <2> QED BY <1>3, <1>5, <2>1 DEF IndInv, TypeOK
<1>7. OneRequest'
  <2> SUFFICES ASSUME NEW u \in Busys', NEW v \in Busys',
                      call'[u].node.node_name = call'[v].node.node_name
               PROVE  u = v
    BY DEF OneRequest
  <2> QED BY <1>3, <1>4 DEF IndInv, OneRequest
<1>8. Progress'
  <2>1. GoesOn(call'[t])
    BY <1>3 DEF GoesOn, FirstStep
  <2>2. \A u \in Busys : GoesOn(call'[u])
    BY <1>4 DEF IndInv, Progress
  <2> QED BY <1>3, <2>1, <2>2 DEF Progress
<1>9. Effective'
  <2>1. Stands(call[t])'
    BY <1>1, <1>3 DEF Registers, Stands
  <2>2. ASSUME NEW u \in Busys PROVE Stands(call[u])'
    <3>1. Stands(call[u]) /\ call'[u] = call[u] /\ call[u].node.node_name # node.node_name
      BY <1>3, <1>4 DEF IndInv, Effective
    <3> QED BY <1>1, <3>1 DEF Registers, OthersKept, Stands
  <2> QED BY <1>3, <2>1, <2>2 DEF Effective
<1>10. ToldPublish'
  <2>1. CASE op = "UnregisterPublisher"
    BY <1>1, <2>1 DEF Registers, ToldPublish
  <2>2. CASE op # "UnregisterPublisher"
    <3>1. told' = told /\ seen' = seen /\ \A n : Pub(n) \subseteq Pub(n)'
      BY <1>1, <2>2 DEF Registers, OthersKept
    <3>2. \A n : Publishing(n) \subseteq Publishing(n)'
      BY <3>1 DEF Publishing, Pub
    <3> QED BY <3>1, <3>2 DEF IndInv, ToldPublish
  <2> QED BY <2>1, <2>2
<1> QED BY <1>5, <1>6, <1>7, <1>8, <1>9, <1>10 DEF IndInv

(* A step that leaves the graph alone keeps most of the invariant. *)
LEMMA HandlerKeeps ==
  ASSUME IndInv, NEW t \in Threads, UNCHANGED graphVars, SameRequest(t),
         call' \in [Threads -> Busy \cup {Idle}],
         GoesOn(call'[t]),
         told' \subseteq Names \X Topics \X Names,
         seen' \subseteq Names \X Topics \X Names,
         \A x \in told' \cup seen' : x[2] \in Publishing(x[1])
  PROVE  IndInv'
<1>1. \A u \in Busys : /\ u \in Threads
                       /\ call'[u].op = call[u].op
                       /\ call'[u].node = call[u].node
                       /\ call'[u].key = call[u].key
                       /\ u # t => call'[u] = call[u]
  BY DEF Busys, SameRequest
<1>2. Busys' = Busys
  BY DEF SameRequest
<1>3. GraphInv' /\ TypeOK'
  BY GraphStays DEF IndInv, TypeOK
<1>4. OneRequest'
  BY <1>1, <1>2 DEF IndInv, OneRequest
<1>5. Progress'
  BY <1>1, <1>2 DEF IndInv, Progress
<1>6. Effective'
  <2>1. ASSUME NEW u \in Busys PROVE Stands(call[u])'
    BY <1>1, StandsStays DEF IndInv, Effective
  <2> QED BY <1>2, <2>1 DEF Effective
<1>7. ToldPublish'
  BY GraphStays DEF ToldPublish
<1> QED BY <1>3, <1>4, <1>5, <1>6, <1>7 DEF IndInv

LEMMA QueryKeeps ==
  ASSUME IndInv, NEW t \in Threads, Query(t)
  PROVE  IndInv'
<1>1. /\ UNCHANGED graphVars /\ told' = told
      /\ SameRequest(t) /\ call' \in [Threads -> Busy \cup {Idle}]
      /\ call[t] \in Busy /\ call[t].pc = "query"
  BY QueryStep DEF IndInv, TypeOK
<1>2. PICK found \in Lookup(call[t]) :
        /\ found \subseteq NodeInfo
        /\ call'[t].update = UpdateOf(call[t], found)
        /\ call'[t].remaining = Recipients(call[t], found)
        /\ call'[t].pc = IF Recipients(call[t], found) = {} THEN "reply" ELSE "lookup"
        /\ seen' = IF call[t].op # "RegisterPublisher" THEN seen
                   ELSE {x \in seen : <<x[1], x[2]>> #
                           <<call[t].node.node_name, call[t].key.topic>>}
                        \cup {<<call[t].node.node_name, call[t].key.topic,
                                s.node_name>> : s \in found}
  BY QueryStep DEF IndInv, TypeOK
<1>3. /\ call[t].node \in NodeInfo /\ call[t].key \in TopicKey /\ call[t].op \in Ops
      /\ call[t].op # "UnregisterPublisher"
      /\ call[t].update = EmptyUpdate(call[t].key.topic)
      /\ call[t].op = call'[t].op /\ call[t].node = call'[t].node
      /\ call[t].key = call'[t].key
  BY <1>1 DEF Busy, IndInv, Progress, GoesOn, SameRequest
<1>4. WellMade(call'[t])
  <2> DEFINE new == UpdateOf(call[t], found)
             node == call[t].node
  <2>1. /\ call[t].op = "Subscribe" =>
             new = [EmptyUpdate(call[t].key.topic) EXCEPT !.add_targets = {node}]
        /\ call[t].op = "Unsubscribe" =>
             new = [EmptyUpdate(call[t].key.topic) EXCEPT !.remove_targets = {node}]
        /\ call[t].op = "RegisterPublisher" =>
             new = [EmptyUpdate(call[t].key.topic) EXCEPT !.add_targets =
                      IF found = {} THEN {} ELSE {node}]
    BY <1>3 DEF UpdateOf
  <2>2. /\ new.topic = call[t].key.topic
        /\ new.add_targets = IF call[t].op = "Subscribe" THEN {node}
                             ELSE IF call[t].op = "Unsubscribe" THEN {}
                             ELSE IF found = {} THEN {} ELSE {node}
        /\ new.remove_targets = IF call[t].op = "Unsubscribe" THEN {node} ELSE {}
    BY <1>3, <2>1 DEF EmptyUpdate, Ops
  <2> HIDE DEF new
  <2> QED BY <1>2, <1>3, <2>2 DEF WellMade, new
<1>5. GoesOn(call'[t])
  <2>1. call[t].op = "RegisterPublisher" => call'[t].remaining = {call[t].node.node_name}
    BY <1>2 DEF Recipients
  <2> QED BY <1>2, <1>3, <1>4, <2>1 DEF GoesOn
<1>6. seen' \subseteq Names \X Topics \X Names
  <2>1. /\ call[t].node.node_name \in Names /\ call[t].key.topic \in Topics
        /\ \A s \in found : s.node_name \in Names
    BY <1>2, <1>3 DEF NodeInfo, Graph!NodeInfo, TopicKey, Graph!TopicKey
  <2> QED BY <1>2, <2>1 DEF IndInv, TypeOK
<1>7. ASSUME NEW x \in seen' PROVE x[2] \in Publishing(x[1])
  <2>1. CASE x \in seen
    BY <2>1 DEF IndInv, ToldPublish
  <2>2. CASE x \notin seen
    <3>1. PICK s \in found : x = <<call[t].node.node_name, call[t].key.topic, s.node_name>>
      BY <1>2, <1>7, <2>2
    <3>2. x[1] = call[t].node.node_name /\ x[2] = call[t].key.topic
      BY <3>1
    <3>3. call[t].op = "RegisterPublisher" /\ call[t].key \in Pub(call[t].node.node_name)
      BY <1>1, <1>2, <1>7, <2>2 DEF IndInv, Effective, Stands, SameRequest
    <3> QED BY <3>2, <3>3 DEF Publishing, Pub
  <2> QED BY <2>1, <2>2
<1>8. \A x \in told' \cup seen' : x[2] \in Publishing(x[1])
  BY <1>1, <1>7 DEF IndInv, ToldPublish
<1> QED BY <1>1, <1>5, <1>6, <1>8, HandlerKeeps DEF IndInv, TypeOK

LEMMA LookupKeeps ==
  ASSUME IndInv, NEW t \in Threads, SendUpdateLookup(t)
  PROVE  IndInv'
<1>1. /\ UNCHANGED graphVars /\ told' = told /\ seen' = seen
      /\ SameRequest(t) /\ call' \in [Threads -> Busy \cup {Idle}]
      /\ call[t].pc = "lookup" /\ call'[t].pc = "post"
      /\ call'[t].update = call[t].update
  BY LookupStep DEF IndInv, TypeOK
<1>2. PICK name \in call[t].remaining :
        /\ call'[t].remaining = call[t].remaining \ {name}
        /\ call'[t].to = IF name \in DOMAIN nodes THEN nodes[name].info ELSE NoContact
  BY LookupStep DEF IndInv, TypeOK
<1>3. /\ GoesOn(call[t]) /\ Stands(call[t])
      /\ call'[t].op = call[t].op /\ call'[t].node = call[t].node
      /\ call'[t].key = call[t].key
  BY <1>1 DEF IndInv, Progress, Effective, SameRequest
<1>4. WellMade(call'[t])
  BY <1>1, <1>3 DEF GoesOn, WellMade
<1>5. call[t].op = "RegisterPublisher" =>
        /\ call'[t].remaining \subseteq {call[t].node.node_name}
        /\ call'[t].to.node_name = call[t].node.node_name
  BY <1>2, <1>3 DEF GoesOn, Stands
<1>6. GoesOn(call'[t])
  BY <1>1, <1>3, <1>4, <1>5 DEF GoesOn
<1> QED BY <1>1, <1>6, HandlerKeeps DEF IndInv, TypeOK, ToldPublish

LEMMA PostKeeps ==
  ASSUME IndInv, NEW t \in Threads, SendUpdatePost(t)
  PROVE  IndInv'
<1>1. /\ UNCHANGED graphVars
      /\ SameRequest(t) /\ call' \in [Threads -> Busy \cup {Idle}]
      /\ call[t] \in Busy /\ call[t].pc = "post"
      /\ call'[t].update = call[t].update
      /\ call'[t].remaining = call[t].remaining
      /\ call'[t].pc = IF call[t].remaining = {} THEN "reply" ELSE "lookup"
      /\ told' = (told \ Entries(call[t], call[t].update.remove_targets))
                   \cup Entries(call[t], call[t].update.add_targets)
      /\ seen' = seen \ Entries(call[t], call[t].update.remove_targets)
  BY PostStep DEF IndInv, TypeOK
<1>2. /\ GoesOn(call[t])
      /\ call'[t].op = call[t].op /\ call'[t].node = call[t].node
      /\ call'[t].key = call[t].key
  BY <1>1 DEF IndInv, Progress, SameRequest
<1>3. WellMade(call'[t])
  BY <1>1, <1>2 DEF GoesOn, WellMade
<1>4. GoesOn(call'[t])
  BY <1>1, <1>2, <1>3 DEF GoesOn
<1>5. call[t].update \in Update /\ call[t].update.add_targets \in SUBSET NodeInfo
  BY <1>1 DEF Busy, Update
<1>6. /\ Entries(call[t], call[t].update.add_targets) \subseteq Names \X Topics \X Names
      /\ \A x \in Entries(call[t], call[t].update.add_targets) : x[2] \in Publishing(x[1])
  BY <1>5, OneTargetTyped DEF IndInv
<1> QED BY <1>1, <1>4, <1>6, HandlerKeeps DEF IndInv, TypeOK, ToldPublish

LEMMA ReplyKeeps ==
  ASSUME IndInv, NEW t \in Threads, Reply(t)
  PROVE  IndInv'
<1>1. /\ UNCHANGED graphVars /\ told' = told /\ seen' = seen
      /\ t \in Busys /\ Busys' = Busys \ {t}
      /\ call' \in [Threads -> Busy \cup {Idle}]
      /\ \A u \in Threads : u # t => call'[u] = call[u]
  BY ReplyStep DEF IndInv, TypeOK
<1>2. \A u \in Busys' : u \in Busys /\ u \in Threads /\ call'[u] = call[u]
  BY <1>1 DEF Busys
<1>3. GraphInv' /\ TypeOK' /\ ToldPublish'
  BY <1>1, GraphStays DEF IndInv, TypeOK, ToldPublish
<1>4. OneRequest' /\ Progress'
  BY <1>2 DEF IndInv, OneRequest, Progress
<1>5. Effective'
  <2>1. ASSUME NEW u \in Busys' PROVE Stands(call[u])'
    BY <1>1, <1>2, StandsStays DEF IndInv, Effective
  <2> QED BY <2>1 DEF Effective
<1> QED BY <1>3, <1>4, <1>5 DEF IndInv

LEMMA IdleKeeps ==
  ASSUME IndInv, UNCHANGED vars
  PROVE  IndInv'
<1>1. UNCHANGED graphVars /\ call' = call /\ told' = told /\ seen' = seen
  BY DEF vars
<1>2. Busys' = Busys
  BY <1>1 DEF Busys
<1>3. GraphInv' /\ TypeOK' /\ ToldPublish'
  BY <1>1, GraphStays DEF IndInv, TypeOK, ToldPublish
<1>4. OneRequest' /\ Progress'
  BY <1>1, <1>2 DEF IndInv, OneRequest, Progress
<1>5. Effective'
  <2>1. ASSUME NEW u \in Busys PROVE Stands(call[u])'
    BY <1>1, StandsStays DEF IndInv, Effective
  <2> QED BY <1>2, <2>1 DEF Effective
<1> QED BY <1>3, <1>4, <1>5 DEF IndInv

(* Graph, requests and notifications stay related as IndInv says, however  *)
(* the handlers interleave.                                                *)
LEMMA InductiveInvariant == Spec => []IndInv
<1>1. IndInv /\ [Next]_vars => IndInv'
  BY RequestKeeps, QueryKeeps, LookupKeeps, PostKeeps, ReplyKeeps, IdleKeeps DEF Next
<1> QED BY <1>1, InitInductive, PTL DEF Spec

(* The edges join the two sides, before and after a step. *)
EdgesJoin ==
  \A e \in edges : e.key \in Pub(e.src_node) /\ e.key \in Sub(e.dst_node) /\ e \in Graph!Edge

LEMMA EdgesJoinNext ==
  /\ GraphInv => EdgesJoin
  /\ GraphInv' => EdgesJoin'
<1>1. GraphInv => EdgesJoin
  BY GraphJoins DEF GraphInv, Graph!TypeOK, EdgesJoin
<1> QED BY <1>1, PTL

(* The type invariant of the service: graph, requests and notifications.   *)
THEOREM TypeCorrect == Spec => []TypeOK
<1>1. IndInv => TypeOK
  BY DEF IndInv
<1> QED BY <1>1, InductiveInvariant, PTL

(* Each request takes effect, whatever the other handlers do meanwhile.    *)
THEOREM AlwaysTakesEffect == Spec => []TakesEffect
<1>1. IndInv => TakesEffect
  <2> SUFFICES ASSUME IndInv, NEW t \in Busys
               PROVE  LET c    == call[t]
                          name == c.node.node_name
                      IN  /\ c.op = "Subscribe" =>
                               c.key \in Sub(name) /\ nodes[name].info = c.node
                          /\ c.op = "RegisterPublisher" =>
                               c.key \in Pub(name) /\ nodes[name].info = c.node
                          /\ c.op = "Unsubscribe" =>
                               \A e \in edges : e.key = c.key => e.dst_node # name
                          /\ c.op = "UnregisterPublisher" =>
                               \A e \in edges : e.key = c.key => e.src_node # name
    BY DEF TakesEffect, Busys, Pub, Sub
  <2>1. Stands(call[t])
    BY DEF IndInv, Effective
  <2>2. \A e \in edges : e.key \in Pub(e.src_node) /\ e.key \in Sub(e.dst_node)
    BY GraphJoins DEF IndInv
  <2> QED BY <2>1, <2>2 DEF Stands
<1> QED BY <1>1, InductiveInvariant, PTL

-----------------------------------------------------------------------------
(* The handlers look nodes up by topic name alone, and get the nodes of    *)
(* one key of that topic: what they owe to a pair, or to a withdrawn       *)
(* target, they do when no topic is used under two message types at once.  *)

KeysInUse == DOMAIN publishers_by_topic \cup DOMAIN subscribers_by_topic
               \cup {call[t].key : t \in Busys}

OneTypePerTopic == \A j, k \in KeysInUse : j.topic = k.topic => j = k

(* The nodes a handler still has to notify. *)
WillNotify(c, name) ==
  \/ c.pc = "query"
  \/ name \in c.remaining
  \/ c.pc = "post" /\ c.to.node_name = name

(* The handler of request c will find the pair of edge e. *)
WillFind(c, e) ==
  /\ c.key.topic = e.key.topic
  /\ \/ /\ c.op = "RegisterPublisher"
        /\ c.node.node_name = e.src_node
        /\ c.pc = "query"
     \/ /\ c.op = "Subscribe"
        /\ c.node.node_name = e.dst_node
        /\ WillNotify(c, e.src_node)

Covered(e) ==
  \/ <<e.src_node, e.key.topic, e.dst_node>> \in told \cup seen
  \/ \E t \in Busys : WillFind(call[t], e)

AllCovered == \A e \in edges : Covered(e)

(* The handler of request c will take the target of x away. *)
WillDrop(c, x) ==
  /\ c.op = "Unsubscribe"
  /\ c.key.topic = x[2]
  /\ c.node.node_name = x[3]
  /\ WillNotify(c, x[1])

Fresh(x) ==
  \/ x[2] \in Subscribing(x[3])
  \/ x[3] = x[1]
  \/ \E t \in Busys : WillDrop(call[t], x)

AllFresh == \A x \in told \cup seen : Fresh(x)

(* Under one type per topic a lookup finds everybody. *)
LEMMA FindsPublisher ==
  ASSUME GraphInv, OneTypePerTopic, NEW n, NEW k \in Pub(n),
         NEW found \in Graph!GetPublishersByTopic(k.topic)
  PROVE  n \in {i.node_name : i \in found}
<1>1. /\ k \in DOMAIN publishers_by_topic /\ n \in DOMAIN nodes
      /\ nodes[n].info.node_name = n
  BY GraphJoins
<1>2. \A j \in DOMAIN publishers_by_topic : j.topic = k.topic => j = k
  BY <1>1 DEF OneTypePerTopic, KeysInUse
<1>3. nodes[n].info \in found
  BY <1>2, PublishersFound
<1> QED BY <1>1, <1>3

LEMMA FindsSubscriber ==
  ASSUME GraphInv, OneTypePerTopic, NEW n, NEW k \in Sub(n),
         NEW found \in Graph!GetSubscribersByTopic(k.topic)
  PROVE  n \in {i.node_name : i \in found}
<1>1. /\ k \in DOMAIN subscribers_by_topic /\ n \in DOMAIN nodes
      /\ nodes[n].info.node_name = n
  BY GraphJoins
<1>2. \A j \in DOMAIN subscribers_by_topic : j.topic = k.topic => j = k
  BY <1>1 DEF OneTypePerTopic, KeysInUse
<1>3. nodes[n].info \in found
  BY <1>2, SubscribersFound
<1> QED BY <1>1, <1>3

LEMMA OthersGoOn ==
  ASSUME NEW t \in Threads, SameRequest(t)
  PROVE  /\ t \in Busys /\ Busys' = Busys
         /\ \A u \in Busys : u # t => call'[u] = call[u]
BY DEF SameRequest, Busys

LEMMA RequestCovers ==
  ASSUME IndInv, IndInv', AllCovered, NEW t \in Threads, Request(t)
  PROVE  AllCovered'
<1>1. PICK op \in Ops, node \in NodeInfo, k \in TopicKey :
        Accept(t, op, node, k, FirstStep(op)) /\ Registers(op, node, k)
  BY RequestStep DEF IndInv
<1>2. /\ t \notin Busys /\ Busys' = Busys \cup {t}
      /\ \A u \in Threads : u # t => call'[u] = call[u]
      /\ call'[t].pc = FirstStep(op) /\ call'[t].op = op
      /\ call'[t].node = node /\ call'[t].key = k
  <2>1. FirstStep(op) \in {"query", "reply"}
    BY DEF FirstStep
  <2> QED BY <1>1, <2>1, AcceptStep DEF IndInv, TypeOK
<1>3. \A u \in Busys : u \in Busys' /\ call'[u] = call[u]
  BY <1>2 DEF Busys
<1> SUFFICES ASSUME NEW e \in edges' PROVE Covered(e)'
  BY DEF AllCovered
<1>4. e.key \in Pub(e.src_node)' /\ e.key \in Sub(e.dst_node)' /\ e \in Graph!Edge
  BY EdgesJoinNext DEF IndInv, EdgesJoin
<1>5. CASE e \in edges
  <2>1. CASE <<e.src_node, e.key.topic, e.dst_node>> \in told \cup seen
    <3>1. e.key.topic \in Publishing(e.src_node)'
      BY <1>4 DEF Publishing, Pub
    <3> DEFINE x == <<e.src_node, e.key.topic, e.dst_node>>
    <3>2. x[1] = e.src_node /\ x[2] = e.key.topic
      OBVIOUS
    <3> HIDE DEF x
    <3>3. x[2] \in Publishing(x[1])'
      BY <3>1, <3>2
    <3>4. x \in told \cup seen => x \in told' \cup seen'
      BY <1>1, <3>3 DEF Registers
    <3> QED BY <2>1, <3>4 DEF Covered, x
  <2>2. CASE \E u \in Busys : WillFind(call[u], e)
    BY <1>3, <2>2 DEF Covered, WillFind, WillNotify
  <2> QED BY <1>5, <2>1, <2>2 DEF AllCovered, Covered
<1>6. CASE e \notin edges
  <2>1. ~(e.key \in Pub(e.src_node) /\ e.key \in Sub(e.dst_node))
    BY <1>4, <1>6, GraphJoins DEF IndInv
  <2>2. \/ op = "RegisterPublisher" /\ e.src_node = node.node_name /\ e.key = k
        \/ op = "Subscribe" /\ e.dst_node = node.node_name /\ e.key = k
    BY <1>1, <1>4, <2>1 DEF Registers, OthersKept
  <2>3. call'[t].pc = "query"
    BY <1>2, <2>2 DEF FirstStep
  <2>4. t \in Busys' /\ WillFind(call[t], e)'
    BY <1>2, <2>2, <2>3 DEF WillFind, WillNotify
  <2> QED BY <2>4 DEF Covered
<1> QED BY <1>5, <1>6

LEMMA QueryCovers ==
  ASSUME IndInv, OneTypePerTopic, AllCovered, NEW t \in Threads, Query(t)
  PROVE  AllCovered'
<1>1. /\ UNCHANGED graphVars /\ told' = told /\ SameRequest(t)
      /\ call[t] \in Busy /\ call[t].pc = "query"
  BY QueryStep DEF IndInv, TypeOK
<1>2. PICK found \in Lookup(call[t]) :
        /\ call'[t].remaining = Recipients(call[t], found)
        /\ seen' = IF call[t].op # "RegisterPublisher" THEN seen
                   ELSE {x \in seen : <<x[1], x[2]>> #
                           <<call[t].node.node_name, call[t].key.topic>>}
                        \cup {<<call[t].node.node_name, call[t].key.topic,
                                s.node_name>> : s \in found}
  BY QueryStep DEF IndInv, TypeOK
<1>3. /\ t \in Busys /\ Busys' = Busys
      /\ \A u \in Busys : u # t => call'[u] = call[u]
      /\ call'[t].op = call[t].op /\ call'[t].node = call[t].node
      /\ call'[t].key = call[t].key
  BY <1>1, OthersGoOn DEF SameRequest
<1>4. edges' = edges
  BY <1>1, GraphStays
<1> SUFFICES ASSUME NEW e \in edges PROVE Covered(e)'
  BY <1>4 DEF AllCovered
<1>5. e.key \in Pub(e.src_node) /\ e.key \in Sub(e.dst_node)
  BY EdgesJoinNext DEF IndInv, EdgesJoin
<1> DEFINE x == <<e.src_node, e.key.topic, e.dst_node>>
<1>6. x[1] = e.src_node /\ x[2] = e.key.topic /\ x[3] = e.dst_node
  OBVIOUS
(* RegisterPublisher of the source: it sees the subscriber. *)
<1>7. ASSUME call[t].op = "RegisterPublisher", call[t].node.node_name = e.src_node,
             call[t].key.topic = e.key.topic
      PROVE  Covered(e)'
  <2>1. found \in Graph!GetSubscribersByTopic(e.key.topic)
    BY <1>7 DEF Lookup
  <2>2. PICK s \in found : s.node_name = e.dst_node
    BY <1>5, <2>1, FindsSubscriber DEF IndInv
  <2>3. x \in seen'
    BY <1>2, <1>7, <2>2
  <2> QED BY <2>3 DEF Covered
<1>8. CASE x \in told \cup seen
  <2>1. CASE call[t].op = "RegisterPublisher" /\ call[t].node.node_name = e.src_node
               /\ call[t].key.topic = e.key.topic
    BY <1>7, <2>1
  <2>2. CASE ~(call[t].op = "RegisterPublisher" /\ call[t].node.node_name = e.src_node
                /\ call[t].key.topic = e.key.topic)
    <3>1. call[t].op = "RegisterPublisher" =>
            <<x[1], x[2]>> # <<call[t].node.node_name, call[t].key.topic>>
      BY <1>6, <2>2
    <3> HIDE DEF x
    <3>2. x \in told' \cup seen'
      BY <1>1, <1>2, <1>8, <3>1
    <3> QED BY <3>2 DEF Covered, x
  <2> QED BY <2>1, <2>2
<1>9. ASSUME NEW u \in Busys, WillFind(call[u], e) PROVE Covered(e)'
  <2>1. CASE u # t
    BY <1>3, <1>9, <2>1 DEF Covered, WillFind, WillNotify
  <2>2. CASE u = t /\ call[t].op = "RegisterPublisher"
    BY <1>7, <1>9, <2>2 DEF WillFind
  <2>3. CASE u = t /\ call[t].op # "RegisterPublisher"
    <3>1. /\ call[t].op = "Subscribe" /\ call[t].node.node_name = e.dst_node
          /\ call[t].key.topic = e.key.topic
      BY <1>9, <2>3 DEF WillFind
    <3>2. found \in Graph!GetPublishersByTopic(e.key.topic)
      BY <3>1 DEF Lookup
    <3>3. e.src_node \in call'[t].remaining
      BY <1>2, <1>5, <3>1, <3>2, FindsPublisher DEF IndInv, Recipients
    <3>4. WillFind(call[t], e)'
      BY <1>3, <3>1, <3>3 DEF WillFind, WillNotify
    <3> QED BY <1>3, <3>4 DEF Covered
  <2> QED BY <2>1, <2>2, <2>3
<1> QED BY <1>8, <1>9 DEF AllCovered, Covered

LEMMA LookupCovers ==
  ASSUME IndInv, AllCovered, NEW t \in Threads, SendUpdateLookup(t)
  PROVE  AllCovered'
<1>1. /\ UNCHANGED graphVars /\ told' = told /\ seen' = seen /\ SameRequest(t)
      /\ call[t].pc = "lookup" /\ call'[t].pc = "post"
  BY LookupStep DEF IndInv, TypeOK
<1>2. PICK name \in call[t].remaining :
        /\ call'[t].remaining = call[t].remaining \ {name}
        /\ call'[t].to = IF name \in DOMAIN nodes THEN nodes[name].info ELSE NoContact
  BY LookupStep DEF IndInv, TypeOK
<1>3. /\ t \in Busys /\ Busys' = Busys
      /\ \A u \in Busys : u # t => call'[u] = call[u]
      /\ call'[t].op = call[t].op /\ call'[t].node = call[t].node
      /\ call'[t].key = call[t].key
  BY <1>1, OthersGoOn DEF SameRequest
<1>4. edges' = edges
  BY <1>1, GraphStays
<1> SUFFICES ASSUME NEW e \in edges PROVE Covered(e)'
  BY <1>4 DEF AllCovered
<1>5. e.src_node \in DOMAIN nodes /\ nodes[e.src_node].info.node_name = e.src_node
  <2>1. e.key \in Pub(e.src_node)
    BY EdgesJoinNext DEF IndInv, EdgesJoin
  <2> QED BY <2>1, GraphJoins DEF IndInv
<1>6. CASE <<e.src_node, e.key.topic, e.dst_node>> \in told \cup seen
  BY <1>1, <1>6 DEF Covered
<1>7. ASSUME NEW u \in Busys, WillFind(call[u], e) PROVE Covered(e)'
  <2>1. CASE u # t
    BY <1>3, <1>7, <2>1 DEF Covered, WillFind, WillNotify
  <2>2. CASE u = t
    <3>1. /\ call[t].op = "Subscribe" /\ e.src_node \in call[t].remaining
          /\ call[t].node.node_name = e.dst_node /\ call[t].key.topic = e.key.topic
      BY <1>1, <1>7, <2>2 DEF WillFind, WillNotify
    <3>2. \/ e.src_node \in call'[t].remaining
          \/ call'[t].to.node_name = e.src_node
      BY <1>2, <1>5, <3>1
    <3>3. WillFind(call[t], e)'
      BY <1>1, <1>3, <3>1, <3>2 DEF WillFind, WillNotify
    <3> QED BY <1>3, <3>3 DEF Covered
  <2> QED BY <2>1, <2>2
<1> QED BY <1>6, <1>7 DEF AllCovered, Covered

(* Nothing is taken away from a publisher that an edge would miss: the     *)
(* subscriber that withdraws has lost its role before, and had no other of *)
(* that topic.                                                             *)
LEMMA PostCovers ==
  ASSUME IndInv, OneTypePerTopic, AllCovered, NEW t \in Threads, SendUpdatePost(t)
  PROVE  AllCovered'
<1>1. /\ UNCHANGED graphVars /\ SameRequest(t)
      /\ call[t] \in Busy /\ call[t].pc = "post"
      /\ call'[t].remaining = call[t].remaining
      /\ call'[t].pc = IF call[t].remaining = {} THEN "reply" ELSE "lookup"
      /\ told' = (told \ Entries(call[t], call[t].update.remove_targets))
                   \cup Entries(call[t], call[t].update.add_targets)
      /\ seen' = seen \ Entries(call[t], call[t].update.remove_targets)
  BY PostStep DEF IndInv, TypeOK
<1>2. /\ t \in Busys /\ Busys' = Busys
      /\ \A u \in Busys : u # t => call'[u] = call[u]
      /\ call'[t].op = call[t].op /\ call'[t].node = call[t].node
      /\ call'[t].key = call[t].key
  BY <1>1, OthersGoOn DEF SameRequest
<1>3. edges' = edges
  BY <1>1, GraphStays
<1>4. /\ WellMade(call[t]) /\ Stands(call[t])
      /\ call[t].key \in KeysInUse
  BY <1>1, <1>2 DEF IndInv, Progress, GoesOn, Effective, KeysInUse
<1> SUFFICES ASSUME NEW e \in edges PROVE Covered(e)'
  BY <1>3 DEF AllCovered
<1>5. e.key \in Pub(e.src_node) /\ e.key \in Sub(e.dst_node)
  BY EdgesJoinNext DEF IndInv, EdgesJoin
<1> DEFINE x == <<e.src_node, e.key.topic, e.dst_node>>
<1>6. x \notin Entries(call[t], call[t].update.remove_targets)
  <2> SUFFICES ASSUME x \in Entries(call[t], call[t].update.remove_targets) PROVE FALSE
    OBVIOUS
  <2>1. PICK i \in call[t].update.remove_targets :
          x = <<call[t].to.node_name, call[t].update.topic, i.node_name>>
    BY DEF Entries
  <2>2. /\ call[t].op = "Unsubscribe" /\ i = call[t].node
        /\ e.key.topic = call[t].key.topic /\ e.dst_node = call[t].node.node_name
    BY <1>4, <2>1 DEF WellMade
  <2>3. e.key \in KeysInUse
    BY <1>5, GraphJoins DEF IndInv, KeysInUse
  <2>4. e.key = call[t].key
    BY <1>4, <2>2, <2>3 DEF OneTypePerTopic
  <2> QED BY <1>4, <1>5, <2>2, <2>4 DEF Stands
<1>7. CASE x \in told \cup seen
  BY <1>1, <1>6, <1>7 DEF Covered
<1>8. ASSUME NEW u \in Busys, WillFind(call[u], e) PROVE Covered(e)'
  <2>1. CASE u # t
    BY <1>2, <1>8, <2>1 DEF Covered, WillFind, WillNotify
  <2>2. CASE u = t
    <3>1. /\ call[t].op = "Subscribe" /\ call[t].node.node_name = e.dst_node
          /\ call[t].key.topic = e.key.topic
          /\ e.src_node \in call[t].remaining \/ call[t].to.node_name = e.src_node
      BY <1>1, <1>8, <2>2 DEF WillFind, WillNotify
    <3>2. CASE e.src_node \in call[t].remaining
      <4>1. WillFind(call[t], e)'
        BY <1>1, <1>2, <3>1, <3>2 DEF WillFind, WillNotify
      <4> QED BY <1>2, <4>1 DEF Covered
    <3>3. CASE call[t].to.node_name = e.src_node
      <4>1. /\ call[t].update.add_targets = {call[t].node}
            /\ call[t].update.topic = e.key.topic
        BY <1>4, <3>1 DEF WellMade
      <4>2. e.key.topic \in Publishing(e.src_node)
        BY <1>5 DEF Publishing, Pub
      <4>3. x \in Entries(call[t], call[t].update.add_targets)
        BY <3>1, <3>3, <4>1, <4>2 DEF Entries
      <4> QED BY <1>1, <4>3 DEF Covered
    <3> QED BY <3>1, <3>2, <3>3
  <2> QED BY <2>1, <2>2
<1> QED BY <1>7, <1>8 DEF AllCovered, Covered

LEMMA ReplyCovers ==
  ASSUME IndInv, AllCovered, NEW t \in Threads, Reply(t)
  PROVE  AllCovered'
<1>1. /\ UNCHANGED graphVars /\ told' = told /\ seen' = seen
      /\ t \in Busys /\ Busys' = Busys \ {t}
      /\ \A u \in Threads : u # t => call'[u] = call[u]
      /\ call[t].pc = "reply"
  BY ReplyStep DEF IndInv, TypeOK
<1>2. call[t].remaining = {}
  BY <1>1 DEF IndInv, Progress, GoesOn
<1>3. edges' = edges
  BY <1>1, GraphStays
<1>4. \A u \in Busys : u # t => u \in Busys' /\ call'[u] = call[u]
  BY <1>1 DEF Busys
<1> SUFFICES ASSUME NEW e \in edges PROVE Covered(e)'
  BY <1>3 DEF AllCovered
<1>5. CASE <<e.src_node, e.key.topic, e.dst_node>> \in told \cup seen
  BY <1>1, <1>5 DEF Covered
<1>6. ASSUME NEW u \in Busys, WillFind(call[u], e) PROVE Covered(e)'
  <2>1. u # t
    BY <1>1, <1>2, <1>6 DEF WillFind, WillNotify
  <2> QED BY <1>4, <1>6, <2>1 DEF Covered, WillFind, WillNotify
<1> QED BY <1>5, <1>6 DEF AllCovered, Covered

LEMMA IdleCovers ==
  ASSUME AllCovered, UNCHANGED vars
  PROVE  AllCovered'
BY DEF vars, graphVars, AllCovered, Covered, WillFind, WillNotify, Busys

(* However the handlers of a publisher and of a subscriber interleave, one *)
(* of them finds the other, as long as no topic is used under two message  *)
(* types at once.                                                          *)
THEOREM PairsFindOneAnother == Spec /\ []OneTypePerTopic => []EveryPairFound
<1>1. Init => AllCovered
  BY DEF Init, Graph!Init, AllCovered
<1>2. IndInv /\ IndInv' /\ OneTypePerTopic /\ AllCovered /\ [Next]_vars => AllCovered'
  BY RequestCovers, QueryCovers, LookupCovers, PostCovers, ReplyCovers, IdleCovers DEF Next
<1>3. AllCovered => EveryPairFound
  BY DEF AllCovered, Covered, WillFind, EveryPairFound, InFlight, Busys
<1> QED BY <1>1, <1>2, <1>3, InductiveInvariant, PTL DEF Spec

-----------------------------------------------------------------------------
(* No target outlives its subscription.                                    *)

(* Who has a target for a topic has a key of it, and a vertex. *)
LEMMA ToldKeys ==
  ASSUME IndInv, NEW x \in told \cup seen
  PROVE  /\ \E k \in Pub(x[1]) : k.topic = x[2]
         /\ x[1] \in DOMAIN nodes /\ nodes[x[1]].info.node_name = x[1]
<1>1. \E k \in Pub(x[1]) : k.topic = x[2]
  BY DEF IndInv, ToldPublish, Publishing, Pub
<1> QED BY <1>1, GraphJoins DEF IndInv

LEMMA RequestFreshens ==
  ASSUME IndInv, AllFresh, NEW t \in Threads, Request(t)
  PROVE  AllFresh'
<1>1. PICK op \in Ops, node \in NodeInfo, k \in TopicKey :
        Accept(t, op, node, k, FirstStep(op)) /\ Registers(op, node, k)
  BY RequestStep DEF IndInv
<1>2. /\ t \notin Busys /\ Busys' = Busys \cup {t}
      /\ \A u \in Threads : u # t => call'[u] = call[u]
      /\ call'[t].pc = FirstStep(op) /\ call'[t].op = op
      /\ call'[t].node = node /\ call'[t].key = k
  <2>1. FirstStep(op) \in {"query", "reply"}
    BY DEF FirstStep
  <2> QED BY <1>1, <2>1, AcceptStep DEF IndInv, TypeOK
<1>3. \A u \in Busys : u \in Busys' /\ call'[u] = call[u]
  BY <1>2 DEF Busys
<1>4. told' \subseteq told /\ seen' \subseteq seen
  BY <1>1 DEF Registers
<1> SUFFICES ASSUME NEW x \in told \cup seen PROVE Fresh(x)'
  BY <1>4 DEF AllFresh
<1>5. CASE x[2] \in Subscribing(x[3])
  <2>1. PICK j \in Sub(x[3]) : j.topic = x[2]
    BY <1>5 DEF Subscribing, Sub
  <2>2. CASE j \in Sub(x[3])'
    <3>1. x[2] \in Subscribing(x[3])'
      BY <2>1, <2>2 DEF Subscribing, Sub
    <3> QED BY <3>1 DEF Fresh
  <2>3. CASE j \notin Sub(x[3])'
    <3>1. op = "Unsubscribe" /\ x[3] = node.node_name /\ j = k
      BY <1>1, <2>1, <2>3 DEF Registers, OthersKept
    <3>2. t \in Busys' /\ WillDrop(call[t], x)'
      BY <1>2, <2>1, <3>1 DEF FirstStep, WillDrop, WillNotify
    <3> QED BY <3>2 DEF Fresh
  <2> QED BY <2>2, <2>3
<1>6. CASE x[3] = x[1]
  BY <1>6 DEF Fresh
<1>7. CASE \E u \in Busys : WillDrop(call[u], x)
  BY <1>3, <1>7 DEF Fresh, WillDrop, WillNotify
<1> QED BY <1>5, <1>6, <1>7 DEF AllFresh, Fresh

(* While the graph stays, a target can only become stale with its handler. *)
LEMMA FreshStays ==
  ASSUME UNCHANGED graphVars, NEW x, Fresh(x),
         \A u \in Busys : WillDrop(call[u], x) => Fresh(x)'
  PROVE  Fresh(x)'
BY GraphStays DEF Fresh

LEMMA QueryFreshens ==
  ASSUME IndInv, OneTypePerTopic, AllFresh, NEW t \in Threads, Query(t)
  PROVE  AllFresh'
<1>1. /\ UNCHANGED graphVars /\ told' = told /\ SameRequest(t)
  BY QueryStep DEF IndInv, TypeOK
<1>2. PICK found \in Lookup(call[t]) :
        /\ call'[t].remaining = Recipients(call[t], found)
        /\ seen' = IF call[t].op # "RegisterPublisher" THEN seen
                   ELSE {x \in seen : <<x[1], x[2]>> #
                           <<call[t].node.node_name, call[t].key.topic>>}
                        \cup {<<call[t].node.node_name, call[t].key.topic,
                                s.node_name>> : s \in found}
  BY QueryStep DEF IndInv, TypeOK
<1>3. /\ t \in Busys /\ Busys' = Busys
      /\ \A u \in Busys : u # t => call'[u] = call[u]
      /\ call'[t].op = call[t].op /\ call'[t].node = call[t].node
      /\ call'[t].key = call[t].key
  BY <1>1, OthersGoOn DEF SameRequest
<1>4. ASSUME NEW x \in told \cup seen, NEW u \in Busys, WillDrop(call[u], x) PROVE Fresh(x)'
  <2>1. CASE u # t
    BY <1>3, <1>4, <2>1 DEF Fresh, WillDrop, WillNotify
  <2>2. CASE u = t
    <3>1. /\ call[t].op = "Unsubscribe" /\ call[t].key.topic = x[2]
          /\ call[t].node.node_name = x[3]
      BY <1>4, <2>2 DEF WillDrop
    <3>2. PICK k \in Pub(x[1]) : k.topic = x[2]
      BY ToldKeys
    <3>3. found \in Graph!GetPublishersByTopic(k.topic)
      BY <3>1, <3>2 DEF Lookup
    <3>4. x[1] \in call'[t].remaining
      BY <1>2, <3>1, <3>3, FindsPublisher DEF IndInv, Recipients
    <3>5. WillDrop(call[t], x)'
      BY <1>3, <3>1, <3>4 DEF WillDrop, WillNotify
    <3> QED BY <1>3, <3>5 DEF Fresh
  <2> QED BY <2>1, <2>2
<1>5. \A x \in told \cup seen : Fresh(x)'
  BY <1>1, <1>4, FreshStays DEF AllFresh
(* What RegisterPublisher finds are subscribers. *)
<1>6. ASSUME NEW x \in seen', x \notin seen PROVE Fresh(x)'
  <2>1. PICK s \in found : x = <<call[t].node.node_name, call[t].key.topic, s.node_name>>
    BY <1>2, <1>6
  <2>2. x[2] = call[t].key.topic /\ x[3] = s.node_name
    BY <2>1
  <2>3. found \in Graph!GetSubscribersByTopic(call[t].key.topic)
    BY <1>2, <1>6 DEF Lookup
  <2>4. x[2] \in Subscribing(x[3])
    BY <2>2, <2>3, SubscribersFound DEF IndInv
  <2> QED BY <1>1, <2>4, GraphStays DEF Fresh
<1> QED BY <1>1, <1>5, <1>6 DEF AllFresh

LEMMA LookupFreshens ==
  ASSUME IndInv, AllFresh, NEW t \in Threads, SendUpdateLookup(t)
  PROVE  AllFresh'
<1>1. /\ UNCHANGED graphVars /\ told' = told /\ seen' = seen /\ SameRequest(t)
      /\ call[t].pc = "lookup" /\ call'[t].pc = "post"
  BY LookupStep DEF IndInv, TypeOK
<1>2. PICK name \in call[t].remaining :
        /\ call'[t].remaining = call[t].remaining \ {name}
        /\ call'[t].to = IF name \in DOMAIN nodes THEN nodes[name].info ELSE NoContact
  BY LookupStep DEF IndInv, TypeOK
<1>3. /\ t \in Busys /\ Busys' = Busys
      /\ \A u \in Busys : u # t => call'[u] = call[u]
      /\ call'[t].op = call[t].op /\ call'[t].node = call[t].node
      /\ call'[t].key = call[t].key
  BY <1>1, OthersGoOn DEF SameRequest
<1> SUFFICES ASSUME NEW x \in told \cup seen PROVE Fresh(x)'
  BY <1>1 DEF AllFresh
<1>4. ASSUME NEW u \in Busys, WillDrop(call[u], x) PROVE Fresh(x)'
  <2>1. CASE u # t
    BY <1>3, <1>4, <2>1 DEF Fresh, WillDrop, WillNotify
  <2>2. CASE u = t
    <3>1. /\ call[t].op = "Unsubscribe" /\ call[t].key.topic = x[2]
          /\ call[t].node.node_name = x[3] /\ x[1] \in call[t].remaining
      BY <1>1, <1>4, <2>2 DEF WillDrop, WillNotify
    <3>2. \/ x[1] \in call'[t].remaining
          \/ call'[t].to.node_name = x[1]
      BY <1>2, <3>1, ToldKeys
    <3>3. WillDrop(call[t], x)'
      BY <1>1, <1>3, <3>1, <3>2 DEF WillDrop, WillNotify
    <3> QED BY <1>3, <3>3 DEF Fresh
  <2> QED BY <2>1, <2>2
<1> QED BY <1>1, <1>4, FreshStays DEF AllFresh

(* What is added is a subscriber whose request still stands, or, by        *)
(* RegisterPublisher, the publisher itself.                                *)
LEMMA PostFreshens ==
  ASSUME IndInv, AllFresh, NEW t \in Threads, SendUpdatePost(t)
  PROVE  AllFresh'
<1>1. /\ UNCHANGED graphVars /\ SameRequest(t)
      /\ call[t] \in Busy /\ call[t].pc = "post"
      /\ call'[t].remaining = call[t].remaining
      /\ call'[t].pc = IF call[t].remaining = {} THEN "reply" ELSE "lookup"
      /\ told' = (told \ Entries(call[t], call[t].update.remove_targets))
                   \cup Entries(call[t], call[t].update.add_targets)
      /\ seen' = seen \ Entries(call[t], call[t].update.remove_targets)
  BY PostStep DEF IndInv, TypeOK
<1>2. /\ t \in Busys /\ Busys' = Busys
      /\ \A u \in Busys : u # t => call'[u] = call[u]
      /\ call'[t].op = call[t].op /\ call'[t].node = call[t].node
      /\ call'[t].key = call[t].key
  BY <1>1, OthersGoOn DEF SameRequest
<1>3. /\ WellMade(call[t]) /\ Stands(call[t]) /\ GoesOn(call[t])
      /\ call[t].op \in Ops /\ call[t].update \in Update
      /\ call[t].update.add_targets \in SUBSET NodeInfo
  BY <1>1, <1>2 DEF IndInv, Progress, GoesOn, Effective, Busy, Update
<1>4. ASSUME NEW x \in Entries(call[t], call[t].update.add_targets) PROVE Fresh(x)'
  <2>1. /\ x[1] = call[t].to.node_name /\ x[2] = call[t].key.topic
        /\ x[3] = call[t].node.node_name
    BY <1>3, <1>4, OneTargetTyped DEF IndInv, WellMade
  <2>2. CASE call[t].op = "Subscribe"
    <3>1. x[2] \in Subscribing(x[3])
      BY <1>3, <2>1, <2>2 DEF Stands, Subscribing, Sub
    <3> QED BY <1>1, <3>1, GraphStays DEF Fresh
  <2>3. CASE call[t].op = "RegisterPublisher"
    BY <1>1, <1>3, <2>1, <2>3 DEF GoesOn, Fresh
  <2>4. CASE call[t].op = "Unsubscribe"
    BY <1>3, <1>4, <2>4, OneTargetTyped DEF IndInv, WellMade
  <2> QED BY <1>3, <2>2, <2>3, <2>4 DEF WellMade, Ops
<1>5. ASSUME NEW x \in told \cup seen, x \notin Entries(call[t], call[t].update.remove_targets)
      PROVE  Fresh(x)'
  <2>1. ASSUME NEW u \in Busys, WillDrop(call[u], x) PROVE Fresh(x)'
    <3>1. CASE u # t
      BY <1>2, <2>1, <3>1 DEF Fresh, WillDrop, WillNotify
    <3>2. CASE u = t
      <4>1. /\ call[t].op = "Unsubscribe" /\ call[t].key.topic = x[2]
            /\ call[t].node.node_name = x[3]
            /\ x[1] \in call[t].remaining \/ call[t].to.node_name = x[1]
        BY <1>1, <2>1, <3>2 DEF WillDrop, WillNotify
      <4>2. call[t].to.node_name # x[1]
        <5> SUFFICES ASSUME call[t].to.node_name = x[1] PROVE FALSE
          OBVIOUS
        <5>1. /\ call[t].update.remove_targets = {call[t].node}
              /\ call[t].update.topic = x[2]
          BY <1>3, <4>1 DEF WellMade
        <5>2. x[2] \in Publishing(x[1])
          BY DEF IndInv, ToldPublish
        <5>3. x = <<x[1], x[2], x[3]>>
          BY DEF IndInv, TypeOK
        <5> QED BY <1>5, <4>1, <5>1, <5>2, <5>3 DEF Entries
      <4>3. WillDrop(call[t], x)'
        BY <1>1, <1>2, <4>1, <4>2 DEF WillDrop, WillNotify
      <4> QED BY <1>2, <4>3 DEF Fresh
    <3> QED BY <3>1, <3>2
  <2> QED BY <1>1, <2>1, FreshStays DEF AllFresh
<1> QED BY <1>1, <1>4, <1>5 DEF AllFresh

LEMMA ReplyFreshens ==
  ASSUME IndInv, AllFresh, NEW t \in Threads, Reply(t)
  PROVE  AllFresh'
<1>1. /\ UNCHANGED graphVars /\ told' = told /\ seen' = seen
      /\ t \in Busys /\ Busys' = Busys \ {t}
      /\ \A u \in Threads : u # t => call'[u] = call[u]
      /\ call[t].pc = "reply"
  BY ReplyStep DEF IndInv, TypeOK
<1>2. call[t].remaining = {}
  BY <1>1 DEF IndInv, Progress, GoesOn
<1>3. \A u \in Busys : u # t => u \in Busys' /\ call'[u] = call[u]
  BY <1>1 DEF Busys
<1> SUFFICES ASSUME NEW x \in told \cup seen PROVE Fresh(x)'
  BY <1>1 DEF AllFresh
<1>4. ASSUME NEW u \in Busys, WillDrop(call[u], x) PROVE Fresh(x)'
  <2>1. u # t
    BY <1>1, <1>2, <1>4 DEF WillDrop, WillNotify
  <2> QED BY <1>3, <1>4, <2>1 DEF Fresh, WillDrop, WillNotify
<1> QED BY <1>1, <1>4, FreshStays DEF AllFresh

LEMMA IdleFreshens ==
  ASSUME AllFresh, UNCHANGED vars
  PROVE  AllFresh'
BY DEF vars, graphVars, AllFresh, Fresh, WillDrop, WillNotify, Busys, Subscribing,
       Graph!SubscribesOf

(* No publisher keeps a target that has unsubscribed, once the Unsubscribe *)
(* has returned, as long as no topic is used under two message types at    *)
(* once.                                                                   *)
THEOREM TargetsStayFresh == Spec /\ []OneTypePerTopic => []NoStaleTarget
<1>1. Init => AllFresh
  BY DEF Init, AllFresh
<1>2. IndInv /\ OneTypePerTopic /\ AllFresh /\ [Next]_vars => AllFresh'
  BY RequestFreshens, QueryFreshens, LookupFreshens, PostFreshens, ReplyFreshens,
     IdleFreshens DEF Next
<1>3. AllFresh => NoStaleTarget
  BY DEF AllFresh, Fresh, WillDrop, NoStaleTarget, Busys
<1> QED BY <1>1, <1>2, <1>3, InductiveInvariant, PTL DEF Spec

(* When no handler runs, whom a publisher was told of is there: under one  *)
(* type per topic a topic's publisher and its subscriber share a key, and  *)
(* so an edge.                                                             *)
LEMMA ToldAtRestIsFlow ==
  ASSUME IndInv, OneTypePerTopic, NoStaleTarget,
         \A t \in Threads : call[t] = Idle,
         NEW x \in told, x[1] # x[3]
  PROVE  x \in {<<e.src_node, e.key.topic, e.dst_node>> : e \in edges}
<1>1. x \in Names \X Topics \X Names
  BY DEF IndInv, TypeOK
<1>2. PICK p \in Names, topic \in Topics, s \in Names : x = <<p, topic, s>>
  BY <1>1
<1>3. topic \in Subscribing(s)
  BY <1>2 DEF NoStaleTarget
<1>4. topic \in Publishing(p)
  BY <1>2 DEF IndInv, ToldPublish
<1>5. PICK k \in Pub(p), j \in Sub(s) : k.topic = topic /\ j.topic = topic
  BY <1>3, <1>4 DEF Publishing, Subscribing, Pub, Sub
<1>6. k \in TopicKey /\ k \in KeysInUse /\ j \in KeysInUse
  BY GraphJoins DEF IndInv, KeysInUse
<1>7. j = k
  BY <1>5, <1>6 DEF OneTypePerTopic
<1> DEFINE e == [src_node |-> p, dst_node |-> s, key |-> k]
<1>8. e \in Graph!Edge
  BY <1>6 DEF Graph!Edge, TopicKey
<1>9. e.src_node = p /\ e.dst_node = s /\ e.key = k
  OBVIOUS
<1> HIDE DEF e
<1>10. e \in edges
  BY <1>5, <1>7, <1>8, <1>9, GraphJoins DEF IndInv
<1> QED BY <1>2, <1>5, <1>9, <1>10

(* When the master is at rest its publishers have been told of no one they *)
(* are not to send to, and whom they were not told of their own            *)
(* RegisterPublisher had found, whatever handlers ran at once before, as   *)
(* long as no topic is used under two message types at once                *)
(* (ros_rpc_server.cpp:39-59).                                             *)
THEOREM QuietToldIsExact == Spec /\ []OneTypePerTopic => []QuietToldAreFlows
<1>1. IndInv /\ OneTypePerTopic /\ EveryPairFound /\ NoStaleTarget => QuietToldAreFlows
  <2> SUFFICES ASSUME IndInv, OneTypePerTopic, EveryPairFound, NoStaleTarget,
                      \A t \in Threads : call[t] = Idle
               PROVE  LET flows == {<<e.src_node, e.key.topic, e.dst_node>> : e \in edges}
                      IN  /\ {x \in told : x[1] # x[3]} \subseteq flows
                          /\ flows \ told \subseteq seen
    BY DEF QuietToldAreFlows
  <2>1. \A x \in told : x[1] # x[3] =>
          x \in {<<e.src_node, e.key.topic, e.dst_node>> : e \in edges}
    BY ToldAtRestIsFlow
  <2>2. \A e \in edges : <<e.src_node, e.key.topic, e.dst_node>> \in told \cup seen
    BY DEF EveryPairFound, InFlight
  <2> QED BY <2>1, <2>2
<1> QED BY <1>1, InductiveInvariant, PairsFindOneAnother, TargetsStayFresh, PTL

(* So it is in a system whose topics all have the one message type.        *)
THEOREM OneMessageType ==
  ASSUME \A m, n \in Types : m = n
  PROVE  Spec => [](EveryPairFound /\ NoStaleTarget /\ QuietToldAreFlows)
<1>1. \A j, k \in TopicKey : j.topic = k.topic => j = k
  BY DEF TopicKey, Graph!TopicKey
<1>2. IndInv => OneTypePerTopic
  <2> SUFFICES ASSUME IndInv PROVE KeysInUse \subseteq TopicKey
    BY <1>1 DEF OneTypePerTopic
  <2>1. \A t \in Busys : call[t].key \in TopicKey
    BY DEF IndInv, TypeOK, Busys, Busy
  <2> QED BY <2>1, GraphJoins DEF IndInv, KeysInUse
<1> QED BY <1>2, InductiveInvariant, PairsFindOneAnother, TargetsStayFresh,
           QuietToldIsExact, PTL
=============================================================================
