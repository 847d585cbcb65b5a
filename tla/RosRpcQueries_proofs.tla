------------------------ MODULE RosRpcQueries_proofs ------------------------
(***************************************************************************)
(* Proofs about the queries, for every set of nodes, topics and message    *)
(* types, any number of queries at once and of changes while they run: an  *)
(* answer lists only what was so while the query ran, and misses nothing   *)
(* that one node held all the time.                                        *)
(***************************************************************************)
EXTENDS RosRpcQueries, TLAPS

GraphProofs == INSTANCE MessageGraph_proofs

Pub(name) == Graph!PublishesOf(name)
Sub(name) == Graph!SubscribesOf(name)

GraphInv == /\ Graph!TypeOK
            /\ Graph!IndexesAgree
            /\ Graph!EdgesExact
            /\ Graph!NothingLeftBehind

-----------------------------------------------------------------------------
(* The graph's theorems, for the graph of this service.                    *)

LEMMA SameSets ==
  /\ Graph!NodeInfo = GraphProofs!NodeInfo
  /\ TopicKey = GraphProofs!TopicKey
BY DEF TopicKey, Graph!NodeInfo, Graph!TopicKey,
       GraphProofs!NodeInfo, GraphProofs!TopicKey

LEMMA SameRoles ==
  /\ \A n : Pub(n) = GraphProofs!PublishesOf(n)
  /\ \A n : Sub(n) = GraphProofs!SubscribesOf(n)
  /\ \A n : Pub(n)' = GraphProofs!PublishesOf(n)'
  /\ \A n : Sub(n)' = GraphProofs!SubscribesOf(n)'
BY DEF Pub, Sub, Graph!PublishesOf, Graph!SubscribesOf,
       GraphProofs!PublishesOf, GraphProofs!SubscribesOf

LEMMA SameInvariant ==
  /\ GraphInv <=> GraphProofs!IndInv
  /\ GraphInv' <=> GraphProofs!IndInv'
<1> USE DEF Graph!IsMap, GraphProofs!IsMap,
            Graph!Bucket, GraphProofs!Bucket, Graph!TopicKey, GraphProofs!TopicKey
<1>1. /\ Graph!TypeOK <=> GraphProofs!TypeOK
      /\ Graph!TypeOK' <=> GraphProofs!TypeOK'
  BY DEF Graph!TypeOK, GraphProofs!TypeOK, Graph!NodeVertex, GraphProofs!NodeVertex,
         Graph!NodeInfo, GraphProofs!NodeInfo, Graph!Edge, GraphProofs!Edge
<1>2. /\ Graph!EdgesExact <=> GraphProofs!EdgesExact
      /\ Graph!EdgesExact' <=> GraphProofs!EdgesExact'
  BY DEF Graph!EdgesExact, GraphProofs!EdgesExact, Graph!Edge, GraphProofs!Edge
<1>3. /\ Graph!IndexesAgree <=> GraphProofs!IndexesAgree
      /\ Graph!IndexesAgree' <=> GraphProofs!IndexesAgree'
  BY DEF Graph!IndexesAgree, GraphProofs!IndexesAgree, Graph!PublishesOf,
         GraphProofs!PublishesOf, Graph!SubscribesOf, GraphProofs!SubscribesOf
<1>4. /\ Graph!NothingLeftBehind <=> GraphProofs!NothingLeftBehind
      /\ Graph!NothingLeftBehind' <=> GraphProofs!NothingLeftBehind'
  BY DEF Graph!NothingLeftBehind, GraphProofs!NothingLeftBehind, Graph!PublishesOf,
         GraphProofs!PublishesOf, Graph!SubscribesOf, GraphProofs!SubscribesOf
<1> QED BY <1>1, <1>2, <1>3, <1>4 DEF GraphInv, GraphProofs!IndInv

LEMMA SameOperations ==
  ASSUME NEW node, NEW k
  PROVE  /\ Graph!AddPublisher(node, k) <=> GraphProofs!AddPublisher(node, k)
         /\ Graph!AddSubscriber(node, k) <=> GraphProofs!AddSubscriber(node, k)
         /\ Graph!RemovePublisher(node, k) <=> GraphProofs!RemovePublisher(node, k)
         /\ Graph!RemoveSubscriber(node, k) <=> GraphProofs!RemoveSubscriber(node, k)
<1> USE DEF Graph!Bucket, GraphProofs!Bucket
<1>1. Graph!AddPublisher(node, k) <=> GraphProofs!AddPublisher(node, k)
  BY DEF Graph!AddPublisher, GraphProofs!AddPublisher, Graph!Put, GraphProofs!Put,
         Graph!InsertIn, GraphProofs!InsertIn, Graph!UpsertNode, GraphProofs!UpsertNode,
         Graph!PublishesOf, GraphProofs!PublishesOf,
         Graph!SubscribesOf, GraphProofs!SubscribesOf,
         Graph!ConnectPublisherToSubscribers, GraphProofs!ConnectPublisherToSubscribers
<1>2. Graph!AddSubscriber(node, k) <=> GraphProofs!AddSubscriber(node, k)
  BY DEF Graph!AddSubscriber, GraphProofs!AddSubscriber, Graph!Put, GraphProofs!Put,
         Graph!InsertIn, GraphProofs!InsertIn, Graph!UpsertNode, GraphProofs!UpsertNode,
         Graph!PublishesOf, GraphProofs!PublishesOf,
         Graph!SubscribesOf, GraphProofs!SubscribesOf,
         Graph!ConnectPublishersToSubscriber, GraphProofs!ConnectPublishersToSubscriber
<1> USE DEF Graph!Restrict, GraphProofs!Restrict,
            Graph!EraseFrom, GraphProofs!EraseFrom,
            Graph!RemoveEdgesBy, GraphProofs!RemoveEdgesBy,
            Graph!CleanupIsolatedNodeIfAny, GraphProofs!CleanupIsolatedNodeIfAny
<1>3. Graph!RemovePublisher(node, k) <=> GraphProofs!RemovePublisher(node, k)
  BY DEF Graph!RemovePublisher, GraphProofs!RemovePublisher
<1>4. Graph!RemoveSubscriber(node, k) <=> GraphProofs!RemoveSubscriber(node, k)
  BY DEF Graph!RemoveSubscriber, GraphProofs!RemoveSubscriber
<1> QED BY <1>1, <1>2, <1>3, <1>4

(* Any registration or withdrawal keeps the graph in order.                *)
LEMMA GraphChanges ==
  ASSUME GraphInv, Graph!Next
  PROVE  GraphInv'
<1>1. GraphProofs!Next
  BY SameSets, SameOperations DEF Graph!Next, GraphProofs!Next, TopicKey
<1> QED BY <1>1, SameInvariant, GraphProofs!StepInductive

LEMMA GraphStarts == Graph!Init => GraphInv
<1>1. Graph!Init => GraphProofs!Init
  BY DEF Graph!Init, GraphProofs!Init, Graph!EmptyMap, GraphProofs!EmptyMap
<1> QED BY <1>1, SameInvariant, GraphProofs!InitInductive

(* What the reads of the graph return: contacts carry the names of their   *)
(* nodes, and indexes and vertices name the same nodes.                    *)
LEMMA GraphReads ==
  ASSUME GraphInv
  PROVE  /\ \A n : Pub(n) \cup Sub(n) # {} => n \in DOMAIN nodes
         /\ \A n : Pub(n) \cup Sub(n) \subseteq TopicKey
         /\ \A n \in DOMAIN nodes : /\ n \in Names /\ nodes[n].info \in Graph!NodeInfo
                                    /\ nodes[n].info.node_name = n
         /\ \A n, k : k \in Pub(n) =>
              k \in DOMAIN publishers_by_topic /\ n \in publishers_by_topic[k]
         /\ \A n, k : k \in Sub(n) =>
              k \in DOMAIN subscribers_by_topic /\ n \in subscribers_by_topic[k]
         /\ \A k \in DOMAIN publishers_by_topic :
              /\ k \in TopicKey /\ \A n \in publishers_by_topic[k] : k \in Pub(n)
              /\ publishers_by_topic[k] # {}
         /\ \A k \in DOMAIN subscribers_by_topic :
              /\ k \in TopicKey /\ \A n \in subscribers_by_topic[k] : k \in Sub(n)
              /\ subscribers_by_topic[k] # {}
<1>1. \A n \in DOMAIN nodes : /\ n \in Names /\ nodes[n].info \in Graph!NodeInfo
                              /\ nodes[n].info.node_name = n
                              /\ nodes[n].publishes \subseteq TopicKey
                              /\ nodes[n].subscribes \subseteq TopicKey
  BY DEF GraphInv, Graph!TypeOK, Graph!IsMap, Graph!NodeVertex, TopicKey
<1>2. \A n : /\ Pub(n) \cup Sub(n) # {} => n \in DOMAIN nodes
             /\ Pub(n) \cup Sub(n) \subseteq TopicKey
  BY <1>1 DEF Pub, Sub, Graph!PublishesOf, Graph!SubscribesOf
<1>3. \A n \in Names, k \in TopicKey :
        /\ n \in Graph!Bucket(publishers_by_topic, k) <=> k \in Pub(n)
        /\ n \in Graph!Bucket(subscribers_by_topic, k) <=> k \in Sub(n)
  BY DEF GraphInv, Graph!IndexesAgree, TopicKey, Pub, Sub
<1>4. \A n, k : k \in Pub(n) =>
        k \in DOMAIN publishers_by_topic /\ n \in publishers_by_topic[k]
  BY <1>1, <1>2, <1>3 DEF Graph!Bucket
<1>5. \A n, k : k \in Sub(n) =>
        k \in DOMAIN subscribers_by_topic /\ n \in subscribers_by_topic[k]
  BY <1>1, <1>2, <1>3 DEF Graph!Bucket
<1>6. /\ \A k \in DOMAIN publishers_by_topic :
           k \in TopicKey /\ publishers_by_topic[k] \subseteq Names
      /\ \A k \in DOMAIN subscribers_by_topic :
           k \in TopicKey /\ subscribers_by_topic[k] \subseteq Names
  BY DEF GraphInv, Graph!TypeOK, Graph!IsMap, TopicKey
<1>7. /\ \A k \in DOMAIN publishers_by_topic : \A n \in publishers_by_topic[k] : k \in Pub(n)
      /\ \A k \in DOMAIN subscribers_by_topic : \A n \in subscribers_by_topic[k] : k \in Sub(n)
  BY <1>3, <1>6 DEF Graph!Bucket
<1>8. /\ \A k \in DOMAIN publishers_by_topic : publishers_by_topic[k] # {}
      /\ \A k \in DOMAIN subscribers_by_topic : subscribers_by_topic[k] # {}
  BY DEF GraphInv, Graph!NothingLeftBehind
<1> QED BY <1>1, <1>2, <1>4, <1>5, <1>6, <1>7, <1>8

(* A lookup by topic name returns nodes that have the topic, and all those *)
(* that have it under some key in use.                                     *)
LEMMA LookupFinds ==
  ASSUME GraphInv, NEW topic
  PROVE  /\ \A infos \in Graph!GetPublishersByTopic(topic) :
              /\ infos \subseteq Graph!NodeInfo
              /\ \A i \in infos : \E k \in TopicKey :
                   k.topic = topic /\ k \in Pub(i.node_name)
              /\ \A n, k : k \in Pub(n) /\ k.topic = topic =>
                   \E m, l : /\ l \in Pub(m) /\ l.topic = topic
                             /\ l = k => \E i \in infos : i.node_name = n
         /\ \A infos \in Graph!GetSubscribersByTopic(topic) :
              /\ infos \subseteq Graph!NodeInfo
              /\ \A i \in infos : \E k \in TopicKey :
                   k.topic = topic /\ k \in Sub(i.node_name)
              /\ \A n, k : k \in Sub(n) /\ k.topic = topic =>
                   \E m, l : /\ l \in Sub(m) /\ l.topic = topic
                             /\ l = k => \E i \in infos : i.node_name = n
<1>1. ASSUME NEW infos \in Graph!GetPublishersByTopic(topic)
      PROVE  \/ infos = {} /\ \A k \in DOMAIN publishers_by_topic : k.topic # topic
             \/ \E k \in DOMAIN publishers_by_topic :
                  /\ k.topic = topic
                  /\ infos = {nodes[n].info : n \in publishers_by_topic[k] \cap DOMAIN nodes}
  BY DEF Graph!GetPublishersByTopic, Graph!ByTopic
<1>2. ASSUME NEW infos \in Graph!GetSubscribersByTopic(topic)
      PROVE  \/ infos = {} /\ \A k \in DOMAIN subscribers_by_topic : k.topic # topic
             \/ \E k \in DOMAIN subscribers_by_topic :
                  /\ k.topic = topic
                  /\ infos = {nodes[n].info : n \in subscribers_by_topic[k] \cap DOMAIN nodes}
  BY DEF Graph!GetSubscribersByTopic, Graph!ByTopic
<1>3. ASSUME NEW infos \in Graph!GetPublishersByTopic(topic)
      PROVE  /\ infos \subseteq Graph!NodeInfo
             /\ \A i \in infos : \E k \in TopicKey :
                  k.topic = topic /\ k \in Pub(i.node_name)
             /\ \A n, k : k \in Pub(n) /\ k.topic = topic =>
                  \E m, l : /\ l \in Pub(m) /\ l.topic = topic
                            /\ l = k => \E i \in infos : i.node_name = n
  <2>1. CASE infos = {} /\ \A k \in DOMAIN publishers_by_topic : k.topic # topic
    BY <2>1, GraphReads
  <2>2. ASSUME NEW l \in DOMAIN publishers_by_topic, l.topic = topic,
               infos = {nodes[n].info : n \in publishers_by_topic[l] \cap DOMAIN nodes}
        PROVE  /\ infos \subseteq Graph!NodeInfo
               /\ \A i \in infos : l \in TopicKey /\ l \in Pub(i.node_name)
               /\ \E m : l \in Pub(m)
               /\ \A n : l \in Pub(n) => \E i \in infos : i.node_name = n
    <3>1. infos \subseteq Graph!NodeInfo /\ \A i \in infos : l \in TopicKey /\ l \in Pub(i.node_name)
      BY <2>2, GraphReads
    <3>2. \E m : l \in Pub(m)
      BY <2>2, GraphReads
    <3>3. ASSUME NEW n, l \in Pub(n) PROVE \E i \in infos : i.node_name = n
      <4>1. n \in publishers_by_topic[l] \cap DOMAIN nodes /\ nodes[n].info.node_name = n
        BY <3>3, GraphReads
      <4> QED BY <2>2, <4>1
    <3> QED BY <3>1, <3>2, <3>3
  <2> QED BY <1>1, <2>1, <2>2
<1>4. ASSUME NEW infos \in Graph!GetSubscribersByTopic(topic)
      PROVE  /\ infos \subseteq Graph!NodeInfo
             /\ \A i \in infos : \E k \in TopicKey :
                  k.topic = topic /\ k \in Sub(i.node_name)
             /\ \A n, k : k \in Sub(n) /\ k.topic = topic =>
                  \E m, l : /\ l \in Sub(m) /\ l.topic = topic
                            /\ l = k => \E i \in infos : i.node_name = n
  <2>1. CASE infos = {} /\ \A k \in DOMAIN subscribers_by_topic : k.topic # topic
    BY <2>1, GraphReads
  <2>2. ASSUME NEW l \in DOMAIN subscribers_by_topic, l.topic = topic,
               infos = {nodes[n].info : n \in subscribers_by_topic[l] \cap DOMAIN nodes}
        PROVE  /\ infos \subseteq Graph!NodeInfo
               /\ \A i \in infos : l \in TopicKey /\ l \in Sub(i.node_name)
               /\ \E m : l \in Sub(m)
               /\ \A n : l \in Sub(n) => \E i \in infos : i.node_name = n
    <3>1. infos \subseteq Graph!NodeInfo /\ \A i \in infos : l \in TopicKey /\ l \in Sub(i.node_name)
      BY <2>2, GraphReads
    <3>2. \E m : l \in Sub(m)
      BY <2>2, GraphReads
    <3>3. ASSUME NEW n, l \in Sub(n) PROVE \E i \in infos : i.node_name = n
      <4>1. n \in subscribers_by_topic[l] \cap DOMAIN nodes /\ nodes[n].info.node_name = n
        BY <3>3, GraphReads
      <4> QED BY <2>2, <4>1
    <3> QED BY <3>1, <3>2, <3>3
  <2> QED BY <1>2, <2>1, <2>2
<1> QED BY <1>3, <1>4

(* The list of all nodes has every node, once.                             *)
LEMMA AllNodesListed ==
  ASSUME GraphInv
  PROVE  /\ Graph!GetAllNodes \subseteq Graph!NodeInfo
         /\ {i.node_name : i \in Graph!GetAllNodes} = DOMAIN nodes
         /\ DOMAIN nodes \subseteq Names
         /\ Graph!GetAllNodes = {} => DOMAIN nodes = {}
<1>1. /\ Graph!GetAllNodes \subseteq Graph!NodeInfo
      /\ DOMAIN nodes \subseteq Names
      /\ \A i \in Graph!GetAllNodes : i.node_name \in DOMAIN nodes
  BY GraphReads DEF Graph!GetAllNodes
<1>2. ASSUME NEW n \in DOMAIN nodes
      PROVE  n \in {i.node_name : i \in Graph!GetAllNodes} /\ Graph!GetAllNodes # {}
  <2>1. nodes[n].info \in Graph!GetAllNodes
    BY DEF Graph!GetAllNodes
  <2>2. nodes[n].info.node_name = n
    BY GraphReads
  <2> QED BY <2>1, <2>2
<1> QED BY <1>1, <1>2

-----------------------------------------------------------------------------
(* The inductive invariant.                                                *)

As(name, role, k) == [name |-> name, role |-> role, key |-> k]

Busys == {t \in Threads : query[t] # Idle}

(* While a query runs, what has been held all the time is held, and what   *)
(* is held has been held at some time.                                     *)
Window == \A t \in Busys : /\ during[t].always \subseteq Held
                           /\ Held \subseteq during[t].some

(* What a query has collected was held at some time while it ran, by the   *)
(* node it is collected for.                                               *)
Honest(q, some) ==
  /\ q.op = "GetNodeInfo" =>
       /\ \A k \in q.publishes : As(q.name, "publishes", k) \in some
       /\ \A k \in q.subscribes : As(q.name, "subscribes", k) \in some
  /\ \A k \in q.topics : \E r \in some : r.key = k
  /\ \A i \in q.publishers : \E k \in TopicKey :
       k.topic = q.topic /\ As(i.node_name, "publishes", k) \in some
  /\ \A i \in q.subscribers : \E k \in TopicKey :
       k.topic = q.topic /\ As(i.node_name, "subscribes", k) \in some

(* What one node held all the time is not missed by the reads of           *)
(* GetNodeInfo that were made.                                             *)
NodeFound(q, always) ==
  \A r \in always : r.name = q.name =>
    /\ q.success
    /\ q.pc \in {"PublishKeys", "SubscribeKeys", "reply"} => q.node_info # {}
    /\ q.pc \in {"SubscribeKeys", "reply"} /\ r.role = "publishes" => r.key \in q.publishes
    /\ q.pc = "reply" /\ r.role = "subscribes" => r.key \in q.subscribes

(* The loops over the nodes have the node ahead of them, or have just read *)
(* what it publishes.                                                      *)
Ahead(q, r) ==
  \/ q.pc = "AllNodes"
  \/ q.pc = "PublishKeys" /\ r.name \in q.toVisit
  \/ /\ q.pc = "SubscribeKeys" /\ r.name \in q.toVisit
     /\ r.name = q.name => r.role = "subscribes"

(* A topic of a node that is not ahead of GetTopics is listed.             *)
TopicListed(q, always) ==
  \A r \in always : Ahead(q, r) \/ \E k \in q.topics : k.topic = r.key.topic

(* Until GetTopicInfo has found its topic, whoever has it is ahead; once   *)
(* it has, the first read of the publishers finds those who publish it all *)
(* the time, and then that of the subscribers, under one message type.     *)
OneType(q, some) ==
  \A r, s \in some : r.key.topic = q.topic /\ s.key.topic = q.topic
                     => r.key.msg_type = s.key.msg_type

TopicFound(q, some, always) ==
  \A r \in always : r.key.topic = q.topic =>
    /\ q.pc \in {"AllNodes", "PublishKeys", "SubscribeKeys"} => Ahead(q, r)
    /\ q.success
    /\ OneType(q, some) /\ q.pc \in {"Subscribers", "reply"} /\ r.role = "publishes" =>
         \E i \in q.publishers : i.node_name = r.name
    /\ OneType(q, some) /\ q.pc = "reply" /\ r.role = "subscribes" =>
         \E i \in q.subscribers : i.node_name = r.name

Thorough(q, some, always) ==
  /\ q.op = "GetNodeInfo" => NodeFound(q, always)
  /\ q.op = "GetTopics" => TopicListed(q, always)
  /\ q.op = "GetTopicInfo" => TopicFound(q, some, always)

Reads == \A t \in Busys : /\ Honest(query[t], during[t].some)
                          /\ Thorough(query[t], during[t].some, during[t].always)

IndInv == GraphInv /\ TypeOK /\ Window /\ Reads

-----------------------------------------------------------------------------
(* What is held.                                                           *)

LEMMA HeldRoles ==
  ASSUME GraphInv
  PROVE  /\ Held \subseteq Roles
         /\ \A r \in Held : /\ r.name \in DOMAIN nodes
                            /\ r.role = "publishes" => r.key \in Pub(r.name)
                            /\ r.role = "subscribes" => r.key \in Sub(r.name)
         /\ \A n : \A k \in Pub(n) : As(n, "publishes", k) \in Held
         /\ \A n : \A k \in Sub(n) : As(n, "subscribes", k) \in Held
<1>1. \A r \in Held : /\ r \in Roles
                      /\ r.role = "publishes" => r.key \in Pub(r.name)
                      /\ r.role = "subscribes" => r.key \in Sub(r.name)
  BY DEF Held, Roles, Pub, Sub
<1>2. \A r \in Held : r.name \in DOMAIN nodes
  BY <1>1, GraphReads DEF Roles
<1>3. ASSUME NEW n, NEW k \in Pub(n) PROVE As(n, "publishes", k) \in Held
  <2>1. n \in Names /\ k \in TopicKey
    BY GraphReads
  <2> QED BY <2>1 DEF Held, Roles, As, Pub
<1>4. ASSUME NEW n, NEW k \in Sub(n) PROVE As(n, "subscribes", k) \in Held
  <2>1. n \in Names /\ k \in TopicKey
    BY GraphReads
  <2> QED BY <2>1 DEF Held, Roles, As, Sub
<1> QED BY <1>1, <1>2, <1>3, <1>4

(* A role is the record of its parts. *)
LEMMA RoleParts ==
  /\ \A r \in Roles : /\ r.name \in Names /\ r.key \in TopicKey
                      /\ r.role \in {"publishes", "subscribes"}
                      /\ r = As(r.name, r.role, r.key)
  /\ \A n, role, k : /\ As(n, role, k).name = n /\ As(n, role, k).role = role
                     /\ As(n, role, k).key = k
  /\ \A k, l \in TopicKey : k.topic = l.topic /\ k.msg_type = l.msg_type => k = l
  /\ \A k \in TopicKey : k.topic \in Topics
BY DEF Roles, As, TopicKey, Graph!TopicKey

(* What the graph's state determines stays when it does. *)
LEMMA GraphStays ==
  ASSUME UNCHANGED graphVars
  PROVE  /\ GraphInv' <=> GraphInv
         /\ Graph!TypeOK' <=> Graph!TypeOK
         /\ Held' = Held
BY DEF graphVars, GraphInv, Graph!TypeOK, Graph!IndexesAgree, Graph!EdgesExact,
       Graph!NothingLeftBehind, Graph!PublishesOf, Graph!SubscribesOf, Graph!IsMap,
       Graph!Bucket, Held

-----------------------------------------------------------------------------
(* The steps.                                                              *)

LEMMA BusyOrIdle ==
  /\ Idle \notin Busy
  /\ Idle.pc = "idle"
BY DEF Idle, Busy

(* As a query goes on more roles have been held at some time, and fewer    *)
(* all the time: what was collected remains honest and thorough.           *)
LEMMA LongerWindow ==
  ASSUME NEW q, NEW some1, NEW some2, NEW always1, NEW always2,
         some1 \subseteq some2, always2 \subseteq always1
  PROVE  /\ Honest(q, some1) => Honest(q, some2)
         /\ Thorough(q, some1, always1) => Thorough(q, some2, always2)
<1>1. Honest(q, some1) => Honest(q, some2)
  BY DEF Honest
<1>2. OneType(q, some2) => OneType(q, some1)
  BY DEF OneType
<1>3. NodeFound(q, always1) => NodeFound(q, always2)
  BY DEF NodeFound
<1>4. TopicListed(q, always1) => TopicListed(q, always2)
  BY DEF TopicListed
<1>5. TopicFound(q, some1, always1) => TopicFound(q, some2, always2)
  BY <1>2 DEF TopicFound
<1> QED BY <1>1, <1>3, <1>4, <1>5 DEF Thorough

(* A registration or a withdrawal during queries.                          *)
LEMMA ChangePreserves ==
  ASSUME IndInv, Change
  PROVE  IndInv'
<1>1. GraphInv' /\ Graph!TypeOK'
  BY GraphChanges DEF IndInv, Change, GraphInv
<1>2. query' = query /\ mtx_' = mtx_ /\ Busys' = Busys
  BY DEF Change, Busys
<1>3. Held \subseteq Roles /\ Held' \subseteq Roles
  BY DEF Held
<1>4. \A t \in Threads :
        during'[t] = IF query[t] = Idle THEN during[t]
                     ELSE [some   |-> during[t].some \cup Held',
                           always |-> during[t].always \cap Held']
  BY DEF Change
<1>5. during' \in [Threads -> [some : SUBSET Roles, always : SUBSET Roles]]
  <2>1. \A t \in Threads : during[t] \in [some : SUBSET Roles, always : SUBSET Roles]
    BY DEF IndInv, TypeOK
  <2> QED BY <1>3, <2>1 DEF Change
<1>6. churn' \in 0..MaxChurn
  BY ChurnAssumption DEF IndInv, TypeOK, Change, ChurnAssumption
<1>7. TypeOK'
  BY <1>1, <1>2, <1>5, <1>6 DEF IndInv, TypeOK
<1>8. \A t \in Busys : /\ during'[t].some = during[t].some \cup Held'
                       /\ during'[t].always = during[t].always \cap Held'
  <2> SUFFICES ASSUME NEW t \in Busys
               PROVE  /\ during'[t].some = during[t].some \cup Held'
                      /\ during'[t].always = during[t].always \cap Held'
    OBVIOUS
  <2>1. during'[t] = [some   |-> during[t].some \cup Held',
                      always |-> during[t].always \cap Held']
    BY <1>4 DEF Busys
  <2> QED BY <2>1
<1>9. Window'
  BY <1>2, <1>8 DEF Window
<1>10. ASSUME NEW t \in Busys
       PROVE  /\ Honest(query[t], during'[t].some)
              /\ Thorough(query[t], during'[t].some, during'[t].always)
  <2>1. /\ Honest(query[t], during[t].some)
        /\ Thorough(query[t], during[t].some, during[t].always)
    BY DEF IndInv, Reads
  <2>2. during[t].some \subseteq during'[t].some /\ during'[t].always \subseteq during[t].always
    BY <1>8
  <2> QED BY <2>1, <2>2, LongerWindow
<1>11. Reads'
  BY <1>2, <1>10 DEF Reads
<1> QED BY <1>1, <1>7, <1>9, <1>11 DEF IndInv

(* A step of one query disturbs no other, and keeps what its own response  *)
(* must be.                                                                *)
LEMMA ContinuesPreserves ==
  ASSUME IndInv, NEW t \in Threads, query[t] # Idle,
         NEW new \in Busy, new.op = query[t].op,
         Continues(t, new), UNCHANGED mtx_,
         Honest(new, during[t].some),
         Thorough(new, during[t].some, during[t].always)
  PROVE  IndInv'
<1>1. /\ UNCHANGED graphVars /\ during' = during /\ churn' = churn /\ mtx_' = mtx_
      /\ query \in [Threads -> Busy \cup {Idle}]
      /\ query' = [query EXCEPT ![t] = new]
  BY DEF Continues, IndInv, TypeOK
<1>2. /\ query' \in [Threads -> Busy \cup {Idle}]
      /\ query'[t] = new /\ new # Idle
      /\ \A u \in Threads \ {t} : query'[u] = query[u]
  BY <1>1, BusyOrIdle
<1>3. Busys' = Busys
  BY <1>2 DEF Busys
<1>4. TypeOK'
  <2>1. \A u \in Threads :
          (query'[u] # Idle /\ query'[u].op \in {"GetTopics", "GetTopicInfo"})
          <=> (query[u] # Idle /\ query[u].op \in {"GetTopics", "GetTopicInfo"})
    BY <1>2
  <2> QED BY <1>1, <1>2, <2>1, GraphStays DEF IndInv, TypeOK
<1>5. GraphInv' /\ Window'
  BY <1>1, <1>3, GraphStays DEF IndInv, Window
<1>6. \A u \in Busys : /\ Honest(query'[u], during[u].some)
                       /\ Thorough(query'[u], during[u].some, during[u].always)
  BY <1>2 DEF IndInv, Reads, Busys
<1>7. Reads'
  BY <1>1, <1>3, <1>6 DEF Reads
<1> QED BY <1>4, <1>5, <1>7 DEF IndInv

(* A query begins with nothing collected.                                  *)
LEMMA BeginPreserves ==
  ASSUME IndInv, NEW t \in Threads, NEW name \in Names, NEW topic \in Topics,
         NEW op \in {"GetNodes", "GetNodeInfo", "GetTopics", "GetTopicInfo"},
         NEW pc \in {"HasNode", "AllNodes"},
         op = "GetNodeInfo" <=> pc = "HasNode",
         Begin(t, op, name, topic, pc),
         IF op \in {"GetTopics", "GetTopicInfo"} THEN Lock(t) ELSE UNCHANGED mtx_
  PROVE  IndInv'
<1> DEFINE new == [pc |-> pc, op |-> op, name |-> name, topic |-> topic,
                   toVisit |-> {}, success |-> TRUE, node_info |-> {},
                   publishes |-> {}, subscribes |-> {}, topics |-> {},
                   publishers |-> {}, subscribers |-> {}]
<1>1. /\ UNCHANGED graphVars /\ churn' = churn
      /\ query[t] = Idle
      /\ query \in [Threads -> Busy \cup {Idle}]
      /\ query' = [query EXCEPT ![t] = new]
      /\ during \in [Threads -> [some : SUBSET Roles, always : SUBSET Roles]]
      /\ during' = [during EXCEPT ![t] = [some |-> Held, always |-> Held]]
  BY DEF Begin, IndInv, TypeOK
<1>2. new \in Busy
  BY DEF Busy
<1>3. Honest(new, Held) /\ Thorough(new, Held, Held) /\ new.op = op
  BY DEF Honest, Thorough, NodeFound, TopicListed, TopicFound, Ahead
<1> HIDE DEF new
<1>4. /\ query' \in [Threads -> Busy \cup {Idle}]
      /\ query'[t] = new /\ new # Idle
      /\ \A u \in Threads \ {t} : query'[u] = query[u]
  BY <1>1, <1>2, BusyOrIdle
<1>5. /\ during' \in [Threads -> [some : SUBSET Roles, always : SUBSET Roles]]
      /\ during'[t].some = Held /\ during'[t].always = Held
      /\ \A u \in Threads \ {t} : during'[u] = during[u]
  BY <1>1 DEF Held
<1>6. Busys' = Busys \cup {t}
  BY <1>4 DEF Busys
<1>7. /\ mtx_' \in Threads \cup {NoThread}
      /\ \A u \in Threads :
           mtx_' = u <=> query'[u] # Idle /\ query'[u].op \in {"GetTopics", "GetTopicInfo"}
  BY <1>1, <1>3, <1>4, ThreadsAssumption DEF IndInv, TypeOK, Lock, ThreadsAssumption
<1>8. TypeOK'
  BY <1>1, <1>4, <1>5, <1>7, GraphStays DEF IndInv, TypeOK
<1>9. GraphInv' /\ Held' = Held
  BY <1>1, GraphStays DEF IndInv
<1>10. Window'
  BY <1>5, <1>6, <1>9 DEF IndInv, Window, Busys
<1>11. \A u \in Busys' : /\ Honest(query'[u], during'[u].some)
                         /\ Thorough(query'[u], during'[u].some, during'[u].always)
  BY <1>3, <1>4, <1>5, <1>6 DEF IndInv, Reads, Busys
<1>12. Reads'
  BY <1>11 DEF Reads
<1> QED BY <1>8, <1>9, <1>10, <1>12 DEF IndInv

(* A response that is sent is forgotten.                                   *)
LEMMA ReplyPreserves ==
  ASSUME IndInv, NEW t \in Threads, Reply(t)
  PROVE  IndInv'
<1>1. /\ UNCHANGED graphVars
      /\ query \in [Threads -> Busy \cup {Idle}]
      /\ query' = [query EXCEPT ![t] = Idle]
      /\ during \in [Threads -> [some : SUBSET Roles, always : SUBSET Roles]]
      /\ during' = [during EXCEPT ![t] = [some |-> {}, always |-> {}]]
  BY DEF Reply, IndInv, TypeOK
<1>2. /\ query' \in [Threads -> Busy \cup {Idle}]
      /\ query'[t] = Idle
      /\ \A u \in Threads \ {t} : query'[u] = query[u]
  BY <1>1
<1>3. /\ during' \in [Threads -> [some : SUBSET Roles, always : SUBSET Roles]]
      /\ \A u \in Threads \ {t} : during'[u] = during[u]
  BY <1>1
<1>4. Busys' = Busys \ {t}
  BY <1>2 DEF Busys
<1>5. /\ mtx_' \in Threads \cup {NoThread}
      /\ \A u \in Threads :
           mtx_' = u <=> query'[u] # Idle /\ query'[u].op \in {"GetTopics", "GetTopicInfo"}
  BY <1>2, ThreadsAssumption DEF IndInv, TypeOK, Reply, Unlock, ThreadsAssumption
<1>6. churn' \in 0..MaxChurn
  BY ChurnAssumption DEF IndInv, TypeOK, Reply, ChurnAssumption
<1>7. TypeOK'
  BY <1>1, <1>2, <1>3, <1>5, <1>6, GraphStays DEF IndInv, TypeOK
<1>8. GraphInv' /\ Window'
  BY <1>1, <1>3, <1>4, GraphStays DEF IndInv, Window, Busys
<1>9. \A u \in Busys' : /\ Honest(query'[u], during'[u].some)
                        /\ Thorough(query'[u], during'[u].some, during'[u].always)
  BY <1>2, <1>3, <1>4 DEF IndInv, Reads, Busys
<1>10. Reads'
  BY <1>9 DEF Reads
<1> QED BY <1>7, <1>8, <1>10 DEF IndInv

-----------------------------------------------------------------------------
(* The reads, query by query.                                              *)

(* What a query under way has collected, and what it may rely on.          *)
LEMMA UnderWay ==
  ASSUME IndInv, NEW t \in Threads, query[t] # Idle
  PROVE  /\ query[t] \in Busy
         /\ during[t].always \subseteq Held /\ Held \subseteq during[t].some
         /\ during[t].always \subseteq Roles /\ during[t].some \subseteq Roles
         /\ Honest(query[t], during[t].some)
         /\ Thorough(query[t], during[t].some, during[t].always)
         /\ GraphInv
<1>1. t \in Busys /\ query[t] \in Busy
  BY DEF Busys, IndInv, TypeOK
<1>2. during[t] \in [some : SUBSET Roles, always : SUBSET Roles]
  BY DEF IndInv, TypeOK
<1> QED BY <1>1, <1>2 DEF IndInv, Window, Reads

LEMMA GetNodesPreserves ==
  ASSUME IndInv, NEW t \in Threads, GetNodesAll(t)
  PROVE  IndInv'
<1> DEFINE q == query[t]
           new == [q EXCEPT !.pc = "reply", !.node_info = Graph!GetAllNodes]
<1>1. q # Idle /\ q.op = "GetNodes" /\ Continues(t, new) /\ UNCHANGED mtx_
  BY DEF GetNodesAll, At
<1>2. q \in Busy /\ Honest(q, during[t].some)
  BY <1>1, UnderWay
<1>3. Graph!GetAllNodes \subseteq Graph!NodeInfo
  BY GraphReads DEF Graph!GetAllNodes, IndInv
<1>4. new \in Busy /\ new.op = "GetNodes"
  BY <1>1, <1>2, <1>3 DEF Busy
<1>5. Honest(new, during[t].some) /\ Thorough(new, during[t].some, during[t].always)
  BY <1>1, <1>2 DEF Busy, Honest, Thorough
<1> HIDE DEF new, q
<1> QED BY <1>1, <1>4, <1>5, ContinuesPreserves DEF q

(* GetNodeInfo reads the node's existence, contact and keys in turn.       *)
LEMMA GetNodeInfoPreserves ==
  ASSUME IndInv, NEW t \in Threads,
         \/ GetNodeInfoHasNode(t) \/ GetNodeInfoByName(t)
         \/ GetNodeInfoPublishes(t) \/ GetNodeInfoSubscribes(t)
  PROVE  IndInv'
<1> DEFINE q == query[t]
           some == during[t].some
           always == during[t].always
<1>1. q # Idle /\ q.op = "GetNodeInfo" /\ UNCHANGED mtx_
  BY DEF GetNodeInfoHasNode, GetNodeInfoByName, GetNodeInfoPublishes,
         GetNodeInfoSubscribes, At
<1>2. /\ q \in Busy /\ GraphInv
      /\ always \subseteq Held /\ Held \subseteq some /\ always \subseteq Roles
      /\ Honest(q, some) /\ NodeFound(q, always)
  BY <1>1, UnderWay DEF Thorough
<1>3. \A r \in always : /\ r.name \in DOMAIN nodes
                        /\ r.role = "publishes" => r.key \in Pub(r.name)
                        /\ r.role = "subscribes" => r.key \in Sub(r.name)
  BY <1>2, HeldRoles
<1>4. /\ Pub(q.name) \subseteq TopicKey /\ Sub(q.name) \subseteq TopicKey
      /\ \A k \in Pub(q.name) : As(q.name, "publishes", k) \in some
      /\ \A k \in Sub(q.name) : As(q.name, "subscribes", k) \in some
  BY <1>2, HeldRoles, GraphReads
<1>5. ASSUME NEW new \in Busy, new.op = "GetNodeInfo", Continues(t, new),
             Honest(new, some), NodeFound(new, always)
      PROVE  IndInv'
  BY <1>1, <1>5, ContinuesPreserves DEF Thorough
<1>6. CASE GetNodeInfoHasNode(t)
  <2>1. CASE q.name \in DOMAIN nodes
    <3> DEFINE new == [q EXCEPT !.pc = "GetNodeByName"]
    <3>1. Continues(t, new)
      BY <1>6, <2>1 DEF GetNodeInfoHasNode, Graph!HasNode
    <3>2. new \in Busy /\ new.op = "GetNodeInfo"
      BY <1>1, <1>2 DEF Busy
    <3>3. Honest(new, some) /\ NodeFound(new, always)
      BY <1>1, <1>2 DEF Busy, Honest, NodeFound
    <3> HIDE DEF new
    <3> QED BY <1>5, <3>1, <3>2, <3>3
  <2>2. CASE q.name \notin DOMAIN nodes
    <3> DEFINE new == [q EXCEPT !.pc = "reply", !.success = FALSE]
    <3>1. Continues(t, new)
      BY <1>6, <2>2 DEF GetNodeInfoHasNode, Graph!HasNode
    <3>2. new \in Busy /\ new.op = "GetNodeInfo" /\ new.name = q.name
      BY <1>1, <1>2 DEF Busy
    <3>3. Honest(new, some)
      BY <1>1, <1>2 DEF Busy, Honest
    <3>4. NodeFound(new, always)
      BY <1>3, <2>2, <3>2 DEF NodeFound
    <3> HIDE DEF new
    <3> QED BY <1>5, <3>1, <3>2, <3>3, <3>4
  <2> QED BY <2>1, <2>2
<1>7. CASE GetNodeInfoByName(t)
  <2> DEFINE found == {nodes[n].info : n \in DOMAIN nodes \cap {q.name}}
             new == [q EXCEPT !.pc = "PublishKeys", !.node_info = found]
  <2>1. Continues(t, new) /\ q.pc = "GetNodeByName"
    BY <1>7 DEF GetNodeInfoByName, At
  <2>2. found \subseteq Graph!NodeInfo
    BY <1>2, GraphReads
  <2>3. q.name \in DOMAIN nodes => found # {}
    OBVIOUS
  <2> HIDE DEF found
  <2>4. /\ new \in Busy /\ new.op = "GetNodeInfo" /\ new.name = q.name
        /\ new.pc = "PublishKeys" /\ new.success = q.success /\ new.node_info = found
    BY <1>1, <1>2, <2>2 DEF Busy
  <2>5. Honest(new, some)
    BY <1>1, <1>2 DEF Busy, Honest
  <2>6. NodeFound(new, always)
    BY <1>2, <1>3, <2>3, <2>4 DEF NodeFound
  <2> HIDE DEF new
  <2> QED BY <1>5, <2>1, <2>4, <2>5, <2>6
<1>8. CASE GetNodeInfoPublishes(t)
  <2> DEFINE new == [q EXCEPT !.pc = "SubscribeKeys", !.publishes = Pub(q.name)]
  <2>1. Continues(t, new) /\ q.pc = "PublishKeys"
    BY <1>8 DEF GetNodeInfoPublishes, At, Pub
  <2>2. /\ new \in Busy /\ new.op = "GetNodeInfo" /\ new.name = q.name
        /\ new.pc = "SubscribeKeys" /\ new.success = q.success
        /\ new.node_info = q.node_info /\ new.publishes = Pub(q.name)
        /\ new.subscribes = q.subscribes /\ new.topics = q.topics
        /\ new.publishers = q.publishers /\ new.subscribers = q.subscribers
        /\ new.topic = q.topic
    BY <1>1, <1>2, <1>4 DEF Busy
  <2> HIDE DEF new
  <2>3. Honest(new, some)
    BY <1>1, <1>2, <1>4, <2>2 DEF Honest
  <2>4. NodeFound(new, always)
    BY <1>2, <1>3, <2>1, <2>2 DEF NodeFound
  <2> QED BY <1>5, <2>1, <2>2, <2>3, <2>4
<1>9. CASE GetNodeInfoSubscribes(t)
  <2> DEFINE new == [q EXCEPT !.pc = "reply", !.subscribes = Sub(q.name)]
  <2>1. Continues(t, new) /\ q.pc = "SubscribeKeys"
    BY <1>9 DEF GetNodeInfoSubscribes, At, Sub
  <2>2. /\ new \in Busy /\ new.op = "GetNodeInfo" /\ new.name = q.name
        /\ new.pc = "reply" /\ new.success = q.success
        /\ new.node_info = q.node_info /\ new.publishes = q.publishes
        /\ new.subscribes = Sub(q.name) /\ new.topics = q.topics
        /\ new.publishers = q.publishers /\ new.subscribers = q.subscribers
        /\ new.topic = q.topic
    BY <1>1, <1>2, <1>4 DEF Busy
  <2> HIDE DEF new
  <2>3. Honest(new, some)
    BY <1>1, <1>2, <1>4, <2>2 DEF Honest
  <2>4. NodeFound(new, always)
    BY <1>2, <1>3, <2>1, <2>2 DEF NodeFound
  <2> QED BY <1>5, <2>1, <2>2, <2>3, <2>4
<1> QED BY <1>6, <1>7, <1>8, <1>9

(* Assigning keys to the map from topics to types gives every topic of     *)
(* theirs a type, and takes it from none.                                  *)
LEMMA AssignKeeps ==
  ASSUME NEW map \in SUBSET TopicKey, NEW keys \in SUBSET TopicKey,
         NEW m \in Assign(map, keys)
  PROVE  /\ m \subseteq map \cup keys
         /\ \A k \in map \cup keys : \E l \in m : l.topic = k.topic
<1>1. m \subseteq map \cup keys
  BY DEF Assign
<1>2. ASSUME NEW k \in map \cup keys PROVE \E l \in m : l.topic = k.topic
  <2>1. k.topic \in Topics
    BY RoleParts
  <2> DEFINE new == {l \in keys : l.topic = k.topic}
             old == {l \in map : l.topic = k.topic}
             now == {l \in m : l.topic = k.topic}
  <2>2. IF new = {} THEN now = old ELSE \E l \in new : now = {l}
    BY <2>1 DEF Assign
  <2>3. k \in new \/ k \in old
    OBVIOUS
  <2>4. now # {}
    BY <2>2, <2>3
  <2> QED BY <2>4
<1> QED BY <1>1, <1>2

(* GetTopics goes through the nodes that the first read found.             *)
LEMMA GetTopicsPreserves ==
  ASSUME IndInv, NEW t \in Threads,
         GetTopicsList(t) \/ GetTopicsPublishes(t) \/ GetTopicsSubscribes(t)
  PROVE  IndInv'
<1> DEFINE q == query[t]
           some == during[t].some
           always == during[t].always
<1>1. q # Idle /\ q.op = "GetTopics" /\ UNCHANGED mtx_
  BY DEF GetTopicsList, GetTopicsPublishes, GetTopicsSubscribes, At
<1>2. /\ q \in Busy /\ GraphInv
      /\ always \subseteq Held /\ Held \subseteq some
      /\ always \subseteq Roles /\ some \subseteq Roles
      /\ Honest(q, some) /\ TopicListed(q, always)
  BY <1>1, UnderWay DEF Thorough
<1>3. \A r \in always : /\ r.name \in DOMAIN nodes
                        /\ r.role \in {"publishes", "subscribes"}
                        /\ r.role = "publishes" => r.key \in Pub(r.name)
                        /\ r.role = "subscribes" => r.key \in Sub(r.name)
  BY <1>2, HeldRoles, RoleParts
<1>4. /\ \A n : Pub(n) \subseteq TopicKey /\ Sub(n) \subseteq TopicKey
      /\ \A n : \A k \in Pub(n) \cup Sub(n) : \E r \in some : r.key = k
  <2>1. \A n : \A k \in Pub(n) \cup Sub(n) : \E r \in Held : r.key = k
    BY <1>2, HeldRoles, RoleParts
  <2> QED BY <1>2, <2>1, GraphReads
<1>5. ASSUME NEW new \in Busy, new.op = "GetTopics", Continues(t, new),
             new.publishers = q.publishers, new.subscribers = q.subscribers,
             new.topic = q.topic,
             \A k \in new.topics : \E r \in some : r.key = k,
             TopicListed(new, always)
      PROVE  IndInv'
  <2>1. Honest(new, some)
    BY <1>1, <1>2, <1>5 DEF Honest
  <2> QED BY <1>1, <1>5, <2>1, ContinuesPreserves DEF Thorough
<1>6. \A k \in q.topics : \E r \in some : r.key = k
  BY <1>2 DEF Honest
<1>7. q.topics \in SUBSET TopicKey /\ q.toVisit \in SUBSET Names /\ q.name \in Names
  BY <1>2 DEF Busy
<1>8. CASE GetTopicsList(t)
  <2> DEFINE names == {i.node_name : i \in Graph!GetAllNodes}
             next == IF Graph!GetAllNodes = {} THEN "reply" ELSE "PublishKeys"
             new == [q EXCEPT !.toVisit = names, !.pc = next]
  <2>1. Continues(t, new)
    BY <1>8 DEF GetTopicsList
  <2>2. /\ names = DOMAIN nodes /\ names \subseteq Names
        /\ Graph!GetAllNodes = {} => DOMAIN nodes = {}
    BY <1>2, AllNodesListed
  <2>3. next \in {"reply", "PublishKeys"} /\ (next = "reply" => DOMAIN nodes = {})
    BY <2>2
  <2> HIDE DEF names, next
  <2>4. /\ new \in Busy /\ new.op = "GetTopics" /\ new.topic = q.topic
        /\ new.publishers = q.publishers /\ new.subscribers = q.subscribers
        /\ new.topics = q.topics /\ new.pc = next /\ new.toVisit = names
    BY <1>1, <1>2, <2>2, <2>3 DEF Busy
  <2> HIDE DEF new
  <2>5. TopicListed(new, always)
    BY <1>3, <2>2, <2>3, <2>4 DEF TopicListed, Ahead
  <2> QED BY <1>5, <1>6, <2>1, <2>4, <2>5
<1>9. CASE GetTopicsPublishes(t)
  <2>1. PICK name \in q.toVisit : \E map \in Assign(q.topics, Pub(name)) :
          Continues(t, [q EXCEPT !.pc = "SubscribeKeys", !.name = name, !.topics = map])
    BY <1>9 DEF GetTopicsPublishes, Pub
  <2>2. PICK map \in Assign(q.topics, Pub(name)) :
          Continues(t, [q EXCEPT !.pc = "SubscribeKeys", !.name = name, !.topics = map])
    BY <2>1
  <2> DEFINE new == [q EXCEPT !.pc = "SubscribeKeys", !.name = name, !.topics = map]
  <2>3. /\ map \subseteq q.topics \cup Pub(name)
        /\ \A k \in q.topics \cup Pub(name) : \E l \in map : l.topic = k.topic
    BY <1>4, <1>7, AssignKeeps
  <2>4. map \subseteq TopicKey /\ name \in Names
    BY <1>4, <1>7, <2>3
  <2>5. /\ new \in Busy /\ new.op = "GetTopics" /\ new.topic = q.topic
        /\ new.publishers = q.publishers /\ new.subscribers = q.subscribers
        /\ new.topics = map /\ new.pc = "SubscribeKeys" /\ new.toVisit = q.toVisit
        /\ new.name = name
    BY <1>1, <1>2, <2>4 DEF Busy
  <2>6. q.pc = "PublishKeys" /\ Continues(t, new)
    BY <1>9, <2>2 DEF GetTopicsPublishes, At
  <2> HIDE DEF new
  <2>7. \A k \in new.topics : \E r \in some : r.key = k
    BY <1>4, <1>6, <2>3, <2>5
  <2>8. TopicListed(new, always)
    <3> SUFFICES ASSUME NEW r \in always
                 PROVE  Ahead(new, r) \/ \E k \in new.topics : k.topic = r.key.topic
      BY DEF TopicListed
    <3>1. CASE \E k \in q.topics : k.topic = r.key.topic
      BY <2>3, <2>5, <3>1
    <3>2. CASE r.name \in q.toVisit /\ (r.name = name => r.role = "subscribes")
      BY <2>5, <3>2 DEF Ahead
    <3>3. CASE r.name = name /\ r.role = "publishes"
      BY <1>3, <2>3, <2>5, <3>3
    <3>4. Ahead(q, r) \/ \E k \in q.topics : k.topic = r.key.topic
      BY <1>2 DEF TopicListed
    <3> QED BY <1>3, <2>6, <3>1, <3>2, <3>3, <3>4 DEF Ahead
  <2> QED BY <1>5, <2>5, <2>6, <2>7, <2>8
<1>10. CASE GetTopicsSubscribes(t)
  <2> DEFINE rest == q.toVisit \ {q.name}
             next == IF rest = {} THEN "reply" ELSE "PublishKeys"
  <2>1. PICK map \in Assign(q.topics, Sub(q.name)) :
          Continues(t, [q EXCEPT !.pc = next, !.toVisit = rest, !.topics = map])
    BY <1>10 DEF GetTopicsSubscribes, Sub
  <2> DEFINE new == [q EXCEPT !.pc = next, !.toVisit = rest, !.topics = map]
  <2>2. /\ map \subseteq q.topics \cup Sub(q.name)
        /\ \A k \in q.topics \cup Sub(q.name) : \E l \in map : l.topic = k.topic
    BY <1>4, <1>7, AssignKeeps
  <2>3. /\ map \subseteq TopicKey /\ rest \subseteq Names
        /\ next \in {"reply", "PublishKeys"}
        /\ next = "reply" => rest = {}
    BY <1>4, <1>7, <2>2
  <2>4. q.pc = "SubscribeKeys" /\ Continues(t, new)
    BY <1>10, <2>1 DEF GetTopicsSubscribes, At
  <2>5. \A n : n \in q.toVisit /\ n # q.name => n \in rest
    OBVIOUS
  <2> HIDE DEF rest, next
  <2>6. /\ new \in Busy /\ new.op = "GetTopics" /\ new.topic = q.topic
        /\ new.publishers = q.publishers /\ new.subscribers = q.subscribers
        /\ new.topics = map /\ new.pc = next /\ new.toVisit = rest
    BY <1>1, <1>2, <2>3 DEF Busy
  <2> HIDE DEF new
  <2>7. \A k \in new.topics : \E r \in some : r.key = k
    BY <1>4, <1>6, <2>2, <2>6
  <2>8. TopicListed(new, always)
    <3> SUFFICES ASSUME NEW r \in always
                 PROVE  Ahead(new, r) \/ \E k \in new.topics : k.topic = r.key.topic
      BY DEF TopicListed
    <3>1. CASE \E k \in q.topics : k.topic = r.key.topic
      BY <2>2, <2>6, <3>1
    <3>2. CASE r.name \in q.toVisit /\ r.name # q.name
      BY <2>3, <2>5, <2>6, <3>2 DEF Ahead
    <3>3. CASE r.name = q.name /\ r.role = "subscribes"
      BY <1>3, <2>2, <2>6, <3>3
    <3>4. Ahead(q, r) \/ \E k \in q.topics : k.topic = r.key.topic
      BY <1>2 DEF TopicListed
    <3> QED BY <1>3, <2>4, <3>1, <3>2, <3>3, <3>4 DEF Ahead
  <2> QED BY <1>5, <2>4, <2>6, <2>7, <2>8
<1> QED BY <1>8, <1>9, <1>10

(* GetTopicInfo looks for the topic node by node, then asks for those who  *)
(* publish it and those who subscribe to it.                               *)
LEMMA GetTopicInfoSearch ==
  ASSUME IndInv, NEW t \in Threads,
         \/ GetTopicInfoList(t) \/ GetTopicInfoPublishes(t)
         \/ GetTopicInfoSubscribes(t)
  PROVE  IndInv'
<1> DEFINE q == query[t]
           some == during[t].some
           always == during[t].always
           Empty(new) == /\ new.publishers = q.publishers
                         /\ new.subscribers = q.subscribers
                         /\ new.topic = q.topic
<1>1. q # Idle /\ q.op = "GetTopicInfo" /\ UNCHANGED mtx_
  BY DEF GetTopicInfoList, GetTopicInfoPublishes, GetTopicInfoSubscribes, At
<1>2. /\ q \in Busy /\ GraphInv
      /\ always \subseteq Held /\ Held \subseteq some
      /\ always \subseteq Roles /\ some \subseteq Roles
      /\ Honest(q, some) /\ TopicFound(q, some, always)
  BY <1>1, UnderWay DEF Thorough
<1>3. \A r \in always : /\ r.name \in DOMAIN nodes
                        /\ r.role \in {"publishes", "subscribes"}
                        /\ r.role = "publishes" => r.key \in Pub(r.name)
                        /\ r.role = "subscribes" => r.key \in Sub(r.name)
  BY <1>2, HeldRoles, RoleParts
<1>4. /\ \A n : Pub(n) \subseteq TopicKey /\ Sub(n) \subseteq TopicKey
      /\ \A n : \A k \in Pub(n) \cup Sub(n) : \E r \in some : r.key = k
  <2>1. \A n : \A k \in Pub(n) \cup Sub(n) : \E r \in Held : r.key = k
    BY <1>2, HeldRoles, RoleParts
  <2> QED BY <1>2, <2>1, GraphReads
<1>5. ASSUME NEW new \in Busy, new.op = "GetTopicInfo", Continues(t, new),
             Empty(new),
             \A k \in new.topics : \E r \in some : r.key = k,
             TopicFound(new, some, always)
      PROVE  IndInv'
  <2>1. Honest(new, some)
    BY <1>1, <1>2, <1>5 DEF Honest
  <2> QED BY <1>1, <1>5, <2>1, ContinuesPreserves DEF Thorough
<1>6. \A k \in q.topics : \E r \in some : r.key = k
  BY <1>2 DEF Honest
<1>7. ASSUME Continues(t, NotFound(q)), \A r \in always : r.key.topic # q.topic
      PROVE  IndInv'
  <2> DEFINE new == NotFound(q)
  <2>1. /\ new \in Busy /\ new.op = "GetTopicInfo" /\ Empty(new) /\ new.topics = q.topics
    BY <1>1, <1>2 DEF Busy, NotFound
  <2> HIDE DEF new
  <2>2. TopicFound(new, some, always)
    BY <1>7, <2>1 DEF TopicFound
  <2>3. Continues(t, new)
    BY <1>7 DEF new
  <2> QED BY <1>5, <1>6, <2>1, <2>2, <2>3
<1>8. ASSUME NEW name \in Names, NEW k \in Pub(name) \cup Sub(name), k.topic = q.topic,
             Continues(t, [[q EXCEPT !.name = name] EXCEPT !.pc = "Publishers", !.topics = {k}]),
             q.pc \in {"PublishKeys", "SubscribeKeys"}
      PROVE  IndInv'
  <2> DEFINE new == [[q EXCEPT !.name = name] EXCEPT !.pc = "Publishers", !.topics = {k}]
  <2>1. k \in TopicKey
    BY <1>4
  <2>2. /\ new \in Busy /\ new.op = "GetTopicInfo" /\ Empty(new) /\ new.topics = {k}
        /\ new.pc = "Publishers" /\ new.success = q.success
    BY <1>1, <1>2, <2>1 DEF Busy
  <2> HIDE DEF new
  <2>3. TopicFound(new, some, always)
    BY <1>2, <2>2 DEF TopicFound
  <2>4. Continues(t, new)
    BY <1>8 DEF new
  <2>5. \A l \in new.topics : \E r \in some : r.key = l
    BY <1>4, <2>2
  <2> QED BY <1>5, <2>2, <2>3, <2>4, <2>5
<1>9. q.toVisit \in SUBSET Names /\ q.name \in Names
  BY <1>2 DEF Busy
<1>10. CASE GetTopicInfoList(t)
  <2> DEFINE names == {i.node_name : i \in Graph!GetAllNodes}
             new == [q EXCEPT !.pc = "PublishKeys", !.toVisit = names]
  <2>1. /\ names = DOMAIN nodes /\ names \subseteq Names
        /\ Graph!GetAllNodes = {} => DOMAIN nodes = {}
    BY <1>2, AllNodesListed
  <2>2. Continues(t, IF Graph!GetAllNodes = {} THEN NotFound(q) ELSE new)
    BY <1>10 DEF GetTopicInfoList
  <2>3. CASE Graph!GetAllNodes = {}
    <3>1. \A r \in always : r.key.topic # q.topic
      BY <1>3, <2>1, <2>3
    <3>2. Continues(t, NotFound(q))
      BY <2>2, <2>3
    <3> QED BY <1>7, <3>1, <3>2
  <2>4. CASE Graph!GetAllNodes # {}
    <3>1. Continues(t, new)
      BY <2>2, <2>4
    <3> HIDE DEF names
    <3>2. /\ new \in Busy /\ new.op = "GetTopicInfo" /\ Empty(new) /\ new.topics = q.topics
          /\ new.pc = "PublishKeys" /\ new.success = q.success /\ new.toVisit = names
      BY <1>1, <1>2, <2>1 DEF Busy
    <3> HIDE DEF new
    <3>3. TopicFound(new, some, always)
      BY <1>2, <1>3, <2>1, <3>2 DEF TopicFound, Ahead
    <3> QED BY <1>5, <1>6, <3>1, <3>2, <3>3
  <2> QED BY <2>3, <2>4
<1>11. CASE GetTopicInfoPublishes(t)
  <2>1. q.pc = "PublishKeys"
    BY <1>11 DEF GetTopicInfoPublishes, At
  <2>2. PICK name \in q.toVisit :
          Found(t, [q EXCEPT !.name = name], Pub(name),
                [[q EXCEPT !.name = name] EXCEPT !.pc = "SubscribeKeys"])
    BY <1>11 DEF GetTopicInfoPublishes, Pub
  <2> DEFINE named == [q EXCEPT !.name = name]
             new == [named EXCEPT !.pc = "SubscribeKeys"]
             same == {k \in Pub(name) : k.topic = q.topic}
  <2>3. named.topic = q.topic /\ name \in Names
    BY <1>2, <1>9 DEF Busy
  <2>4. IF same = {} THEN Continues(t, new)
        ELSE \E k \in same : Continues(t, [named EXCEPT !.pc = "Publishers", !.topics = {k}])
    BY <2>2, <2>3 DEF Found
  <2>5. CASE same = {}
    <3>1. Continues(t, new)
      BY <2>4, <2>5
    <3>2. /\ new \in Busy /\ new.op = "GetTopicInfo" /\ Empty(new) /\ new.topics = q.topics
          /\ new.pc = "SubscribeKeys" /\ new.success = q.success
          /\ new.toVisit = q.toVisit /\ new.name = name
      BY <1>1, <1>2, <2>3 DEF Busy
    <3>3. \A k \in Pub(name) : k.topic # q.topic
      BY <2>5
    <3> HIDE DEF new, same
    <3>4. TopicFound(new, some, always)
      BY <1>2, <1>3, <2>1, <3>2, <3>3 DEF TopicFound, Ahead
    <3> QED BY <1>5, <1>6, <3>1, <3>2, <3>4
  <2>6. CASE same # {}
    <3>1. PICK k \in same : Continues(t, [named EXCEPT !.pc = "Publishers", !.topics = {k}])
      BY <2>4, <2>6
    <3> QED BY <1>8, <2>1, <2>3, <3>1
  <2> QED BY <2>5, <2>6
<1>12. CASE GetTopicInfoSubscribes(t)
  <2> DEFINE rest == q.toVisit \ {q.name}
             new == [q EXCEPT !.pc = "PublishKeys", !.toVisit = rest]
             same == {k \in Sub(q.name) : k.topic = q.topic}
  <2>1. q.pc = "SubscribeKeys"
    BY <1>12 DEF GetTopicInfoSubscribes, At
  <2>2. IF same = {} THEN Continues(t, IF rest = {} THEN NotFound(q) ELSE new)
        ELSE \E k \in same : Continues(t, [q EXCEPT !.pc = "Publishers", !.topics = {k}])
    BY <1>12 DEF GetTopicInfoSubscribes, Found, Sub
  <2>3. CASE same = {}
    <3>1. \A k \in Sub(q.name) : k.topic # q.topic
      BY <2>3
    <3>2. \A r \in always : r.key.topic = q.topic => r.name \in rest
      BY <1>2, <1>3, <2>1, <3>1 DEF TopicFound, Ahead
    <3>3. CASE rest = {}
      BY <1>7, <2>2, <2>3, <3>2, <3>3
    <3>4. CASE rest # {}
      <4>1. Continues(t, new)
        BY <2>2, <2>3, <3>4
      <4>2. rest \subseteq Names
        BY <1>9
      <4> HIDE DEF rest
      <4>3. /\ new \in Busy /\ new.op = "GetTopicInfo" /\ Empty(new) /\ new.topics = q.topics
            /\ new.pc = "PublishKeys" /\ new.success = q.success /\ new.toVisit = rest
        BY <1>1, <1>2, <4>2 DEF Busy
      <4> HIDE DEF new
      <4>4. TopicFound(new, some, always)
        BY <1>2, <3>2, <4>3 DEF TopicFound, Ahead
      <4> QED BY <1>5, <1>6, <4>1, <4>3, <4>4
    <3> QED BY <3>3, <3>4
  <2>4. CASE same # {}
    <3>1. PICK k \in same : Continues(t, [q EXCEPT !.pc = "Publishers", !.topics = {k}])
      BY <2>2, <2>4
    <3>2. [[q EXCEPT !.name = q.name] EXCEPT !.pc = "Publishers", !.topics = {k}]
            = [q EXCEPT !.pc = "Publishers", !.topics = {k}]
      BY <1>2 DEF Busy
    <3> QED BY <1>8, <1>9, <2>1, <3>1, <3>2
  <2> QED BY <2>3, <2>4
<1> QED BY <1>10, <1>11, <1>12

LEMMA GetTopicInfoAnswer ==
  ASSUME IndInv, NEW t \in Threads,
         GetTopicInfoPublishers(t) \/ GetTopicInfoSubscribers(t)
  PROVE  IndInv'
<1> DEFINE q == query[t]
           some == during[t].some
           always == during[t].always
<1>1. q # Idle /\ q.op = "GetTopicInfo" /\ UNCHANGED mtx_
  BY DEF GetTopicInfoPublishers, GetTopicInfoSubscribers, At
<1>2. /\ q \in Busy /\ GraphInv
      /\ always \subseteq Held /\ Held \subseteq some
      /\ always \subseteq Roles /\ some \subseteq Roles
      /\ Honest(q, some) /\ TopicFound(q, some, always)
  BY <1>1, UnderWay DEF Thorough
<1>3. \A r \in always : /\ r.role = "publishes" => r.key \in Pub(r.name)
                        /\ r.role = "subscribes" => r.key \in Sub(r.name)
  BY <1>2, HeldRoles
<1>4. /\ \A n : \A k \in Pub(n) : As(n, "publishes", k) \in some
      /\ \A n : \A k \in Sub(n) : As(n, "subscribes", k) \in some
      /\ \A n : Pub(n) \cup Sub(n) \subseteq TopicKey
  BY <1>2, HeldRoles, GraphReads
<1>5. ASSUME NEW new \in Busy, new.op = "GetTopicInfo", Continues(t, new),
             Honest(new, some), TopicFound(new, some, always)
      PROVE  IndInv'
  BY <1>1, <1>5, ContinuesPreserves DEF Thorough
<1>6. ASSUME OneType(q, some),
             NEW m, NEW n, NEW k, NEW l, k.topic = q.topic, l.topic = q.topic,
             \/ k \in Pub(m) /\ l \in Pub(n)
             \/ k \in Sub(m) /\ l \in Sub(n)
      PROVE  k = l
  <2>1. k \in TopicKey /\ l \in TopicKey
    BY <1>4, <1>6
  <2>2. \E r, s \in some : r.key = k /\ s.key = l
    BY <1>4, <1>6, RoleParts
  <2>3. k.msg_type = l.msg_type
    BY <1>6, <2>2 DEF OneType
  <2> QED BY <1>6, <2>1, <2>3, RoleParts
<1>7. CASE GetTopicInfoPublishers(t)
  <2>1. PICK infos \in Graph!GetPublishersByTopic(q.topic) :
          Continues(t, [q EXCEPT !.pc = "Subscribers", !.publishers = infos])
    BY <1>7 DEF GetTopicInfoPublishers
  <2> DEFINE new == [q EXCEPT !.pc = "Subscribers", !.publishers = infos]
  <2>2. /\ infos \subseteq Graph!NodeInfo
        /\ \A i \in infos : \E k \in TopicKey : k.topic = q.topic /\ k \in Pub(i.node_name)
        /\ \A n, k : k \in Pub(n) /\ k.topic = q.topic =>
             \E m, l : /\ l \in Pub(m) /\ l.topic = q.topic
                       /\ l = k => \E i \in infos : i.node_name = n
    BY <1>2, LookupFinds
  <2>3. /\ new \in Busy /\ new.op = "GetTopicInfo" /\ new.topic = q.topic
        /\ new.topics = q.topics /\ new.pc = "Subscribers" /\ new.success = q.success
        /\ new.publishers = infos /\ new.subscribers = q.subscribers
    BY <1>1, <1>2, <2>2 DEF Busy
  <2> HIDE DEF new
  <2>4. Honest(new, some)
    BY <1>2, <1>4, <2>2, <2>3 DEF Honest
  <2>5. ASSUME OneType(q, some), NEW r \in always, r.key.topic = q.topic,
               r.role = "publishes"
        PROVE  \E i \in infos : i.node_name = r.name
    <3>1. r.key \in Pub(r.name)
      BY <1>3, <2>5
    <3>2. PICK m, l : /\ l \in Pub(m) /\ l.topic = q.topic
                      /\ l = r.key => \E i \in infos : i.node_name = r.name
      BY <2>2, <2>5, <3>1
    <3>3. l = r.key
      BY <1>6, <2>5, <3>1, <3>2
    <3> QED BY <3>2, <3>3
  <2>6. OneType(new, some) => OneType(q, some)
    BY <2>3 DEF OneType
  <2>7. TopicFound(new, some, always)
    BY <1>2, <2>3, <2>5, <2>6 DEF TopicFound
  <2>8. Continues(t, new)
    BY <2>1 DEF new
  <2> QED BY <1>5, <2>3, <2>4, <2>7, <2>8
<1>8. CASE GetTopicInfoSubscribers(t)
  <2>1. PICK infos \in Graph!GetSubscribersByTopic(q.topic) :
          Continues(t, [q EXCEPT !.pc = "reply", !.subscribers = infos])
    BY <1>8 DEF GetTopicInfoSubscribers
  <2> DEFINE new == [q EXCEPT !.pc = "reply", !.subscribers = infos]
  <2>2. /\ infos \subseteq Graph!NodeInfo
        /\ \A i \in infos : \E k \in TopicKey : k.topic = q.topic /\ k \in Sub(i.node_name)
        /\ \A n, k : k \in Sub(n) /\ k.topic = q.topic =>
             \E m, l : /\ l \in Sub(m) /\ l.topic = q.topic
                       /\ l = k => \E i \in infos : i.node_name = n
    BY <1>2, LookupFinds
  <2>3. /\ new \in Busy /\ new.op = "GetTopicInfo" /\ new.topic = q.topic
        /\ new.topics = q.topics /\ new.pc = "reply" /\ new.success = q.success
        /\ new.publishers = q.publishers /\ new.subscribers = infos
    BY <1>1, <1>2, <2>2 DEF Busy
  <2>0. q.pc = "Subscribers"
    BY <1>8 DEF GetTopicInfoSubscribers, At
  <2> HIDE DEF new
  <2>4. Honest(new, some)
    BY <1>2, <1>4, <2>2, <2>3 DEF Honest
  <2>5. ASSUME OneType(q, some), NEW r \in always, r.key.topic = q.topic,
               r.role = "subscribes"
        PROVE  \E i \in infos : i.node_name = r.name
    <3>1. r.key \in Sub(r.name)
      BY <1>3, <2>5
    <3>2. PICK m, l : /\ l \in Sub(m) /\ l.topic = q.topic
                      /\ l = r.key => \E i \in infos : i.node_name = r.name
      BY <2>2, <2>5, <3>1
    <3>3. l = r.key
      BY <1>6, <2>5, <3>1, <3>2
    <3> QED BY <3>2, <3>3
  <2>6. OneType(new, some) => OneType(q, some)
    BY <2>3 DEF OneType
  <2>7. TopicFound(new, some, always)
    BY <1>2, <2>0, <2>3, <2>5, <2>6 DEF TopicFound
  <2>8. Continues(t, new)
    BY <2>1 DEF new
  <2> QED BY <1>5, <2>3, <2>4, <2>7, <2>8
<1> QED BY <1>7, <1>8

-----------------------------------------------------------------------------
(* The theorems.                                                           *)

(* The invariant holds in every state of the service while it answers      *)
(* queries (GetNodes, GetNodeInfo, GetTopics, GetTopicInfo): what a query  *)
(* has collected is honest, and what it has not is still ahead of it.      *)
LEMMA InductiveInvariant == Spec => []IndInv
<1>1. Init => IndInv
  <2> SUFFICES ASSUME Init PROVE IndInv
    OBVIOUS
  <2>1. GraphInv /\ Graph!TypeOK
    BY GraphStarts DEF Init, GraphInv
  <2>2. \A t \in Threads : query[t] = Idle
    BY DEF Init
  <2>3. Busys = {}
    BY <2>2 DEF Busys
  <2>4. TypeOK
    BY <2>1, <2>2, ThreadsAssumption, ChurnAssumption
       DEF Init, TypeOK, ThreadsAssumption, ChurnAssumption
  <2> QED BY <2>1, <2>3, <2>4 DEF IndInv, Window, Reads
<1>2. IndInv /\ [Next]_vars => IndInv'
  <2> SUFFICES ASSUME IndInv, [Next]_vars PROVE IndInv'
    OBVIOUS
  <2>1. CASE UNCHANGED vars
    <3>1. UNCHANGED graphVars /\ UNCHANGED <<query, mtx_, during, churn>>
      BY <2>1 DEF vars
    <3> QED BY <3>1, GraphStays DEF IndInv, TypeOK, Window, Reads, Busys
  <2>2. CASE Change
    BY <2>2, ChangePreserves
  <2>3. ASSUME NEW t \in Threads, Step(t) PROVE IndInv'
    <3>1. ASSUME GetNodes(t) PROVE IndInv'
      BY <3>1, BeginPreserves DEF GetNodes
    <3>2. ASSUME GetNodeInfo(t) PROVE IndInv'
      BY <3>2, BeginPreserves DEF GetNodeInfo
    <3>3. ASSUME GetTopics(t) PROVE IndInv'
      BY <3>3, BeginPreserves DEF GetTopics
    <3>4. ASSUME GetTopicInfo(t) PROVE IndInv'
      BY <3>4, BeginPreserves DEF GetTopicInfo
    <3> QED BY <2>3, <3>1, <3>2, <3>3, <3>4, GetNodesPreserves, GetNodeInfoPreserves,
               GetTopicsPreserves, GetTopicInfoSearch, GetTopicInfoAnswer, ReplyPreserves
            DEF Step
  <2> QED BY <2>1, <2>2, <2>3 DEF Next
<1> QED BY <1>1, <1>2, PTL DEF Spec

(* Responses under construction are well formed, and mtx_ is held by       *)
(* GetTopics and GetTopicInfo, from when they begin until they reply.      *)
THEOREM TypeCorrect == Spec => []TypeOK
<1>1. IndInv => TypeOK
  BY DEF IndInv
<1> QED BY <1>1, InductiveInvariant, PTL

LEMMA KeysAre ==
  ASSUME NEW roles \in SUBSET Roles, NEW role, NEW name, NEW k
  PROVE  k \in Keys(roles, role, name) <=> As(name, role, k) \in roles
<1>1. k \in Keys(roles, role, name) <=>
        \E r \in roles : r.role = role /\ r.name = name /\ r.key = k
  BY DEF Keys
<1>2. \A r \in roles : r.role = role /\ r.name = name /\ r.key = k => r = As(name, role, k)
  BY RoleParts
<1> QED BY <1>1, <1>2, RoleParts

(* Nothing in an answer is made up: what GetNodeInfo, GetTopics and        *)
(* GetTopicInfo list was so at some time while the query ran.              *)
THEOREM AnswersAreHonest == Spec => []NothingInvented
<1>1. IndInv => NothingInvented
  <2> SUFFICES ASSUME IndInv, NEW t \in Threads, query[t] # Idle
               PROVE
      LET q    == query[t]
          some == during[t].some
      IN  /\ Replies(t, "GetNodeInfo") =>
               /\ q.publishes \subseteq Keys(some, "publishes", q.name)
               /\ q.subscribes \subseteq Keys(some, "subscribes", q.name)
          /\ q.topics \subseteq {r.key : r \in some}
          /\ \A i \in q.publishers :
               q.topic \in {k.topic : k \in Keys(some, "publishes", i.node_name)}
          /\ \A i \in q.subscribers :
               q.topic \in {k.topic : k \in Keys(some, "subscribes", i.node_name)}
    BY DEF NothingInvented, Replies
  <2>1. Honest(query[t], during[t].some) /\ during[t].some \in SUBSET Roles
    BY UnderWay
  <2>2. Replies(t, "GetNodeInfo") =>
          /\ query[t].publishes \subseteq Keys(during[t].some, "publishes", query[t].name)
          /\ query[t].subscribes \subseteq Keys(during[t].some, "subscribes", query[t].name)
    BY <2>1, KeysAre DEF Honest, Replies
  <2>3. query[t].topics \subseteq {r.key : r \in during[t].some}
    BY <2>1 DEF Honest
  <2>4. ASSUME NEW i \in query[t].publishers
        PROVE  query[t].topic \in {k.topic : k \in Keys(during[t].some, "publishes", i.node_name)}
    <3>1. PICK k : k.topic = query[t].topic /\ As(i.node_name, "publishes", k) \in during[t].some
      BY <2>1 DEF Honest
    <3> QED BY <2>1, <3>1, KeysAre
  <2>5. ASSUME NEW i \in query[t].subscribers
        PROVE  query[t].topic \in {k.topic : k \in Keys(during[t].some, "subscribes", i.node_name)}
    <3>1. PICK k : k.topic = query[t].topic /\ As(i.node_name, "subscribes", k) \in during[t].some
      BY <2>1 DEF Honest
    <3> QED BY <2>1, <3>1, KeysAre
  <2> QED BY <2>2, <2>3, <2>4, <2>5
<1> QED BY <1>1, InductiveInvariant, PTL

(* What one node held while a query ran is in its answer: GetNodeInfo      *)
(* finds the node and its keys, GetTopics its topics, GetTopicInfo its     *)
(* topic, whatever others register and withdraw between the reads.         *)
THEOREM AnswersAreThorough == Spec => []NothingMissed
<1>1. IndInv => NothingMissed
  <2> SUFFICES ASSUME IndInv, NEW t \in Threads, query[t] # Idle, query[t].pc = "reply"
               PROVE
      LET q      == query[t]
          always == during[t].always
      IN  /\ q.op = "GetNodeInfo" =>
               /\ q.name \in {r.name : r \in always} => q.success /\ q.node_info # {}
               /\ Keys(always, "publishes", q.name) \subseteq q.publishes
               /\ Keys(always, "subscribes", q.name) \subseteq q.subscribes
          /\ q.op = "GetTopics" =>
               {r.key.topic : r \in always} \subseteq {k.topic : k \in q.topics}
          /\ q.op = "GetTopicInfo" /\ ~q.success =>
               q.topic \notin {r.key.topic : r \in always}
    BY DEF NothingMissed, Replies
  <2>1. /\ Thorough(query[t], during[t].some, during[t].always)
        /\ during[t].always \in SUBSET Roles
    BY UnderWay
  <2>2. ASSUME query[t].op = "GetNodeInfo"
        PROVE  /\ query[t].name \in {r.name : r \in during[t].always} =>
                    query[t].success /\ query[t].node_info # {}
               /\ Keys(during[t].always, "publishes", query[t].name) \subseteq query[t].publishes
               /\ Keys(during[t].always, "subscribes", query[t].name) \subseteq query[t].subscribes
    <3>1. NodeFound(query[t], during[t].always)
      BY <2>1, <2>2 DEF Thorough
    <3>2. query[t].name \in {r.name : r \in during[t].always} =>
            query[t].success /\ query[t].node_info # {}
      BY <3>1 DEF NodeFound
    <3>3. ASSUME NEW k \in Keys(during[t].always, "publishes", query[t].name)
          PROVE  k \in query[t].publishes
      BY <2>1, <3>1, <3>3, KeysAre, RoleParts DEF NodeFound
    <3>4. ASSUME NEW k \in Keys(during[t].always, "subscribes", query[t].name)
          PROVE  k \in query[t].subscribes
      BY <2>1, <3>1, <3>4, KeysAre, RoleParts DEF NodeFound
    <3> QED BY <3>2, <3>3, <3>4
  <2>3. ASSUME query[t].op = "GetTopics", NEW r \in during[t].always
        PROVE  r.key.topic \in {k.topic : k \in query[t].topics}
    BY <2>1, <2>3 DEF Thorough, TopicListed, Ahead
  <2>4. ASSUME query[t].op = "GetTopicInfo", ~query[t].success, NEW r \in during[t].always
        PROVE  r.key.topic # query[t].topic
    BY <2>1, <2>4 DEF Thorough, TopicFound
  <2> QED BY <2>2, <2>3, <2>4
<1> QED BY <1>1, InductiveInvariant, PTL

(* While a topic is in use under one message type only, GetTopicInfo lists *)
(* every node that publishes or subscribes to it all the time: the bucket  *)
(* that a lookup takes is then the only one (find_if in                    *)
(* GetPublishersByTopic).                                                  *)
THEOREM TopicInfoIsComplete == Spec => []TopicInfoComplete
<1>1. IndInv => TopicInfoComplete
  <2> SUFFICES ASSUME IndInv, NEW t \in Threads, Replies(t, "GetTopicInfo"),
                      LET types == {r.key.msg_type : r \in
                                     {h \in during[t].some : h.key.topic = query[t].topic}}
                      IN  \A m1, m2 \in types : m1 = m2,
                      NEW r \in during[t].always, r.key.topic = query[t].topic
               PROVE  /\ r.role = "publishes" =>
                           r.name \in {i.node_name : i \in query[t].publishers}
                      /\ r.role = "subscribes" =>
                           r.name \in {i.node_name : i \in query[t].subscribers}
    BY DEF TopicInfoComplete
  <2>1. OneType(query[t], during[t].some)
    BY DEF OneType
  <2>2. TopicFound(query[t], during[t].some, during[t].always)
    BY UnderWay DEF Replies, Thorough
  <2> QED BY <2>1, <2>2 DEF TopicFound, Replies
<1> QED BY <1>1, InductiveInvariant, PTL
=============================================================================
