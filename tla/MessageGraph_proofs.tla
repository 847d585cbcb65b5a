------------------------ MODULE MessageGraph_proofs ------------------------
(***************************************************************************)
(* Proofs about the message graph for every set of names, addresses,       *)
(* topics and types.  The lemmas say what the map operations do to a       *)
(* bucket; the steps of the graph then preserve the four invariants, which *)
(* together are inductive.                                                 *)
(***************************************************************************)
EXTENDS MessageGraph, TLAPS

IndInv == TypeOK /\ IndexesAgree /\ EdgesExact /\ NothingLeftBehind

(* A name put into a map's bucket is in that bucket and in no other, the   *)
(* other names stay where they were (InsertIn, the operator[] of the       *)
(* index maps), and the map keeps its type.                                *)
LEMMA InsertInBucket ==
  ASSUME NEW index, IsMap(index, TopicKey, SUBSET Names),
         NEW k \in TopicKey, NEW name \in Names
  PROVE  /\ IsMap(InsertIn(index, k, name), TopicKey, SUBSET Names)
         /\ DOMAIN InsertIn(index, k, name) = DOMAIN index \cup {k}
         /\ \A x : Bucket(InsertIn(index, k, name), x) =
                     IF x = k THEN Bucket(index, k) \cup {name}
                              ELSE Bucket(index, x)
<1> DEFINE new == InsertIn(index, k, name)
<1>1. Bucket(index, k) \in SUBSET Names
  BY DEF IsMap, Bucket
<1>2. /\ DOMAIN new = DOMAIN index \cup {k}
      /\ \A x \in DOMAIN new :
           new[x] = IF x = k THEN Bucket(index, k) \cup {name} ELSE index[x]
      /\ new = [x \in DOMAIN new |-> new[x]]
  BY DEF InsertIn, Put
<1>3. \A x \in DOMAIN new : new[x] \in SUBSET Names
  BY <1>1, <1>2 DEF IsMap
<1>4. IsMap(new, TopicKey, SUBSET Names)
  BY <1>2, <1>3 DEF IsMap
<1>5. \A x : Bucket(new, x) = IF x = k THEN Bucket(index, k) \cup {name}
                                       ELSE Bucket(index, x)
  BY <1>2 DEF Bucket
<1> QED BY <1>2, <1>4, <1>5

(* A name erased from a bucket is in it no more, the other names stay, and *)
(* if no bucket was empty before then none is after.                       *)
LEMMA EraseFromBucket ==
  ASSUME NEW index, IsMap(index, TopicKey, SUBSET Names),
         NEW k \in TopicKey, NEW name \in Names
  PROVE  /\ IsMap(EraseFrom(index, k, name), TopicKey, SUBSET Names)
         /\ \A x : Bucket(EraseFrom(index, k, name), x) =
                     IF x = k THEN Bucket(index, k) \ {name}
                              ELSE Bucket(index, x)
         /\ (\A x \in DOMAIN index : index[x] # {}) =>
              \A x \in DOMAIN EraseFrom(index, k, name) :
                 EraseFrom(index, k, name)[x] # {}
<1> DEFINE rest == [x \in DOMAIN index |->
                      IF x = k THEN index[x] \ {name} ELSE index[x]]
           new == EraseFrom(index, k, name)
<1>1. IsMap(rest, TopicKey, SUBSET Names)
  BY DEF IsMap
<1>2. \A x : Bucket(rest, x) = IF x = k THEN Bucket(index, k) \ {name}
                                        ELSE Bucket(index, x)
  BY DEF Bucket
<1>3. CASE Bucket(rest, k) = {}
  <2>1. new = [x \in DOMAIN rest \ {k} |-> rest[x]]
    BY <1>3 DEF EraseFrom, Restrict
  <2>2. IsMap(new, TopicKey, SUBSET Names)
    BY <1>1, <2>1 DEF IsMap
  <2>3. \A x : Bucket(new, x) = Bucket(rest, x)
    BY <1>3, <2>1 DEF Bucket
  <2>4. (\A x \in DOMAIN index : index[x] # {}) => \A x \in DOMAIN new : new[x] # {}
    BY <2>1
  <2> QED BY <1>2, <2>2, <2>3, <2>4
<1>4. CASE Bucket(rest, k) # {}
  <2>1. new = rest
    BY <1>4 DEF EraseFrom
  <2>2. (\A x \in DOMAIN index : index[x] # {}) => \A x \in DOMAIN new : new[x] # {}
    BY <1>4, <2>1 DEF Bucket
  <2> HIDE DEF rest
  <2> QED BY <1>1, <1>2, <2>1, <2>2
<1> QED BY <1>3, <1>4

-----------------------------------------------------------------------------
(* What each operation does to the vertices, seen as the two relations and *)
(* the contacts.                                                           *)

(* The vertex of a node that gives its contact keeps the topics it had, or *)
(* has none when it is new (UpsertNode).                                   *)
LEMMA UpsertNodeTopics ==
  ASSUME TypeOK, NEW node \in NodeInfo
  PROVE  /\ node.node_name \in Names
         /\ UpsertNode(node) \in NodeVertex
         /\ UpsertNode(node).info = node
         /\ UpsertNode(node).publishes = PublishesOf(node.node_name)
         /\ UpsertNode(node).subscribes = SubscribesOf(node.node_name)
BY DEF TypeOK, IsMap, NodeInfo, NodeVertex, UpsertNode, PublishesOf, SubscribesOf

(* AddPublisher adds one pair to the publications and sets one contact.    *)
LEMMA AddPublisherVertices ==
  ASSUME TypeOK, NEW node \in NodeInfo, NEW k \in TopicKey,
         AddPublisher(node, k)
  PROVE  /\ IsMap(nodes, Names, NodeVertex)'
         /\ DOMAIN nodes' = DOMAIN nodes \cup {node.node_name}
         /\ \A n \in DOMAIN nodes' :
              nodes'[n].info = IF n = node.node_name THEN node ELSE nodes[n].info
         /\ \A n : PublishesOf(n)' = IF n = node.node_name
                                    THEN PublishesOf(n) \cup {k} ELSE PublishesOf(n)
         /\ \A n : SubscribesOf(n)' = SubscribesOf(n)
<1> DEFINE name == node.node_name
           v    == [UpsertNode(node) EXCEPT !.publishes = @ \cup {k}]
<1>1. /\ name \in Names
      /\ v \in NodeVertex
      /\ v.info = node
      /\ v.publishes = PublishesOf(name) \cup {k}
      /\ v.subscribes = SubscribesOf(name)
  BY UpsertNodeTopics DEF NodeVertex
<1>2. nodes' = [n \in DOMAIN nodes \cup {name} |-> IF n = name THEN v ELSE nodes[n]]
  BY DEF AddPublisher, Put
<1> HIDE DEF v
<1>3. IsMap(nodes, Names, NodeVertex)'
  BY <1>1, <1>2 DEF TypeOK, IsMap
<1> QED BY <1>1, <1>2, <1>3 DEF PublishesOf, SubscribesOf

(* AddSubscriber adds one pair to the subscriptions and sets one contact.  *)
LEMMA AddSubscriberVertices ==
  ASSUME TypeOK, NEW node \in NodeInfo, NEW k \in TopicKey,
         AddSubscriber(node, k)
  PROVE  /\ IsMap(nodes, Names, NodeVertex)'
         /\ DOMAIN nodes' = DOMAIN nodes \cup {node.node_name}
         /\ \A n \in DOMAIN nodes' :
              nodes'[n].info = IF n = node.node_name THEN node ELSE nodes[n].info
         /\ \A n : PublishesOf(n)' = PublishesOf(n)
         /\ \A n : SubscribesOf(n)' = IF n = node.node_name
                                     THEN SubscribesOf(n) \cup {k} ELSE SubscribesOf(n)
<1> DEFINE name == node.node_name
           v    == [UpsertNode(node) EXCEPT !.subscribes = @ \cup {k}]
<1>1. /\ name \in Names
      /\ v \in NodeVertex
      /\ v.info = node
      /\ v.publishes = PublishesOf(name)
      /\ v.subscribes = SubscribesOf(name) \cup {k}
  BY UpsertNodeTopics DEF NodeVertex
<1>2. nodes' = [n \in DOMAIN nodes \cup {name} |-> IF n = name THEN v ELSE nodes[n]]
  BY DEF AddSubscriber, Put
<1> HIDE DEF v
<1>3. IsMap(nodes, Names, NodeVertex)'
  BY <1>1, <1>2 DEF TypeOK, IsMap
<1> QED BY <1>1, <1>2, <1>3 DEF PublishesOf, SubscribesOf

(* The clean-up drops at most one vertex, and only one without topics, so  *)
(* the relations do not notice it (CleanupIsolatedNodeIfAny).              *)
LEMMA CleanupVertices ==
  ASSUME NEW vertices, IsMap(vertices, Names, NodeVertex), NEW es, NEW name
  PROVE  LET kept == CleanupIsolatedNodeIfAny(vertices, es, name) IN
         /\ IsMap(kept, Names, NodeVertex)
         /\ DOMAIN kept \subseteq DOMAIN vertices
         /\ DOMAIN vertices \subseteq DOMAIN kept \cup {name}
         /\ \A n \in DOMAIN kept : kept[n] = vertices[n]
         /\ name \in DOMAIN vertices \ DOMAIN kept =>
              vertices[name].publishes = {} /\ vertices[name].subscribes = {}
         /\ name \in DOMAIN kept =>
              \/ vertices[name].publishes # {}
              \/ vertices[name].subscribes # {}
              \/ \E e \in es : name \in {e.src_node, e.dst_node}
<1> DEFINE kept == CleanupIsolatedNodeIfAny(vertices, es, name)
           isolated == /\ name \in DOMAIN vertices
                       /\ vertices[name].publishes = {}
                       /\ vertices[name].subscribes = {}
                       /\ \A e \in es : name \notin {e.src_node, e.dst_node}
<1>1. CASE isolated
  <2>1. kept = [n \in DOMAIN vertices \ {name} |-> vertices[n]]
    BY <1>1 DEF CleanupIsolatedNodeIfAny, Restrict
  <2>2. IsMap(kept, Names, NodeVertex)
    BY <2>1 DEF IsMap
  <2> QED BY <1>1, <2>1, <2>2
<1>2. CASE ~isolated
  <2>1. kept = vertices
    BY <1>2 DEF CleanupIsolatedNodeIfAny
  <2> QED BY <1>2, <2>1
<1> QED BY <1>1, <1>2

(* RemovePublisher takes one pair from the publications, keeps every contact, *)
(* and leaves a vertex without topics only where an edge touches it.       *)
LEMMA RemovePublisherVertices ==
  ASSUME TypeOK, NEW node \in NodeInfo, NEW k \in TopicKey,
         RemovePublisher(node, k)
  PROVE  /\ IsMap(nodes, Names, NodeVertex)'
         /\ DOMAIN nodes' \subseteq DOMAIN nodes
         /\ \A n \in DOMAIN nodes' : nodes'[n].info = nodes[n].info
         /\ DOMAIN nodes \subseteq DOMAIN nodes' \cup {node.node_name}
         /\ \A n : PublishesOf(n)' = IF n = node.node_name
                                   THEN PublishesOf(n) \ {k} ELSE PublishesOf(n)
         /\ \A n : SubscribesOf(n)' = SubscribesOf(n)
         /\ node.node_name \in DOMAIN nodes' =>
              \/ PublishesOf(node.node_name)' # {}
              \/ SubscribesOf(node.node_name)' # {}
              \/ \E e \in edges' : node.node_name \in {e.src_node, e.dst_node}
<1> DEFINE name == node.node_name
           vertices == [n \in DOMAIN nodes |->
                          IF n = name THEN [nodes[n] EXCEPT !.publishes = @ \ {k}]
                                      ELSE nodes[n]]
<1>1. /\ IsMap(nodes, Names, NodeVertex)
      /\ DOMAIN vertices = DOMAIN nodes
      /\ nodes' = CleanupIsolatedNodeIfAny(vertices, edges', name)
  BY DEF TypeOK, RemovePublisher
<1>2. ASSUME NEW n \in DOMAIN nodes
      PROVE  /\ vertices[n] \in NodeVertex
             /\ vertices[n].info = nodes[n].info
             /\ vertices[n].publishes = IF n = name THEN nodes[n].publishes \ {k}
                                                 ELSE nodes[n].publishes
             /\ vertices[n].subscribes = nodes[n].subscribes
  <2>1. nodes[n] \in NodeVertex
    BY <1>1 DEF IsMap
  <2> QED BY <2>1 DEF NodeVertex
<1>3. IsMap(vertices, Names, NodeVertex)
  BY <1>1, <1>2 DEF IsMap
<1> HIDE DEF vertices
<1>4. /\ IsMap(nodes, Names, NodeVertex)'
      /\ DOMAIN nodes' \subseteq DOMAIN vertices
      /\ DOMAIN vertices \subseteq DOMAIN nodes' \cup {name}
      /\ \A n \in DOMAIN nodes' : nodes'[n] = vertices[n]
      /\ name \in DOMAIN vertices \ DOMAIN nodes' =>
           vertices[name].publishes = {} /\ vertices[name].subscribes = {}
      /\ name \in DOMAIN nodes' =>
           \/ vertices[name].publishes # {}
           \/ vertices[name].subscribes # {}
           \/ \E e \in edges' : name \in {e.src_node, e.dst_node}
  <2>1. IsMap(CleanupIsolatedNodeIfAny(vertices, edges', name), Names, NodeVertex)
    BY <1>3, CleanupVertices
  <2>2. IsMap(nodes, Names, NodeVertex)'
    BY <1>1, <2>1 DEF IsMap, NodeVertex, NodeInfo, TopicKey
  <2> QED BY <1>1, <1>3, <2>2, CleanupVertices
<1>5. \A n : PublishesOf(n)' = IF n = node.node_name
                                   THEN PublishesOf(n) \ {k} ELSE PublishesOf(n)
  BY <1>1, <1>2, <1>4, ZenonT(40) DEF PublishesOf
<1>6. \A n : SubscribesOf(n)' = SubscribesOf(n)
  BY <1>1, <1>2, <1>4, ZenonT(40) DEF SubscribesOf
<1>7. name \in DOMAIN nodes' =>
        \/ PublishesOf(name)' # {}
        \/ SubscribesOf(name)' # {}
        \/ \E e \in edges' : name \in {e.src_node, e.dst_node}
  BY <1>4 DEF PublishesOf, SubscribesOf
<1> QED BY <1>1, <1>2, <1>4, <1>5, <1>6, <1>7, ZenonT(40)

(* RemoveSubscriber takes one pair from the subscriptions, keeps every contact, *)
(* and leaves a vertex without topics only where an edge touches it.       *)
LEMMA RemoveSubscriberVertices ==
  ASSUME TypeOK, NEW node \in NodeInfo, NEW k \in TopicKey,
         RemoveSubscriber(node, k)
  PROVE  /\ IsMap(nodes, Names, NodeVertex)'
         /\ DOMAIN nodes' \subseteq DOMAIN nodes
         /\ \A n \in DOMAIN nodes' : nodes'[n].info = nodes[n].info
         /\ DOMAIN nodes \subseteq DOMAIN nodes' \cup {node.node_name}
         /\ \A n : PublishesOf(n)' = PublishesOf(n)
         /\ \A n : SubscribesOf(n)' = IF n = node.node_name
                                   THEN SubscribesOf(n) \ {k} ELSE SubscribesOf(n)
         /\ node.node_name \in DOMAIN nodes' =>
              \/ PublishesOf(node.node_name)' # {}
              \/ SubscribesOf(node.node_name)' # {}
              \/ \E e \in edges' : node.node_name \in {e.src_node, e.dst_node}
<1> DEFINE name == node.node_name
           vertices == [n \in DOMAIN nodes |->
                          IF n = name THEN [nodes[n] EXCEPT !.subscribes = @ \ {k}]
                                      ELSE nodes[n]]
<1>1. /\ IsMap(nodes, Names, NodeVertex)
      /\ DOMAIN vertices = DOMAIN nodes
      /\ nodes' = CleanupIsolatedNodeIfAny(vertices, edges', name)
  BY DEF TypeOK, RemoveSubscriber
<1>2. ASSUME NEW n \in DOMAIN nodes
      PROVE  /\ vertices[n] \in NodeVertex
             /\ vertices[n].info = nodes[n].info
             /\ vertices[n].subscribes = IF n = name THEN nodes[n].subscribes \ {k}
                                                 ELSE nodes[n].subscribes
             /\ vertices[n].publishes = nodes[n].publishes
  <2>1. nodes[n] \in NodeVertex
    BY <1>1 DEF IsMap
  <2> QED BY <2>1 DEF NodeVertex
<1>3. IsMap(vertices, Names, NodeVertex)
  BY <1>1, <1>2 DEF IsMap
<1> HIDE DEF vertices
<1>4. /\ IsMap(nodes, Names, NodeVertex)'
      /\ DOMAIN nodes' \subseteq DOMAIN vertices
      /\ DOMAIN vertices \subseteq DOMAIN nodes' \cup {name}
      /\ \A n \in DOMAIN nodes' : nodes'[n] = vertices[n]
      /\ name \in DOMAIN vertices \ DOMAIN nodes' =>
           vertices[name].publishes = {} /\ vertices[name].subscribes = {}
      /\ name \in DOMAIN nodes' =>
           \/ vertices[name].publishes # {}
           \/ vertices[name].subscribes # {}
           \/ \E e \in edges' : name \in {e.src_node, e.dst_node}
  <2>1. IsMap(CleanupIsolatedNodeIfAny(vertices, edges', name), Names, NodeVertex)
    BY <1>3, CleanupVertices
  <2>2. IsMap(nodes, Names, NodeVertex)'
    BY <1>1, <2>1 DEF IsMap, NodeVertex, NodeInfo, TopicKey
  <2> QED BY <1>1, <1>3, <2>2, CleanupVertices
<1>5. \A n : PublishesOf(n)' = PublishesOf(n)
  BY <1>1, <1>2, <1>4, ZenonT(40) DEF PublishesOf
<1>6. \A n : SubscribesOf(n)' = IF n = node.node_name
                                   THEN SubscribesOf(n) \ {k} ELSE SubscribesOf(n)
  BY <1>1, <1>2, <1>4 DEF SubscribesOf
<1>7. name \in DOMAIN nodes' =>
        \/ PublishesOf(name)' # {}
        \/ SubscribesOf(name)' # {}
        \/ \E e \in edges' : name \in {e.src_node, e.dst_node}
  BY <1>4 DEF PublishesOf, SubscribesOf
<1> QED BY <1>1, <1>2, <1>4, <1>5, <1>6, <1>7, ZenonT(40)

-----------------------------------------------------------------------------
(* Each operation preserves the inductive invariant.                       *)

(* AddPublisher preserves the inductive invariant: vertex, bucket and edges   *)
(* gain the same pair.                                                     *)
LEMMA AddPublisherInductive ==
  ASSUME IndInv, NEW node \in NodeInfo, NEW k \in TopicKey,
         AddPublisher(node, k)
  PROVE  IndInv'
<1> DEFINE name == node.node_name
<1>1. name \in Names
  BY DEF NodeInfo
<1>2. /\ IsMap(nodes, Names, NodeVertex)'
      /\ DOMAIN nodes' = DOMAIN nodes \cup {name}
      /\ \A n \in DOMAIN nodes' :
           nodes'[n].info = IF n = name THEN node ELSE nodes[n].info
      /\ \A n : PublishesOf(n)' = IF n = name
                                 THEN PublishesOf(n) \cup {k} ELSE PublishesOf(n)
      /\ \A n : SubscribesOf(n)' = SubscribesOf(n)
  BY AddPublisherVertices DEF IndInv
<1>3. /\ IsMap(publishers_by_topic, TopicKey, SUBSET Names)'
      /\ DOMAIN publishers_by_topic' = DOMAIN publishers_by_topic \cup {k}
      /\ \A x : Bucket(publishers_by_topic, x)' =
                  IF x = k THEN Bucket(publishers_by_topic, k) \cup {name}
                           ELSE Bucket(publishers_by_topic, x)
  <2>1. IsMap(publishers_by_topic, TopicKey, SUBSET Names)
    BY DEF IndInv, TypeOK
  <2>2. publishers_by_topic' = InsertIn(publishers_by_topic, k, name)
    BY DEF AddPublisher
  <2>3. /\ IsMap(InsertIn(publishers_by_topic, k, name), TopicKey, SUBSET Names)
        /\ DOMAIN InsertIn(publishers_by_topic, k, name) = DOMAIN publishers_by_topic \cup {k}
        /\ \A x : Bucket(InsertIn(publishers_by_topic, k, name), x) =
                    IF x = k THEN Bucket(publishers_by_topic, k) \cup {name}
                             ELSE Bucket(publishers_by_topic, x)
    BY <1>1, <2>1, InsertInBucket
  <2> QED BY <2>2, <2>3 DEF IsMap, Bucket
<1>4. /\ subscribers_by_topic' = subscribers_by_topic
      /\ \A x : Bucket(subscribers_by_topic, x)' = Bucket(subscribers_by_topic, x)
  BY DEF AddPublisher, Bucket
<1>5. edges' = edges \cup {[src_node |-> name, dst_node |-> x, key |-> k] :
                             x \in Bucket(subscribers_by_topic, k)}
  BY DEF AddPublisher, ConnectPublisherToSubscribers
<1>6. Bucket(subscribers_by_topic, k) \subseteq Names
  BY DEF IndInv, TypeOK, IsMap, Bucket
<1>7. TypeOK'
  <2>1. \A n \in DOMAIN nodes' : nodes'[n].info.node_name = n
    BY <1>2 DEF IndInv, TypeOK
  <2>2. edges' \subseteq Edge
    BY <1>1, <1>5, <1>6 DEF IndInv, TypeOK, Edge
  <2>3. IsMap(subscribers_by_topic, TopicKey, SUBSET Names)'
    BY <1>4 DEF IndInv, TypeOK, IsMap
  <2> QED BY <1>2, <1>3, <2>1, <2>2, <2>3 DEF TypeOK
<1>8. IndexesAgree'
  BY <1>2, <1>3, <1>4 DEF IndInv, IndexesAgree
<1>9. EdgesExact'
  <2> DEFINE Matches(e) == /\ e.src_node \in Bucket(publishers_by_topic, e.key)
                           /\ e.dst_node \in Bucket(subscribers_by_topic, e.key)
  <2>1. ASSUME NEW e \in Edge
        PROVE  e \in edges' <=> Matches(e)'
    <3>1. e \in edges <=> Matches(e)
      BY DEF IndInv, EdgesExact
    <3>2. e \in edges' <=> \/ e \in edges
                           \/ e.src_node = name /\ e.key = k
                              /\ e.dst_node \in Bucket(subscribers_by_topic, k)
      BY <1>5 DEF Edge
    <3> QED BY <3>1, <3>2, <1>3, <1>4
  <2> QED BY <1>7, <2>1 DEF EdgesExact, TypeOK
<1>10. NothingLeftBehind'
  <2>1. \A n \in DOMAIN nodes' : (PublishesOf(n) \cup SubscribesOf(n))' # {}
    BY <1>2 DEF IndInv, NothingLeftBehind
  <2>2. \A x \in DOMAIN publishers_by_topic' : publishers_by_topic'[x] # {}
    <3>1. ASSUME NEW x \in DOMAIN publishers_by_topic'
          PROVE  Bucket(publishers_by_topic, x)' # {}
      BY <1>3 DEF IndInv, NothingLeftBehind, Bucket
    <3> QED BY <3>1 DEF Bucket
  <2> QED BY <1>4, <2>1, <2>2 DEF IndInv, NothingLeftBehind
<1> QED BY <1>7, <1>8, <1>9, <1>10 DEF IndInv

(* AddSubscriber preserves the inductive invariant: vertex, bucket and edges   *)
(* gain the same pair.                                                     *)
LEMMA AddSubscriberInductive ==
  ASSUME IndInv, NEW node \in NodeInfo, NEW k \in TopicKey,
         AddSubscriber(node, k)
  PROVE  IndInv'
<1> DEFINE name == node.node_name
<1>1. name \in Names
  BY DEF NodeInfo
<1>2. /\ IsMap(nodes, Names, NodeVertex)'
      /\ DOMAIN nodes' = DOMAIN nodes \cup {name}
      /\ \A n \in DOMAIN nodes' :
           nodes'[n].info = IF n = name THEN node ELSE nodes[n].info
      /\ \A n : SubscribesOf(n)' = IF n = name
                                 THEN SubscribesOf(n) \cup {k} ELSE SubscribesOf(n)
      /\ \A n : PublishesOf(n)' = PublishesOf(n)
  BY AddSubscriberVertices DEF IndInv
<1>3. /\ IsMap(subscribers_by_topic, TopicKey, SUBSET Names)'
      /\ DOMAIN subscribers_by_topic' = DOMAIN subscribers_by_topic \cup {k}
      /\ \A x : Bucket(subscribers_by_topic, x)' =
                  IF x = k THEN Bucket(subscribers_by_topic, k) \cup {name}
                           ELSE Bucket(subscribers_by_topic, x)
  <2>1. IsMap(subscribers_by_topic, TopicKey, SUBSET Names)
    BY DEF IndInv, TypeOK
  <2>2. subscribers_by_topic' = InsertIn(subscribers_by_topic, k, name)
    BY DEF AddSubscriber
  <2>3. /\ IsMap(InsertIn(subscribers_by_topic, k, name), TopicKey, SUBSET Names)
        /\ DOMAIN InsertIn(subscribers_by_topic, k, name) = DOMAIN subscribers_by_topic \cup {k}
        /\ \A x : Bucket(InsertIn(subscribers_by_topic, k, name), x) =
                    IF x = k THEN Bucket(subscribers_by_topic, k) \cup {name}
                             ELSE Bucket(subscribers_by_topic, x)
    BY <1>1, <2>1, InsertInBucket
  <2> QED BY <2>2, <2>3 DEF IsMap, Bucket
<1>4. /\ publishers_by_topic' = publishers_by_topic
      /\ \A x : Bucket(publishers_by_topic, x)' = Bucket(publishers_by_topic, x)
  BY DEF AddSubscriber, Bucket
<1>5. edges' = edges \cup {[dst_node |-> name, src_node |-> x, key |-> k] :
                             x \in Bucket(publishers_by_topic, k)}
  BY DEF AddSubscriber, ConnectPublishersToSubscriber
<1>6. Bucket(publishers_by_topic, k) \subseteq Names
  BY DEF IndInv, TypeOK, IsMap, Bucket
<1>7. TypeOK'
  <2>1. \A n \in DOMAIN nodes' : nodes'[n].info.node_name = n
    BY <1>2 DEF IndInv, TypeOK
  <2>2. edges' \subseteq Edge
    BY <1>1, <1>5, <1>6 DEF IndInv, TypeOK, Edge
  <2>3. IsMap(publishers_by_topic, TopicKey, SUBSET Names)'
    BY <1>4 DEF IndInv, TypeOK, IsMap
  <2> QED BY <1>2, <1>3, <2>1, <2>2, <2>3 DEF TypeOK
<1>8. IndexesAgree'
  BY <1>2, <1>3, <1>4 DEF IndInv, IndexesAgree
<1>9. EdgesExact'
  <2> DEFINE Matches(e) == /\ e.src_node \in Bucket(publishers_by_topic, e.key)
                           /\ e.dst_node \in Bucket(subscribers_by_topic, e.key)
  <2>1. ASSUME NEW e \in Edge
        PROVE  e \in edges' <=> Matches(e)'
    <3>1. e \in edges <=> Matches(e)
      BY DEF IndInv, EdgesExact
    <3>2. e \in edges' <=> \/ e \in edges
                           \/ e.dst_node = name /\ e.key = k
                              /\ e.src_node \in Bucket(publishers_by_topic, k)
      BY <1>5 DEF Edge
    <3> QED BY <3>1, <3>2, <1>3, <1>4
  <2> QED BY <1>7, <2>1 DEF EdgesExact, TypeOK
<1>10. NothingLeftBehind'
  <2>1. \A n \in DOMAIN nodes' : (PublishesOf(n) \cup SubscribesOf(n))' # {}
    BY <1>2 DEF IndInv, NothingLeftBehind
  <2>2. \A x \in DOMAIN subscribers_by_topic' : subscribers_by_topic'[x] # {}
    <3>1. ASSUME NEW x \in DOMAIN subscribers_by_topic'
          PROVE  Bucket(subscribers_by_topic, x)' # {}
      BY <1>3 DEF IndInv, NothingLeftBehind, Bucket
    <3> QED BY <3>1 DEF Bucket
  <2> QED BY <1>4, <2>1, <2>2 DEF IndInv, NothingLeftBehind
<1> QED BY <1>7, <1>8, <1>9, <1>10 DEF IndInv

(* RemovePublisher preserves the inductive invariant: vertex, bucket and      *)
(* edges lose the same pair, and what becomes empty is dropped.            *)
LEMMA RemovePublisherInductive ==
  ASSUME IndInv, NEW node \in NodeInfo, NEW k \in TopicKey,
         RemovePublisher(node, k)
  PROVE  IndInv'
<1> DEFINE name == node.node_name
<1>1. name \in Names
  BY DEF NodeInfo
<1>2. /\ IsMap(nodes, Names, NodeVertex)'
      /\ DOMAIN nodes' \subseteq DOMAIN nodes
      /\ \A n \in DOMAIN nodes' : nodes'[n].info = nodes[n].info
      /\ \A n : PublishesOf(n)' = IF n = name
                                 THEN PublishesOf(n) \ {k} ELSE PublishesOf(n)
      /\ \A n : SubscribesOf(n)' = SubscribesOf(n)
      /\ name \in DOMAIN nodes' =>
           \/ PublishesOf(name)' # {}
           \/ SubscribesOf(name)' # {}
           \/ \E e \in edges' : name \in {e.src_node, e.dst_node}
  BY RemovePublisherVertices DEF IndInv
<1>3. /\ IsMap(publishers_by_topic, TopicKey, SUBSET Names)'
      /\ \A x : Bucket(publishers_by_topic, x)' =
                  IF x = k THEN Bucket(publishers_by_topic, k) \ {name}
                           ELSE Bucket(publishers_by_topic, x)
      /\ \A x \in DOMAIN publishers_by_topic' : publishers_by_topic'[x] # {}
  <2>1. /\ IsMap(publishers_by_topic, TopicKey, SUBSET Names)
        /\ \A x \in DOMAIN publishers_by_topic : publishers_by_topic[x] # {}
    BY DEF IndInv, TypeOK, NothingLeftBehind
  <2>2. publishers_by_topic' = EraseFrom(publishers_by_topic, k, name)
    BY DEF RemovePublisher
  <2>3. /\ IsMap(EraseFrom(publishers_by_topic, k, name), TopicKey, SUBSET Names)
        /\ \A x : Bucket(EraseFrom(publishers_by_topic, k, name), x) =
                    IF x = k THEN Bucket(publishers_by_topic, k) \ {name}
                             ELSE Bucket(publishers_by_topic, x)
        /\ \A x \in DOMAIN EraseFrom(publishers_by_topic, k, name) :
             EraseFrom(publishers_by_topic, k, name)[x] # {}
    BY <1>1, <2>1, EraseFromBucket, ZenonT(40)
  <2> QED BY <2>2, <2>3 DEF IsMap, Bucket
<1>4. /\ subscribers_by_topic' = subscribers_by_topic
      /\ \A x : Bucket(subscribers_by_topic, x)' = Bucket(subscribers_by_topic, x)
  BY DEF RemovePublisher, Bucket
<1>5. edges' = {e \in edges : ~(e.key = k /\ e.src_node = name)}
  BY DEF RemovePublisher, RemoveEdgesBy
<1>6. TypeOK'
  <2>1. \A n \in DOMAIN nodes' : nodes'[n].info.node_name = n
    BY <1>2 DEF IndInv, TypeOK
  <2>2. edges' \subseteq Edge
    BY <1>5 DEF IndInv, TypeOK
  <2>3. IsMap(subscribers_by_topic, TopicKey, SUBSET Names)'
    BY <1>4 DEF IndInv, TypeOK, IsMap
  <2> QED BY <1>2, <1>3, <2>1, <2>2, <2>3 DEF TypeOK
<1>7. IndexesAgree'
  BY <1>2, <1>3, <1>4 DEF IndInv, IndexesAgree
<1>8. EdgesExact'
  <2> DEFINE Matches(e) == /\ e.src_node \in Bucket(publishers_by_topic, e.key)
                           /\ e.dst_node \in Bucket(subscribers_by_topic, e.key)
  <2>1. ASSUME NEW e \in Edge
        PROVE  e \in edges' <=> Matches(e)'
    <3>1. e \in edges <=> Matches(e)
      BY DEF IndInv, EdgesExact
    <3> QED BY <3>1, <1>3, <1>4, <1>5
  <2> QED BY <1>6, <2>1 DEF EdgesExact, TypeOK
<1>9. NothingLeftBehind'
  <2>1. ASSUME NEW n \in DOMAIN nodes'
        PROVE  (PublishesOf(n) \cup SubscribesOf(n))' # {}
    <3>1. CASE n # name
      BY <1>2, <3>1 DEF IndInv, NothingLeftBehind
    <3>2. CASE n = name
      <4>1. ASSUME NEW e \in edges', name \in {e.src_node, e.dst_node}
            PROVE  e.key \in (PublishesOf(name) \cup SubscribesOf(name))'
        BY <1>1, <1>6, <1>7, <1>8, <4>1 DEF TypeOK, Edge, EdgesExact, IndexesAgree
      <4> QED BY <1>2, <3>2, <4>1
    <3> QED BY <3>1, <3>2
  <2> QED BY <1>3, <1>4, <2>1 DEF IndInv, NothingLeftBehind
<1> QED BY <1>6, <1>7, <1>8, <1>9 DEF IndInv

(* RemoveSubscriber preserves the inductive invariant: vertex, bucket and      *)
(* edges lose the same pair, and what becomes empty is dropped.            *)
LEMMA RemoveSubscriberInductive ==
  ASSUME IndInv, NEW node \in NodeInfo, NEW k \in TopicKey,
         RemoveSubscriber(node, k)
  PROVE  IndInv'
<1> DEFINE name == node.node_name
<1>1. name \in Names
  BY DEF NodeInfo
<1>2. /\ IsMap(nodes, Names, NodeVertex)'
      /\ DOMAIN nodes' \subseteq DOMAIN nodes
      /\ \A n \in DOMAIN nodes' : nodes'[n].info = nodes[n].info
      /\ \A n : SubscribesOf(n)' = IF n = name
                                 THEN SubscribesOf(n) \ {k} ELSE SubscribesOf(n)
      /\ \A n : PublishesOf(n)' = PublishesOf(n)
      /\ name \in DOMAIN nodes' =>
           \/ PublishesOf(name)' # {}
           \/ SubscribesOf(name)' # {}
           \/ \E e \in edges' : name \in {e.src_node, e.dst_node}
  BY RemoveSubscriberVertices DEF IndInv
<1>3. /\ IsMap(subscribers_by_topic, TopicKey, SUBSET Names)'
      /\ \A x : Bucket(subscribers_by_topic, x)' =
                  IF x = k THEN Bucket(subscribers_by_topic, k) \ {name}
                           ELSE Bucket(subscribers_by_topic, x)
      /\ \A x \in DOMAIN subscribers_by_topic' : subscribers_by_topic'[x] # {}
  <2>1. /\ IsMap(subscribers_by_topic, TopicKey, SUBSET Names)
        /\ \A x \in DOMAIN subscribers_by_topic : subscribers_by_topic[x] # {}
    BY DEF IndInv, TypeOK, NothingLeftBehind
  <2>2. subscribers_by_topic' = EraseFrom(subscribers_by_topic, k, name)
    BY DEF RemoveSubscriber
  <2>3. /\ IsMap(EraseFrom(subscribers_by_topic, k, name), TopicKey, SUBSET Names)
        /\ \A x : Bucket(EraseFrom(subscribers_by_topic, k, name), x) =
                    IF x = k THEN Bucket(subscribers_by_topic, k) \ {name}
                             ELSE Bucket(subscribers_by_topic, x)
        /\ \A x \in DOMAIN EraseFrom(subscribers_by_topic, k, name) :
             EraseFrom(subscribers_by_topic, k, name)[x] # {}
    BY <1>1, <2>1, EraseFromBucket, ZenonT(40)
  <2> QED BY <2>2, <2>3 DEF IsMap, Bucket
<1>4. /\ publishers_by_topic' = publishers_by_topic
      /\ \A x : Bucket(publishers_by_topic, x)' = Bucket(publishers_by_topic, x)
  BY DEF RemoveSubscriber, Bucket
<1>5. edges' = {e \in edges : ~(e.key = k /\ e.dst_node = name)}
  BY DEF RemoveSubscriber, RemoveEdgesBy
<1>6. TypeOK'
  <2>1. \A n \in DOMAIN nodes' : nodes'[n].info.node_name = n
    BY <1>2 DEF IndInv, TypeOK
  <2>2. edges' \subseteq Edge
    BY <1>5 DEF IndInv, TypeOK
  <2>3. IsMap(publishers_by_topic, TopicKey, SUBSET Names)'
    BY <1>4 DEF IndInv, TypeOK, IsMap
  <2> QED BY <1>2, <1>3, <2>1, <2>2, <2>3 DEF TypeOK
<1>7. IndexesAgree'
  BY <1>2, <1>3, <1>4 DEF IndInv, IndexesAgree
<1>8. EdgesExact'
  <2> DEFINE Matches(e) == /\ e.src_node \in Bucket(publishers_by_topic, e.key)
                           /\ e.dst_node \in Bucket(subscribers_by_topic, e.key)
  <2>1. ASSUME NEW e \in Edge
        PROVE  e \in edges' <=> Matches(e)'
    <3>1. e \in edges <=> Matches(e)
      BY DEF IndInv, EdgesExact
    <3> QED BY <3>1, <1>3, <1>4, <1>5
  <2> QED BY <1>6, <2>1 DEF EdgesExact, TypeOK
<1>9. NothingLeftBehind'
  <2>1. ASSUME NEW n \in DOMAIN nodes'
        PROVE  (PublishesOf(n) \cup SubscribesOf(n))' # {}
    <3>1. CASE n # name
      BY <1>2, <3>1 DEF IndInv, NothingLeftBehind
    <3>2. CASE n = name
      <4>1. ASSUME NEW e \in edges', name \in {e.src_node, e.dst_node}
            PROVE  e.key \in (PublishesOf(name) \cup SubscribesOf(name))'
        BY <1>1, <1>6, <1>7, <1>8, <4>1 DEF TypeOK, Edge, EdgesExact, IndexesAgree
      <4> QED BY <1>2, <3>2, <4>1
    <3> QED BY <3>1, <3>2
  <2> QED BY <1>3, <1>4, <2>1 DEF IndInv, NothingLeftBehind
<1> QED BY <1>6, <1>7, <1>8, <1>9 DEF IndInv

-----------------------------------------------------------------------------
(* The theorems.                                                           *)

(* The empty graph satisfies the inductive invariant.                      *)
LEMMA InitInductive == Init => IndInv
<1> SUFFICES ASSUME Init PROVE IndInv
  OBVIOUS
<1>1. /\ DOMAIN nodes = {}
      /\ DOMAIN publishers_by_topic = {}
      /\ DOMAIN subscribers_by_topic = {}
      /\ edges = {}
  BY DEF Init, EmptyMap
<1>2. TypeOK
  BY <1>1 DEF Init, EmptyMap, TypeOK, IsMap
<1>3. IndexesAgree /\ EdgesExact /\ NothingLeftBehind
  BY <1>1 DEF IndexesAgree, EdgesExact, NothingLeftBehind,
              Bucket, PublishesOf, SubscribesOf
<1> QED BY <1>2, <1>3 DEF IndInv

(* Each of the four operations, and a stutter, preserves it.               *)
LEMMA StepInductive == IndInv /\ [Next]_graphVars => IndInv'
<1> SUFFICES ASSUME IndInv, [Next]_graphVars PROVE IndInv'
  OBVIOUS
<1>1. CASE UNCHANGED graphVars
  BY <1>1 DEF graphVars, IndInv, TypeOK, IsMap, IndexesAgree, EdgesExact,
              NothingLeftBehind, Bucket, PublishesOf, SubscribesOf
<1>2. ASSUME NEW node \in NodeInfo, NEW k \in TopicKey,
             \/ AddPublisher(node, k)    \/ AddSubscriber(node, k)
             \/ RemovePublisher(node, k) \/ RemoveSubscriber(node, k)
      PROVE  IndInv'
  <2>1. CASE AddPublisher(node, k)
    BY <2>1, AddPublisherInductive
  <2>2. CASE AddSubscriber(node, k)
    BY <2>2, AddSubscriberInductive
  <2>3. CASE RemovePublisher(node, k)
    BY <2>3, RemovePublisherInductive
  <2>4. CASE RemoveSubscriber(node, k)
    BY <2>4, RemoveSubscriberInductive
  <2> QED BY <1>2, <2>1, <2>2, <2>3, <2>4
<1> QED BY <1>1, <1>2 DEF Next

(* The inductive invariant holds in every state of the graph.              *)
LEMMA Inductive == Spec => []IndInv
BY InitInductive, StepInductive, PTL DEF Spec

(* Every state of the master's graph is well typed, and every vertex is    *)
(* stored under the name in its contact.                                   *)
THEOREM TypeCorrect == Spec => []TypeOK
<1>1. IndInv => TypeOK
  BY DEF IndInv
<1> QED BY <1>1, Inductive, PTL

(* The topic indexes and the vertices never disagree about who publishes   *)
(* or subscribes, whatever sequence of operations led there.               *)
THEOREM IndexesAlwaysAgree == Spec => []IndexesAgree
<1>1. IndInv => IndexesAgree
  BY DEF IndInv
<1> QED BY <1>1, Inductive, PTL

(* The edges are at all times exactly the matching pairs of publishers and *)
(* subscribers.                                                            *)
THEOREM EdgesAlwaysExact == Spec => []EdgesExact
<1>1. IndInv => EdgesExact
  BY DEF IndInv
<1> QED BY <1>1, Inductive, PTL

(* No vertex without topics and no empty bucket survives an operation.     *)
THEOREM CleanupComplete == Spec => []NothingLeftBehind
<1>1. IndInv => NothingLeftBehind
  BY DEF IndInv
<1> QED BY <1>1, Inductive, PTL

-----------------------------------------------------------------------------
(* Refinement.  The relations as the registry sees them.                   *)

Publications  == {np \in Names \X TopicKey : np[2] \in PublishesOf(np[1])}
Subscriptions == {np \in Names \X TopicKey : np[2] \in SubscribesOf(np[1])}
Directory     == [n \in DOMAIN nodes |-> nodes[n].info]

(* The edges are the join of the two relations: the indexes drop out.      *)
LEMMA EdgesAreJoin ==
  IndInv => edges = Registry!Join(Publications, Subscriptions)
<1> SUFFICES ASSUME IndInv
             PROVE  edges = Registry!Join(Publications, Subscriptions)
  OBVIOUS
<1> DEFINE flow(m) == [src_node |-> m[1][1], dst_node |-> m[2][1], key |-> m[1][2]]
<1>1. ASSUME NEW e \in edges
      PROVE  e \in Registry!Join(Publications, Subscriptions)
  <2>1. /\ e \in Edge
        /\ e.key \in PublishesOf(e.src_node)
        /\ e.key \in SubscribesOf(e.dst_node)
    BY DEF IndInv, EdgesExact, IndexesAgree, Edge
  <2> DEFINE p == <<e.src_node, e.key>>
             s == <<e.dst_node, e.key>>
  <2>2. p \in Publications /\ s \in Subscriptions
    BY <2>1 DEF Publications, Subscriptions, Edge
  <2>3. <<p, s>> \in {ps \in Publications \X Subscriptions : ps[1][2] = ps[2][2]}
    BY <2>2
  <2>4. e = flow(<<p, s>>)
    BY <2>1 DEF Edge
  <2> QED BY <2>3, <2>4 DEF Registry!Join
<1>2. ASSUME NEW m \in Publications \X Subscriptions, m[1][2] = m[2][2]
      PROVE  flow(m) \in edges
  <2>1. /\ m[1] \in Publications
        /\ m[2] \in Subscriptions
    OBVIOUS
  <2>2. /\ m[1][1] \in Names
        /\ m[1][2] \in TopicKey
        /\ m[2][1] \in Names
        /\ m[1][2] \in PublishesOf(m[1][1])
        /\ m[1][2] \in SubscribesOf(m[2][1])
    BY <2>1, <1>2 DEF Publications, Subscriptions
  <2>3. flow(m) \in Edge
    BY <2>2 DEF Edge
  <2> QED BY <2>2, <2>3 DEF IndInv, EdgesExact, IndexesAgree
<1> QED BY <1>1, <1>2 DEF Registry!Join

(* A node is in the directory exactly while it publishes or subscribes.    *)
LEMMA KnownAreVertices ==
  IndInv => Registry!Known(Publications, Subscriptions) = DOMAIN nodes
<1> SUFFICES ASSUME IndInv
             PROVE  Registry!Known(Publications, Subscriptions) = DOMAIN nodes
  OBVIOUS
<1>1. ASSUME NEW n \in DOMAIN nodes
      PROVE  n \in Registry!Known(Publications, Subscriptions)
  <2>1. PICK k : k \in PublishesOf(n) \cup SubscribesOf(n)
    BY DEF IndInv, NothingLeftBehind
  <2>2. n \in Names /\ k \in TopicKey
    BY <2>1 DEF IndInv, TypeOK, IsMap, NodeVertex, PublishesOf, SubscribesOf
  <2>3. <<n, k>> \in Publications \cup Subscriptions
    BY <2>1, <2>2 DEF Publications, Subscriptions
  <2> QED BY <2>3 DEF Registry!Known
<1>2. ASSUME NEW r \in Publications \cup Subscriptions
      PROVE  r[1] \in DOMAIN nodes
  BY DEF Publications, Subscriptions, PublishesOf, SubscribesOf
<1> QED BY <1>1, <1>2 DEF Registry!Known

(* A publisher added to the graph is one advertised in the registry.       *)
LEMMA AddPublisherRefines ==
  ASSUME IndInv, IndInv', NEW node \in NodeInfo, NEW k \in TopicKey,
         AddPublisher(node, k)
  PROVE  Registry!Advertise(node, k)
<1> DEFINE name == node.node_name
<1>1. name \in Names
  BY DEF NodeInfo
<1>2. /\ DOMAIN nodes' = DOMAIN nodes \cup {name}
      /\ \A n \in DOMAIN nodes' :
           nodes'[n].info = IF n = name THEN node ELSE nodes[n].info
      /\ \A n : PublishesOf(n)' = IF n = name
                                 THEN PublishesOf(n) \cup {k} ELSE PublishesOf(n)
      /\ \A n : SubscribesOf(n)' = SubscribesOf(n)
  BY AddPublisherVertices DEF IndInv
<1>3. Publications' = Publications \cup {<<name, k>>}
  BY <1>1, <1>2 DEF Publications
<1>4. Subscriptions' = Subscriptions
  BY <1>2 DEF Subscriptions
<1>5. Directory' = [n \in DOMAIN nodes' |->
                      IF n = name THEN node ELSE Directory[n]]
  BY <1>2 DEF Directory
<1>6. (Registry!Known(Publications, Subscriptions) = DOMAIN nodes)'
  BY KnownAreVertices, PTL
<1>7. (edges = Registry!Join(Publications, Subscriptions))'
  BY EdgesAreJoin, PTL
<1> QED BY <1>3, <1>4, <1>5, <1>6, <1>7
        DEF Registry!Advertise, Registry!Enroll, Registry!Recompute,
            Publications, Subscriptions, Directory

(* A subscriber added to the graph is one attached in the registry.        *)
LEMMA AddSubscriberRefines ==
  ASSUME IndInv, IndInv', NEW node \in NodeInfo, NEW k \in TopicKey,
         AddSubscriber(node, k)
  PROVE  Registry!Attach(node, k)
<1> DEFINE name == node.node_name
<1>1. name \in Names
  BY DEF NodeInfo
<1>2. /\ DOMAIN nodes' = DOMAIN nodes \cup {name}
      /\ \A n \in DOMAIN nodes' :
           nodes'[n].info = IF n = name THEN node ELSE nodes[n].info
      /\ \A n : SubscribesOf(n)' = IF n = name
                                 THEN SubscribesOf(n) \cup {k} ELSE SubscribesOf(n)
      /\ \A n : PublishesOf(n)' = PublishesOf(n)
  BY AddSubscriberVertices DEF IndInv
<1>3. Subscriptions' = Subscriptions \cup {<<name, k>>}
  BY <1>1, <1>2 DEF Subscriptions
<1>4. Publications' = Publications
  BY <1>2 DEF Publications
<1>5. Directory' = [n \in DOMAIN nodes' |->
                      IF n = name THEN node ELSE Directory[n]]
  BY <1>2 DEF Directory
<1>6. (Registry!Known(Publications, Subscriptions) = DOMAIN nodes)'
  BY KnownAreVertices, PTL
<1>7. (edges = Registry!Join(Publications, Subscriptions))'
  BY EdgesAreJoin, PTL
<1> QED BY <1>3, <1>4, <1>5, <1>6, <1>7
        DEF Registry!Attach, Registry!Enroll, Registry!Recompute,
            Publications, Subscriptions, Directory

(* A publisher removed from the graph is withdrawn from the registry.      *)
LEMMA RemovePublisherRefines ==
  ASSUME IndInv, IndInv', NEW node \in NodeInfo, NEW k \in TopicKey,
         RemovePublisher(node, k)
  PROVE  Registry!Withdraw(node, k)
<1> DEFINE name == node.node_name
<1>1. name \in Names
  BY DEF NodeInfo
<1>2. /\ DOMAIN nodes' \subseteq DOMAIN nodes
      /\ \A n \in DOMAIN nodes' : nodes'[n].info = nodes[n].info
      /\ \A n : PublishesOf(n)' = IF n = name
                                 THEN PublishesOf(n) \ {k} ELSE PublishesOf(n)
      /\ \A n : SubscribesOf(n)' = SubscribesOf(n)
  BY RemovePublisherVertices DEF IndInv
<1>3. Publications' = Publications \ {<<name, k>>}
  BY <1>1, <1>2 DEF Publications
<1>4. Subscriptions' = Subscriptions
  BY <1>2 DEF Subscriptions
<1>5. Directory' = [n \in DOMAIN nodes' |-> Directory[n]]
  BY <1>2 DEF Directory
<1>6. (Registry!Known(Publications, Subscriptions) = DOMAIN nodes)'
  BY KnownAreVertices, PTL
<1>7. (edges = Registry!Join(Publications, Subscriptions))'
  BY EdgesAreJoin, PTL
<1> QED BY <1>3, <1>4, <1>5, <1>6, <1>7
        DEF Registry!Withdraw, Registry!Forget, Registry!Recompute,
            Publications, Subscriptions, Directory

(* A subscriber removed from the graph is detached from the registry.      *)
LEMMA RemoveSubscriberRefines ==
  ASSUME IndInv, IndInv', NEW node \in NodeInfo, NEW k \in TopicKey,
         RemoveSubscriber(node, k)
  PROVE  Registry!Detach(node, k)
<1> DEFINE name == node.node_name
<1>1. name \in Names
  BY DEF NodeInfo
<1>2. /\ DOMAIN nodes' \subseteq DOMAIN nodes
      /\ \A n \in DOMAIN nodes' : nodes'[n].info = nodes[n].info
      /\ \A n : SubscribesOf(n)' = IF n = name
                                 THEN SubscribesOf(n) \ {k} ELSE SubscribesOf(n)
      /\ \A n : PublishesOf(n)' = PublishesOf(n)
  BY RemoveSubscriberVertices DEF IndInv
<1>3. Subscriptions' = Subscriptions \ {<<name, k>>}
  BY <1>1, <1>2 DEF Subscriptions
<1>4. Publications' = Publications
  BY <1>2 DEF Publications
<1>5. Directory' = [n \in DOMAIN nodes' |-> Directory[n]]
  BY <1>2 DEF Directory
<1>6. (Registry!Known(Publications, Subscriptions) = DOMAIN nodes)'
  BY KnownAreVertices, PTL
<1>7. (edges = Registry!Join(Publications, Subscriptions))'
  BY EdgesAreJoin, PTL
<1> QED BY <1>3, <1>4, <1>5, <1>6, <1>7
        DEF Registry!Detach, Registry!Forget, Registry!Recompute,
            Publications, Subscriptions, Directory

(* The empty graph is the empty registry.                                  *)
LEMMA InitRefines == Init => Registry!Init
<1> SUFFICES ASSUME Init PROVE Registry!Init
  OBVIOUS
<1>1. DOMAIN nodes = {} /\ edges = {}
  BY DEF Init, EmptyMap
<1> QED BY <1>1 DEF Registry!Init, PublishesOf, SubscribesOf

(* Each operation of the graph is one of the registry, or changes nothing. *)
LEMMA StepRefines ==
  IndInv /\ IndInv' /\ [Next]_graphVars => [Registry!Next]_(Registry!vars)
<1> SUFFICES ASSUME IndInv, IndInv', [Next]_graphVars
             PROVE  [Registry!Next]_(Registry!vars)
  OBVIOUS
<1>1. CASE UNCHANGED graphVars
  BY <1>1 DEF graphVars, Registry!vars, PublishesOf, SubscribesOf
<1>2. ASSUME NEW node \in NodeInfo, NEW k \in TopicKey,
             \/ AddPublisher(node, k)    \/ AddSubscriber(node, k)
             \/ RemovePublisher(node, k) \/ RemoveSubscriber(node, k)
      PROVE  Registry!Next
  <2>1. \/ Registry!Advertise(node, k) \/ Registry!Attach(node, k)
        \/ Registry!Withdraw(node, k)  \/ Registry!Detach(node, k)
    BY <1>2, AddPublisherRefines, AddSubscriberRefines,
       RemovePublisherRefines, RemoveSubscriberRefines
  <2> QED BY <2>1 DEF Registry!Next
<1> QED BY <1>1, <1>2 DEF Next

(* The graph implements the registry: whatever the order of registrations  *)
(* and withdrawals, what it stores is the two relations, the last contact  *)
(* of each registered node, and the join of the relations as its edges.    *)
THEOREM GraphImplementsRegistry == Spec => ImplementsRegistry
BY Inductive, InitRefines, StepRefines, PTL
   DEF Spec, ImplementsRegistry, Registry!Spec
=============================================================================
