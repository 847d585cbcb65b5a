----------------------- MODULE NodeRegistration_proofs -----------------------
(***************************************************************************)
(* Proofs about nodes and the master together, for every set of nodes,     *)
(* objects, topics and types and any number of failures: the master has    *)
(* what the objects of the nodes say, unless a failure disturbed it.       *)
(***************************************************************************)
EXTENDS NodeRegistration, TLAPS

GraphProofs == INSTANCE MessageGraph_proofs

Pub(name) == Graph!PublishesOf(name)
Sub(name) == Graph!SubscribesOf(name)

GraphInv == /\ Graph!TypeOK
            /\ Graph!IndexesAgree
            /\ Graph!EdgesExact
            /\ Graph!NothingLeftBehind

-----------------------------------------------------------------------------
(* The graph's theorems, for the graph of this master.                     *)

LEMMA SameSets ==
  /\ Graph!NodeInfo = GraphProofs!NodeInfo
  /\ TopicKey = GraphProofs!TopicKey
BY DEF TopicKey, Graph!NodeInfo, Graph!TopicKey,
       GraphProofs!NodeInfo, GraphProofs!TopicKey

LEMMA SameRoles ==
  /\ \A n : Pub(n) = GraphProofs!PublishesOf(n)
  /\ \A n : Sub(n) = GraphProofs!SubscribesOf(n)
  /\ \A n : Pub(n)' = GraphProofs!PublishesOf(n)'
  /\ \A n : Sub(n)' = GraphProofs!SubscribesOf(n)'
BY DEF Pub, Sub, Graph!PublishesOf, Graph!SubscribesOf,
       GraphProofs!PublishesOf, GraphProofs!SubscribesOf

LEMMA SameInvariant ==
  /\ GraphInv <=> GraphProofs!IndInv
  /\ GraphInv' <=> GraphProofs!IndInv'
<1> USE DEF Graph!IsMap, GraphProofs!IsMap,
            Graph!Bucket, GraphProofs!Bucket, Graph!TopicKey, GraphProofs!TopicKey
<1>1. /\ Graph!TypeOK <=> GraphProofs!TypeOK
      /\ Graph!TypeOK' <=> GraphProofs!TypeOK'
  BY DEF Graph!TypeOK, GraphProofs!TypeOK, Graph!NodeVertex, GraphProofs!NodeVertex,
         Graph!NodeInfo, GraphProofs!NodeInfo, Graph!Edge, GraphProofs!Edge
<1>2. /\ Graph!EdgesExact <=> GraphProofs!EdgesExact
      /\ Graph!EdgesExact' <=> GraphProofs!EdgesExact'
  BY DEF Graph!EdgesExact, GraphProofs!EdgesExact, Graph!Edge, GraphProofs!Edge
<1>3. /\ Graph!IndexesAgree <=> GraphProofs!IndexesAgree
      /\ Graph!IndexesAgree' <=> GraphProofs!IndexesAgree'
  BY DEF Graph!IndexesAgree, GraphProofs!IndexesAgree, Graph!PublishesOf,
         GraphProofs!PublishesOf, Graph!SubscribesOf, GraphProofs!SubscribesOf
<1>4. /\ Graph!NothingLeftBehind <=> GraphProofs!NothingLeftBehind
      /\ Graph!NothingLeftBehind' <=> GraphProofs!NothingLeftBehind'
  BY DEF Graph!NothingLeftBehind, GraphProofs!NothingLeftBehind, Graph!PublishesOf,
         GraphProofs!PublishesOf, Graph!SubscribesOf, GraphProofs!SubscribesOf
<1> QED BY <1>1, <1>2, <1>3, <1>4 DEF GraphInv, GraphProofs!IndInv

LEMMA SameOperations ==
  ASSUME NEW node, NEW k
  PROVE  /\ Graph!AddPublisher(node, k) <=> GraphProofs!AddPublisher(node, k)
         /\ Graph!AddSubscriber(node, k) <=> GraphProofs!AddSubscriber(node, k)
         /\ Graph!RemovePublisher(node, k) <=> GraphProofs!RemovePublisher(node, k)
         /\ Graph!RemoveSubscriber(node, k) <=> GraphProofs!RemoveSubscriber(node, k)
<1> USE DEF Graph!Bucket, GraphProofs!Bucket
<1>1. Graph!AddPublisher(node, k) <=> GraphProofs!AddPublisher(node, k)
  BY DEF Graph!AddPublisher, GraphProofs!AddPublisher, Graph!Put, GraphProofs!Put,
         Graph!InsertIn, GraphProofs!InsertIn, Graph!UpsertNode, GraphProofs!UpsertNode,
         Graph!PublishesOf, GraphProofs!PublishesOf,
         Graph!SubscribesOf, GraphProofs!SubscribesOf,
         Graph!ConnectPublisherToSubscribers, GraphProofs!ConnectPublisherToSubscribers
<1>2. Graph!AddSubscriber(node, k) <=> GraphProofs!AddSubscriber(node, k)
  BY DEF Graph!AddSubscriber, GraphProofs!AddSubscriber, Graph!Put, GraphProofs!Put,
         Graph!InsertIn, GraphProofs!InsertIn, Graph!UpsertNode, GraphProofs!UpsertNode,
         Graph!PublishesOf, GraphProofs!PublishesOf,
         Graph!SubscribesOf, GraphProofs!SubscribesOf,
         Graph!ConnectPublishersToSubscriber, GraphProofs!ConnectPublishersToSubscriber
<1> USE DEF Graph!Restrict, GraphProofs!Restrict,
            Graph!EraseFrom, GraphProofs!EraseFrom,
            Graph!RemoveEdgesBy, GraphProofs!RemoveEdgesBy,
            Graph!CleanupIsolatedNodeIfAny, GraphProofs!CleanupIsolatedNodeIfAny
<1>3. Graph!RemovePublisher(node, k) <=> GraphProofs!RemovePublisher(node, k)
  BY DEF Graph!RemovePublisher, GraphProofs!RemovePublisher
<1>4. Graph!RemoveSubscriber(node, k) <=> GraphProofs!RemoveSubscriber(node, k)
  BY DEF Graph!RemoveSubscriber, GraphProofs!RemoveSubscriber
<1> QED BY <1>1, <1>2, <1>3, <1>4

(* Nothing of any node but this one changes. *)
OthersKept(name) ==
  \A n : n # name => /\ n \in DOMAIN nodes' <=> n \in DOMAIN nodes
                     /\ n \in DOMAIN nodes => nodes'[n].info = nodes[n].info
                     /\ Pub(n)' = Pub(n)
                     /\ Sub(n)' = Sub(n)

(* The four handlers: a registration stands with the contact it gave, a    *)
(* withdrawal takes one key and no contact, and no other node is touched.  *)
LEMMA PublisherAdded ==
  ASSUME GraphInv, NEW node \in Graph!NodeInfo, NEW k \in TopicKey,
         Graph!AddPublisher(node, k)
  PROVE  /\ GraphInv' /\ OthersKept(node.node_name)
         /\ nodes'[node.node_name].info = node
         /\ Pub(node.node_name)' = Pub(node.node_name) \cup {k}
         /\ Sub(node.node_name)' = Sub(node.node_name)
<1>1. /\ node \in GraphProofs!NodeInfo /\ k \in GraphProofs!TopicKey
      /\ GraphProofs!IndInv /\ GraphProofs!TypeOK
      /\ GraphProofs!AddPublisher(node, k)
  BY SameSets, SameInvariant, SameOperations DEF GraphProofs!IndInv
<1>2. GraphInv'
  BY <1>1, SameInvariant, GraphProofs!AddPublisherInductive
<1>3. /\ DOMAIN nodes' = DOMAIN nodes \cup {node.node_name}
      /\ \A n \in DOMAIN nodes' :
           nodes'[n].info = IF n = node.node_name THEN node ELSE nodes[n].info
      /\ \A n : Pub(n)' = IF n = node.node_name THEN Pub(n) \cup {k} ELSE Pub(n)
      /\ \A n : Sub(n)' = Sub(n)
  BY <1>1, SameRoles, GraphProofs!AddPublisherVertices
<1> QED BY <1>2, <1>3 DEF OthersKept

LEMMA SubscriberAdded ==
  ASSUME GraphInv, NEW node \in Graph!NodeInfo, NEW k \in TopicKey,
         Graph!AddSubscriber(node, k)
  PROVE  /\ GraphInv' /\ OthersKept(node.node_name)
         /\ nodes'[node.node_name].info = node
         /\ Pub(node.node_name)' = Pub(node.node_name)
         /\ Sub(node.node_name)' = Sub(node.node_name) \cup {k}
<1>1. /\ node \in GraphProofs!NodeInfo /\ k \in GraphProofs!TopicKey
      /\ GraphProofs!IndInv /\ GraphProofs!TypeOK
      /\ GraphProofs!AddSubscriber(node, k)
  BY SameSets, SameInvariant, SameOperations DEF GraphProofs!IndInv
<1>2. GraphInv'
  BY <1>1, SameInvariant, GraphProofs!AddSubscriberInductive
<1>3. /\ DOMAIN nodes' = DOMAIN nodes \cup {node.node_name}
      /\ \A n \in DOMAIN nodes' :
           nodes'[n].info = IF n = node.node_name THEN node ELSE nodes[n].info
      /\ \A n : Pub(n)' = Pub(n)
      /\ \A n : Sub(n)' = IF n = node.node_name THEN Sub(n) \cup {k} ELSE Sub(n)
  BY <1>1, SameRoles, GraphProofs!AddSubscriberVertices
<1> QED BY <1>2, <1>3 DEF OthersKept

LEMMA PublisherRemoved ==
  ASSUME GraphInv, NEW node \in Graph!NodeInfo, NEW k \in TopicKey,
         Graph!RemovePublisher(node, k)
  PROVE  /\ GraphInv' /\ OthersKept(node.node_name)
         /\ \A n \in DOMAIN nodes' : nodes'[n].info = nodes[n].info
         /\ Pub(node.node_name)' = Pub(node.node_name) \ {k}
         /\ Sub(node.node_name)' = Sub(node.node_name)
<1>1. /\ node \in GraphProofs!NodeInfo /\ k \in GraphProofs!TopicKey
      /\ GraphProofs!IndInv /\ GraphProofs!TypeOK
      /\ GraphProofs!RemovePublisher(node, k)
  BY SameSets, SameInvariant, SameOperations DEF GraphProofs!IndInv
<1>2. GraphInv'
  BY <1>1, SameInvariant, GraphProofs!RemovePublisherInductive
<1>3. /\ DOMAIN nodes' \subseteq DOMAIN nodes
      /\ DOMAIN nodes \subseteq DOMAIN nodes' \cup {node.node_name}
      /\ \A n \in DOMAIN nodes' : nodes'[n].info = nodes[n].info
      /\ \A n : Pub(n)' = IF n = node.node_name THEN Pub(n) \ {k} ELSE Pub(n)
      /\ \A n : Sub(n)' = Sub(n)
  BY <1>1, SameRoles, GraphProofs!RemovePublisherVertices
<1> QED BY <1>2, <1>3 DEF OthersKept

LEMMA SubscriberRemoved ==
  ASSUME GraphInv, NEW node \in Graph!NodeInfo, NEW k \in TopicKey,
         Graph!RemoveSubscriber(node, k)
  PROVE  /\ GraphInv' /\ OthersKept(node.node_name)
         /\ \A n \in DOMAIN nodes' : nodes'[n].info = nodes[n].info
         /\ Pub(node.node_name)' = Pub(node.node_name)
         /\ Sub(node.node_name)' = Sub(node.node_name) \ {k}
<1>1. /\ node \in GraphProofs!NodeInfo /\ k \in GraphProofs!TopicKey
      /\ GraphProofs!IndInv /\ GraphProofs!TypeOK
      /\ GraphProofs!RemoveSubscriber(node, k)
  BY SameSets, SameInvariant, SameOperations DEF GraphProofs!IndInv
<1>2. GraphInv'
  BY <1>1, SameInvariant, GraphProofs!RemoveSubscriberInductive
<1>3. /\ DOMAIN nodes' \subseteq DOMAIN nodes
      /\ DOMAIN nodes \subseteq DOMAIN nodes' \cup {node.node_name}
      /\ \A n \in DOMAIN nodes' : nodes'[n].info = nodes[n].info
      /\ \A n : Pub(n)' = Pub(n)
      /\ \A n : Sub(n)' = IF n = node.node_name THEN Sub(n) \ {k} ELSE Sub(n)
  BY <1>1, SameRoles, GraphProofs!RemoveSubscriberVertices
<1> QED BY <1>2, <1>3 DEF OthersKept

(* What the master lists of a role. *)
LEMMA ListedRoles ==
  \A n : /\ Listed(n, "publisher") = Pub(n) /\ Listed(n, "publisher")' = Pub(n)'
         /\ Listed(n, "subscriber") = Sub(n) /\ Listed(n, "subscriber")' = Sub(n)'
BY DEF Listed, Pub, Sub

LEMMA ListedThere ==
  /\ \A n, x : Listed(n, x) # {} => n \in DOMAIN nodes
  /\ \A n, x : Listed(n, x)' # {} => n \in DOMAIN nodes'
BY DEF Listed, Graph!PublishesOf, Graph!SubscribesOf

(* A graph without vertices, buckets and edges is in order. *)
GraphEmpty == /\ nodes = Graph!EmptyMap
              /\ publishers_by_topic = Graph!EmptyMap
              /\ subscribers_by_topic = Graph!EmptyMap
              /\ edges = {}

LEMMA EmptyGraph == GraphEmpty => GraphInv /\ \A n, x : Listed(n, x) = {}
<1> SUFFICES ASSUME GraphEmpty PROVE GraphInv /\ \A n, x : Listed(n, x) = {}
  OBVIOUS
<1> USE DEF GraphEmpty
<1>1. DOMAIN Graph!EmptyMap = {} /\ \A S : Graph!EmptyMap \in [{} -> S]
  BY DEF Graph!EmptyMap
<1>2. Graph!TypeOK
  BY <1>1 DEF Graph!TypeOK, Graph!IsMap
<1>3. \A n : Pub(n) = {} /\ Sub(n) = {}
  BY <1>1 DEF Pub, Sub, Graph!PublishesOf, Graph!SubscribesOf
<1>4. Graph!IndexesAgree /\ Graph!EdgesExact
  BY <1>1, <1>3 DEF Graph!IndexesAgree, Graph!EdgesExact, Graph!Bucket, Pub, Sub
<1>5. Graph!NothingLeftBehind
  BY <1>1 DEF Graph!NothingLeftBehind
<1> QED BY <1>2, <1>3, <1>4, <1>5 DEF GraphInv, Listed, Pub, Sub

(* What the graph's state determines stays when it does. *)
LEMMA GraphStays ==
  ASSUME UNCHANGED graphVars
  PROVE  /\ GraphInv' <=> GraphInv
         /\ \A n, x : Listed(n, x)' = Listed(n, x)
         /\ nodes' = nodes
BY DEF graphVars, GraphInv, Graph!TypeOK, Graph!IndexesAgree, Graph!EdgesExact,
       Graph!NothingLeftBehind, Graph!PublishesOf, Graph!SubscribesOf, Graph!IsMap,
       Graph!Bucket, Listed

(* Each stub reaches the handler of its own name. *)
LEMMA Dispatch ==
  /\ HandlerOf("Subscribe") = "Subscribe"
  /\ HandlerOf("RegisterPublisher") = "RegisterPublisher"
  /\ HandlerOf("Unsubscribe") = "Unsubscribe"
  /\ HandlerOf("UnregisterPublisher") = "UnregisterPublisher"
<1>1. DOMAIN ServiceMethods = 1..8
  BY DEF ServiceMethods
<1>2. /\ method_names[1] = "Subscribe" /\ method_names[2] = "RegisterPublisher"
      /\ method_names[3] = "Unsubscribe" /\ method_names[4] = "UnregisterPublisher"
      /\ method_names[5] = "GetNodes" /\ method_names[6] = "GetNodeInfo"
      /\ method_names[7] = "GetTopics" /\ method_names[8] = "GetTopicInfo"
  BY DEF method_names
<1>3. /\ ServiceMethods[1] = "Subscribe" /\ ServiceMethods[2] = "RegisterPublisher"
      /\ ServiceMethods[3] = "Unsubscribe" /\ ServiceMethods[4] = "UnregisterPublisher"
  BY DEF ServiceMethods
<1>4. /\ StubIndex["Subscribe"] = 1 /\ StubIndex["RegisterPublisher"] = 2
      /\ StubIndex["Unsubscribe"] = 3 /\ StubIndex["UnregisterPublisher"] = 4
  BY DEF StubIndex
<1>5. \A i \in 1..8 : /\ method_names[i] = "Subscribe" <=> i = 1
                      /\ method_names[i] = "RegisterPublisher" <=> i = 2
                      /\ method_names[i] = "Unsubscribe" <=> i = 3
                      /\ method_names[i] = "UnregisterPublisher" <=> i = 4
  <2>1. \A i \in 1..8 : \/ i = 1 \/ i = 2 \/ i = 3 \/ i = 4
                        \/ i = 5 \/ i = 6 \/ i = 7 \/ i = 8
    OBVIOUS
  <2> QED BY <1>2, <2>1
<1>6. 1 \in 1..8 /\ 2 \in 1..8 /\ 3 \in 1..8 /\ 4 \in 1..8
  OBVIOUS
<1>7. HandlerOf("Subscribe") = "Subscribe"
  <2>1. (CHOOSE i \in 1..8 : method_names[i] = "Subscribe") = 1
    BY <1>5, <1>6
  <2> QED BY <1>1, <1>2, <1>3, <1>4, <2>1 DEF HandlerOf
<1>8. HandlerOf("RegisterPublisher") = "RegisterPublisher"
  <2>1. (CHOOSE i \in 1..8 : method_names[i] = "RegisterPublisher") = 2
    BY <1>5, <1>6
  <2> QED BY <1>1, <1>2, <1>3, <1>4, <2>1 DEF HandlerOf
<1>9. HandlerOf("UnregisterPublisher") = "UnregisterPublisher"
  <2>1. (CHOOSE i \in 1..8 : method_names[i] = "UnregisterPublisher") = 4
    BY <1>5, <1>6
  <2> QED BY <1>1, <1>2, <1>3, <1>4, <2>1 DEF HandlerOf
<1>10. HandlerOf("Unsubscribe") = "Unsubscribe"
  <2>1. (CHOOSE i \in 1..8 : method_names[i] = "Unsubscribe") = 3
    BY <1>5, <1>6
  <2> QED BY <1>1, <1>2, <1>3, <1>4, <2>1 DEF HandlerOf
<1> QED BY <1>7, <1>8, <1>9, <1>10

-----------------------------------------------------------------------------
(* The inductive invariant.                                                *)

Withdrawals == {"Unsubscribe", "UnregisterPublisher"}
Ops == Registrations \cup Withdrawals

RequestSet == [op : Ops, from : Handles \cup {Nobody}, key : TopicKey,
               answered : BOOLEAN, node : Graph!NodeInfo]

(* The call that an object which waits has made. *)
OpOf(o) == IF o.role = "publisher"
           THEN IF o.stage = "registering" THEN "RegisterPublisher" ELSE "UnregisterPublisher"
           ELSE IF o.stage = "registering" THEN "Subscribe" ELSE "Unsubscribe"

(* A request that is waited for is that of an object's present stage, and  *)
(* gives the present address of its node.                                  *)
Matches(r) ==
  LET h == r.from
  IN  /\ Pending(h)
      /\ r.op = OpOf(objects[h]) /\ r.key = objects[h].key
      /\ r.node.node_name = h[1] /\ r.node.addr = addr[h[1]]

RequestsMatch ==
  /\ requests \subseteq RequestSet
  /\ \A r \in requests : r.from # Nobody => Matches(r)

OneEach == \A r, q \in requests : r.from = q.from /\ r.from # Nobody => r = q

MasterThere == requests # {} => master

Answered(h) == \E r \in requests : r.from = h /\ r.answered

(* Only a Publisher's destructor makes a call. *)
ClosersPublish ==
  \A h \in Handles : objects[h].stage = "closing" => objects[h].role = "publisher"

(* An object is registered from when its registration was answered, and    *)
(* then the master has its role and its node's address.                    *)
Established(h) == \/ objects[h].stage = "live"
                  \/ objects[h].stage = "registering" /\ Answered(h)

RoleOf(h) == <<h[1], objects[h].key, objects[h].role>>

Standing(h) == /\ objects[h].key \in Listed(h[1], objects[h].role)
               /\ nodes[h[1]].info.addr = addr[h[1]]

EstablishedStand ==
  \A h \in Handles : Established(h) /\ RoleOf(h) \notin excused => Standing(h)

(* What the master lists is held by an object that has not withdrawn it.   *)
Withdrawn(h) == \/ objects[h].stage = "unregistered"
                \/ objects[h].stage \in {"unregistering", "closing"} /\ Answered(h)

Held(n, k, role) == \E h \in Sharers(n, k, role) : ~Withdrawn(h)

HoldersThere ==
  \A n \in Names, k \in TopicKey, role \in Roles :
    k \in Listed(n, role) /\ <<n, k, role>> \notin excused => Held(n, k, role)

IndInv == /\ GraphInv /\ TypeOK
          /\ RequestsMatch /\ ClosersPublish
          /\ EstablishedStand /\ HoldersThere

(* The types that the steps need most. *)
LEMMA Typed ==
  ASSUME IndInv
  PROVE  /\ OneEach /\ MasterThere
         /\ NoObject.stage = "none" /\ NoObject \notin Object
         /\ \A h \in Handles :
              /\ h # Nobody /\ h[1] \in Names /\ addr[h[1]] \in Addrs
              /\ objects[h] \in Object \cup {NoObject}
              /\ objects[h].stage \in Stages <=> objects[h] # NoObject
              /\ objects[h] # NoObject =>
                   /\ objects[h].role \in Roles /\ objects[h].key \in TopicKey
                   /\ RoleOf(h) \in Names \X TopicKey \X Roles
         /\ \A r \in requests : /\ r \in RequestSet
                                /\ r.node \in Graph!NodeInfo /\ r.key \in TopicKey
                                /\ r.node.node_name \in Names
<1>1. OneEach /\ MasterThere
  BY DEF IndInv, TypeOK, OneEach, MasterThere
<1>2. NoObject.stage = "none" /\ NoObject \notin Object /\ "none" \notin Stages
  BY DEF NoObject, Object, Stages
<1>3. \A h \in Handles : /\ h # Nobody /\ h[1] \in Names /\ addr[h[1]] \in Addrs
                         /\ objects[h] \in Object \cup {NoObject}
  BY HandlesAssumption DEF HandlesAssumption, IndInv, TypeOK, Nobody
<1>4. \A o \in Object : o.stage \in Stages /\ o.role \in Roles /\ o.key \in TopicKey
  BY DEF Object
<1>5. \A r \in requests : /\ r \in RequestSet
                          /\ r.node \in Graph!NodeInfo /\ r.key \in TopicKey
                          /\ r.node.node_name \in Names
  BY DEF IndInv, RequestsMatch, RequestSet, Graph!NodeInfo
<1> QED BY <1>1, <1>2, <1>3, <1>4, <1>5 DEF RoleOf

LEMMA InitInductive == Init => IndInv
<1> SUFFICES ASSUME Init PROVE IndInv
  OBVIOUS
<1>1. GraphInv /\ \A n, x : Listed(n, x) = {}
  BY EmptyGraph DEF GraphEmpty, Init, Graph!Init
<1>2. /\ addr \in [Names -> Addrs] /\ requests = {} /\ excused = {}
      /\ objects \in [Handles -> Object \cup {NoObject}]
      /\ \A h \in Handles : objects[h].stage = "none"
  BY DEF Init, NoObject
<1>3. TypeOK
  BY <1>1, <1>2 DEF TypeOK, GraphInv, Init
<1>4. RequestsMatch /\ ClosersPublish /\ EstablishedStand
  BY <1>2 DEF RequestsMatch, ClosersPublish, EstablishedStand, Established
<1>5. HoldersThere
  BY <1>1 DEF HoldersThere
<1> QED BY <1>1, <1>3, <1>4, <1>5 DEF IndInv

-----------------------------------------------------------------------------
(* Steps of the nodes.                                                     *)

(* The requests of this object are the ones there were. *)
SameRequests(h) == \A r : r.from = h => (r \in requests' <=> r \in requests)

LEMMA SameAnswers ==
  ASSUME NEW h, SameRequests(h)
  PROVE  Answered(h)' <=> Answered(h)
BY DEF SameRequests, Answered

(* One object changes; the graph and the other objects' requests do not.   *)
LEMMA ObjectMoves ==
  ASSUME IndInv, UNCHANGED <<graphVars, addr>>,
         NEW h \in Handles, NEW new \in Object \cup {NoObject}, Become(h, new),
         \A g \in Handles \ {h} : SameRequests(g),
         excused \subseteq excused',
         Established(h)' /\ RoleOf(h)' \notin excused' => Standing(h)',
         objects[h] # NoObject /\ ~Withdrawn(h) /\ RoleOf(h) \notin excused' =>
           \/ /\ new # NoObject /\ new.role = objects[h].role
              /\ new.key = objects[h].key /\ ~Withdrawn(h)'
           \/ \E g \in Sharers(h[1], objects[h].key, objects[h].role) :
                g # h /\ ~Withdrawn(g)
  PROVE  /\ GraphInv' /\ EstablishedStand' /\ HoldersThere'
         /\ objects' \in [Handles -> Object \cup {NoObject}]
         /\ objects'[h] = new
         /\ \A g \in Handles : g # h => objects'[g] = objects[g]
<1>1. /\ objects' \in [Handles -> Object \cup {NoObject}]
      /\ objects'[h] = new
      /\ \A g \in Handles : g # h => objects'[g] = objects[g]
  BY DEF IndInv, TypeOK, Become
<1>2. /\ GraphInv' /\ nodes' = nodes /\ addr' = addr
      /\ \A n, x : Listed(n, x)' = Listed(n, x)
  BY GraphStays DEF IndInv
<1>3. \A g \in Handles : g # h => (Answered(g)' <=> Answered(g))
  BY SameAnswers
<1>4. ASSUME NEW g \in Handles, Established(g)', RoleOf(g)' \notin excused'
      PROVE  Standing(g)'
  <2>1. CASE g # h
    <3>1. Established(g) /\ RoleOf(g) \notin excused
      BY <1>1, <1>3, <1>4, <2>1 DEF Established, RoleOf
    <3>2. Standing(g)
      BY <3>1 DEF IndInv, EstablishedStand
    <3> QED BY <1>1, <1>2, <2>1, <3>2 DEF Standing
  <2>2. CASE g = h
    BY <1>4, <2>2
  <2> QED BY <2>1, <2>2
<1>5. ASSUME NEW n \in Names, NEW k \in TopicKey, NEW role \in Roles,
             k \in Listed(n, role), <<n, k, role>> \notin excused'
      PROVE  Held(n, k, role)'
  <2>1. ASSUME NEW g \in Sharers(n, k, role), g # h, ~Withdrawn(g)
        PROVE  Held(n, k, role)'
    <3>1. g \in Handles
      BY DEF Sharers
    <3>2. g \in Sharers(n, k, role)'
      BY <1>1, <2>1, <3>1 DEF Sharers
    <3>3. ~Withdrawn(g)'
      BY <1>1, <1>3, <2>1, <3>1 DEF Withdrawn
    <3> QED BY <3>2, <3>3 DEF Held
  <2>2. PICK g \in Sharers(n, k, role) : ~Withdrawn(g)
    BY <1>5 DEF IndInv, HoldersThere, Held
  <2>3. CASE g = h
    <3>1. /\ h[1] = n /\ objects[h] # NoObject
          /\ objects[h].role = role /\ objects[h].key = k
      BY <2>2, <2>3 DEF Sharers
    <3>2. RoleOf(h) \notin excused' /\ ~Withdrawn(h)
      BY <1>5, <2>2, <2>3, <3>1 DEF RoleOf
    <3>3. CASE new # NoObject /\ new.role = role /\ new.key = k /\ ~Withdrawn(h)'
      <4>1. h \in Sharers(n, k, role)'
        BY <1>1, <3>1, <3>3 DEF Sharers
      <4> QED BY <3>3, <4>1 DEF Held
    <3>4. CASE \E f \in Sharers(n, k, role) : f # h /\ ~Withdrawn(f)
      BY <2>1, <3>4
    <3> QED BY <3>1, <3>2, <3>3, <3>4
  <2> QED BY <2>1, <2>2, <2>3
<1>6. EstablishedStand'
  BY <1>4 DEF EstablishedStand
<1>7. HoldersThere'
  BY <1>2, <1>5 DEF HoldersThere
<1> QED BY <1>1, <1>2, <1>6, <1>7

(* An object that waited for nothing makes the call of its new stage.      *)
LEMMA CallSent ==
  ASSUME IndInv, NEW h \in Handles, ~Pending(h), NEW new \in Object,
         new.stage \in {"registering", "unregistering", "closing"},
         Become(h, new), Send(OpOf(new), h, new.key), UNCHANGED <<master, addr>>
  PROVE  /\ RequestsMatch' /\ OneEach' /\ MasterThere'
         /\ \A g \in Handles \ {h} : SameRequests(g)
         /\ ~Answered(h)'
<1> DEFINE r == Request(OpOf(new), h, new.key)
<1>1. /\ r.op = OpOf(new) /\ r.from = h /\ r.key = new.key /\ r.answered = FALSE
      /\ r.node.node_name = h[1] /\ r.node.addr = addr[h[1]]
      /\ r \in RequestSet
  <2>1. OpOf(new) \in Ops /\ new.key \in TopicKey
    BY DEF OpOf, Ops, Object, Registrations, Withdrawals
  <2>2. h[1] \in Names /\ addr[h[1]] \in Addrs
    BY Typed
  <2> QED BY <2>1, <2>2 DEF Request, RequestSet, Graph!NodeInfo
<1>2. requests' = IF master THEN requests \cup {r} ELSE requests
  BY DEF Send
<1> HIDE DEF r
<1>3. /\ objects'[h] = new /\ addr' = addr /\ master' = master
      /\ \A g \in Handles : g # h => objects'[g] = objects[g]
  BY DEF IndInv, TypeOK, Become
<1>4. \A q \in requests : q.from # h
  BY Typed DEF IndInv, RequestsMatch, Matches
<1>5. \A g \in Handles \ {h} : SameRequests(g)
  BY <1>1, <1>2 DEF SameRequests
<1>6. \A q \in requests : q \in RequestSet /\ (q.from # Nobody => Matches(q) /\ q.from \in Handles)
  BY DEF IndInv, RequestsMatch, RequestSet
<1>7. ASSUME NEW q \in requests' PROVE q \in RequestSet /\ (q.from # Nobody => Matches(q)')
  <2>1. CASE q = r
    BY <1>1, <1>3, <2>1 DEF Matches, Pending
  <2>2. CASE q \in requests
    BY <1>3, <1>4, <1>6, <2>2 DEF Matches, Pending
  <2> QED BY <1>2, <2>1, <2>2
<1>8. RequestsMatch'
  <2>1. RequestSet' = RequestSet
    BY DEF RequestSet, Graph!NodeInfo, TopicKey, Graph!TopicKey
  <2> QED BY <1>7, <2>1 DEF RequestsMatch
<1>9. OneEach'
  <2> SUFFICES ASSUME NEW p \in requests', NEW q \in requests', p.from = q.from,
                      p.from # Nobody
               PROVE  p = q
    BY DEF OneEach
  <2>1. \A x \in requests' : x = r \/ (x \in requests /\ x.from # h)
    BY <1>2, <1>4
  <2>2. CASE p \in requests /\ q \in requests
    BY <2>2, Typed DEF OneEach
  <2> QED BY <1>1, <2>1, <2>2
<1>10. MasterThere'
  BY <1>2, <1>3, Typed DEF MasterThere
<1>11. ~Answered(h)'
  BY <1>1, <1>2, <1>4 DEF Answered
<1> QED BY <1>5, <1>8, <1>9, <1>10, <1>11

LEMMA TypesKept ==
  ASSUME GraphInv', OneEach', MasterThere', RequestsMatch',
         addr' \in [Names -> Addrs], stuck' \subseteq Handles,
         objects' \in [Handles -> Object \cup {NoObject}],
         excused' \subseteq Names \X TopicKey \X Roles
  PROVE  TypeOK'
<1>1. \A r \in requests' : r.node \in Graph!NodeInfo /\ r.key \in TopicKey
  BY DEF RequestsMatch, RequestSet
<1>2. Graph!TypeOK'
  BY DEF GraphInv
<1> QED BY <1>1, <1>2 DEF TypeOK, OneEach, MasterThere

(* advertise and subscribe. *)
LEMMA RegistrationKeeps ==
  ASSUME IndInv, NEW h \in Handles, NEW k \in TopicKey, NEW op \in Registrations,
         Register(h, op, k)
  PROVE  IndInv'
<1> DEFINE new == [stage |-> "registering", role |-> RoleIn(op), key |-> k]
<1>1. /\ objects[h] = NoObject /\ ~Pending(h)
      /\ new \in Object /\ new.stage = "registering" /\ new.key = k
      /\ Become(h, new) /\ Send(OpOf(new), h, new.key)
      /\ UNCHANGED <<graphVars, master, addr, stuck>> /\ excused' = excused
  <2>1. ~Pending(h) /\ objects[h] = NoObject
    BY Typed DEF Register, Pending
  <2>2. OpOf(new) = op /\ new \in Object
    BY DEF Registrations, RoleIn, OpOf, Object, Stages, Roles
  <2> QED BY <2>1, <2>2 DEF Register, Rest
<1> HIDE DEF new
<1>2. /\ RequestsMatch' /\ OneEach' /\ MasterThere'
      /\ \A g \in Handles \ {h} : SameRequests(g)
      /\ ~Answered(h)'
  BY <1>1, CallSent
<1>3. objects'[h] = new
  BY <1>1 DEF Become, IndInv, TypeOK
<1>4. /\ GraphInv' /\ EstablishedStand' /\ HoldersThere'
      /\ objects' \in [Handles -> Object \cup {NoObject}]
      /\ \A g \in Handles : g # h => objects'[g] = objects[g]
  <2>1. ~Established(h)'
    BY <1>1, <1>2, <1>3 DEF Established
  <2> QED BY <1>1, <1>2, <2>1, ObjectMoves
<1>5. ClosersPublish'
  BY <1>1, <1>3, <1>4 DEF IndInv, ClosersPublish
<1>6. TypeOK'
  <2>1. /\ addr' \in [Names -> Addrs] /\ stuck' \subseteq Handles
        /\ excused' \subseteq Names \X TopicKey \X Roles
    BY <1>1 DEF IndInv, TypeOK
  <2> QED BY <1>2, <1>4, <2>1, TypesKept
<1> QED BY <1>2, <1>4, <1>5, <1>6 DEF IndInv

(* Unregister, Unsubscribe and ~Publisher: the object still holds what it  *)
(* withdraws until the withdrawal is answered.                             *)
LEMMA WithdrawalKeeps ==
  ASSUME IndInv, NEW h \in Handles, Unregister(h) \/ Unsubscribe(h) \/ DestroyPublisher(h)
  PROVE  IndInv'
<1>1. PICK op \in Withdrawals, stage \in {"unregistering", "closing"} :
        /\ objects[h].stage \in {"live", "unregistered"}
        /\ Withdraw(h, op, stage)
        /\ stage = "closing" => op = "UnregisterPublisher"
  BY DEF Unregister, Unsubscribe, DestroyPublisher, Withdrawals
<1> DEFINE new == [objects[h] EXCEPT !.stage = stage]
<1>2. objects[h] \in Object /\ objects[h].role = RoleIn(op) /\ ~Pending(h)
  BY <1>1, Typed DEF Withdraw, Pending, Stages
<1>3. /\ new \in Object /\ new.stage = stage
      /\ new.key = objects[h].key /\ new.role = objects[h].role
      /\ OpOf(new) = op
  BY <1>2 DEF Object, Stages, OpOf, RoleIn, Withdrawals
<1>4. /\ Become(h, new) /\ Send(OpOf(new), h, new.key)
      /\ UNCHANGED <<graphVars, master, addr, stuck>> /\ excused' = excused
  BY <1>1, <1>3 DEF Withdraw, ToStage, Rest
<1> HIDE DEF new
<1>5. /\ RequestsMatch' /\ OneEach' /\ MasterThere'
      /\ \A g \in Handles \ {h} : SameRequests(g)
      /\ ~Answered(h)'
  BY <1>2, <1>3, <1>4, CallSent
<1>6. objects'[h] = new
  BY <1>4 DEF Become, IndInv, TypeOK
<1>7. /\ GraphInv' /\ EstablishedStand' /\ HoldersThere'
      /\ objects' \in [Handles -> Object \cup {NoObject}]
      /\ \A g \in Handles : g # h => objects'[g] = objects[g]
  <2>1. ~Established(h)' /\ ~Withdrawn(h)'
    BY <1>3, <1>5, <1>6 DEF Established, Withdrawn
  <2>2. new # NoObject
    BY <1>3, Typed
  <2> QED BY <1>3, <1>4, <1>5, <2>1, <2>2, ObjectMoves
<1>8. ClosersPublish'
  <2>1. stage = "closing" => new.role = "publisher"
    BY <1>1, <1>2, <1>3 DEF RoleIn
  <2> QED BY <1>3, <1>6, <1>7, <2>1 DEF IndInv, ClosersPublish
<1>9. TypeOK'
  <2>1. /\ addr' \in [Names -> Addrs] /\ stuck' \subseteq Handles
        /\ excused' \subseteq Names \X TopicKey \X Roles
    BY <1>4 DEF IndInv, TypeOK
  <2> QED BY <1>5, <1>7, <2>1, TypesKept
<1> QED BY <1>5, <1>7, <1>8, <1>9 DEF IndInv

(* What a request says stays so while its sender and its address stay. *)
LEMMA MatchStays ==
  ASSUME RequestsMatch, OneEach,
         NEW H, requests' \subseteq RequestSet,
         \A r \in requests' : r.from # Nobody => r \in requests /\ r.from \in H,
         \A h \in H : objects'[h] = objects[h] /\ addr'[h[1]] = addr[h[1]]
  PROVE  RequestsMatch' /\ OneEach'
<1>1. \A r \in requests' : r.from # Nobody => Matches(r)'
  BY DEF RequestsMatch, Matches, Pending
<1>2. RequestSet' = RequestSet
  BY DEF RequestSet, Graph!NodeInfo, TopicKey, Graph!TopicKey
<1>3. RequestsMatch'
  BY <1>1, <1>2 DEF RequestsMatch
<1>4. OneEach'
  BY DEF OneEach
<1> QED BY <1>3, <1>4

(* ~Subscriber: the master is not told; another object holds what is still *)
(* listed, or it is excused.                                               *)
LEMMA SubscriberGoneKeeps ==
  ASSUME IndInv, NEW h \in Handles, DestroySubscriber(h)
  PROVE  IndInv'
<1>1. /\ objects[h].stage \in {"live", "unregistered"} /\ objects[h].role = "subscriber"
      /\ Become(h, NoObject) /\ requests' = requests
      /\ excused' = IF objects[h].stage = "live" /\ LastOf(h)
                    THEN excused \cup {RoleOf(h)} ELSE excused
      /\ UNCHANGED <<graphVars, master, addr, stuck>>
  BY DEF DestroySubscriber, Rest, RoleOf
<1>2. objects'[h] = NoObject
  BY <1>1 DEF Become, IndInv, TypeOK
<1>3. /\ GraphInv' /\ EstablishedStand' /\ HoldersThere'
      /\ objects' \in [Handles -> Object \cup {NoObject}]
      /\ \A g \in Handles : g # h => objects'[g] = objects[g]
  <2>1. ~Established(h)'
    BY <1>2, Typed DEF Established
  <2>2. \A g \in Handles \ {h} : SameRequests(g)
    BY <1>1 DEF SameRequests
  <2>3. ASSUME ~Withdrawn(h), RoleOf(h) \notin excused'
        PROVE  \E g \in Sharers(h[1], objects[h].key, objects[h].role) :
                 g # h /\ ~Withdrawn(g)
    <3>1. objects[h].stage = "live" /\ ~LastOf(h)
      BY <1>1, <2>3 DEF Withdrawn
    <3>2. PICK g \in Sharers(h[1], objects[h].key, objects[h].role) \ {h} :
            objects[g].stage \notin {"unregistering", "unregistered"}
      BY <3>1 DEF LastOf
    <3>3. objects[g].stage # "closing"
      BY <1>1, <3>2 DEF Sharers, IndInv, ClosersPublish
    <3> QED BY <3>2, <3>3 DEF Withdrawn
  <2>4. excused \subseteq excused'
    BY <1>1
  <2> QED BY <1>1, <2>1, <2>2, <2>3, <2>4, ObjectMoves
<1>4. RequestsMatch' /\ OneEach' /\ MasterThere'
  <2>1. /\ \A r \in requests : r.from # Nobody => r.from \in Handles \ {h}
        /\ RequestsMatch /\ OneEach /\ MasterThere
    <3>1. \A r \in requests : r.from # Nobody => r.from \in Handles /\ Pending(r.from)
      BY DEF IndInv, RequestsMatch, RequestSet, Matches
    <3>2. ~Pending(h)
      BY <1>1 DEF Pending
    <3> QED BY <3>1, <3>2, Typed DEF IndInv
  <2>2. \A r \in requests' : /\ r \in RequestSet /\ r \in requests
                             /\ r.from # Nobody => r.from \in Handles \ {h}
    BY <1>1, <2>1 DEF RequestsMatch
  <2>3. \A g \in Handles \ {h} : objects'[g] = objects[g] /\ addr'[g[1]] = addr[g[1]]
    BY <1>1, <1>3
  <2>4. RequestsMatch' /\ OneEach'
    BY <2>1, <2>2, <2>3, MatchStays
  <2> QED BY <1>1, <2>1, <2>4 DEF MasterThere
<1>5. ClosersPublish'
  BY <1>2, <1>3, Typed DEF IndInv, ClosersPublish
<1>6. TypeOK'
  <2>1. /\ addr' \in [Names -> Addrs] /\ stuck' \subseteq Handles
        /\ excused' \subseteq Names \X TopicKey \X Roles
    <3>1. RoleOf(h) \in Names \X TopicKey \X Roles
      BY <1>1, Typed DEF Stages
    <3> QED BY <1>1, <3>1 DEF IndInv, TypeOK
  <2> QED BY <1>3, <1>4, <2>1, TypesKept
<1> QED BY <1>3, <1>4, <1>5, <1>6 DEF IndInv

(* A call that returns leaves an object as its answer says; one that fails *)
(* leaves an excuse.                                                       *)
LEMMA CallEndsKeeps ==
  ASSUME IndInv, NEW h \in Handles, Return(h) \/ Fail(h)
  PROVE  IndInv'
<1>1. /\ Pending(h) /\ Advance(h) /\ UNCHANGED <<graphVars, master, addr>>
      /\ stuck' \subseteq stuck
      /\ objects[h] \in Object /\ RoleOf(h) \in Names \X TopicKey \X Roles
  BY Typed DEF Return, Fail, Rest, Pending, Stages
<1>2. \/ Answered(h) /\ excused' = excused
      \/ excused' = excused \cup {RoleOf(h)}
  BY DEF Return, Fail, Answered, RoleOf
<1>3. /\ requests' \subseteq requests
      /\ \A r \in requests' : r.from # h
      /\ \A r \in requests : r.from # h => r \in requests'
  <2>1. CASE Return(h)
    <3>1. PICK r \in requests : r.from = h /\ requests' = requests \ {r}
      BY <2>1 DEF Return
    <3>2. \A q \in requests : q.from = h => q = r
      BY <3>1, Typed DEF OneEach
    <3> QED BY <3>1, <3>2
  <2>2. CASE Fail(h)
    BY <2>2 DEF Fail
  <2> QED BY <2>1, <2>2
<1>4. PICK new \in Object \cup {NoObject} :
        /\ Become(h, new)
        /\ \/ /\ objects[h].stage = "registering" /\ new.stage = "live"
              /\ new # NoObject /\ new.role = objects[h].role /\ new.key = objects[h].key
           \/ /\ objects[h].stage = "unregistering" /\ new.stage = "unregistered"
              /\ new # NoObject /\ new.role = objects[h].role /\ new.key = objects[h].key
           \/ /\ objects[h].stage = "closing" /\ new = NoObject
  <2> DEFINE live == [objects[h] EXCEPT !.stage = "live"]
             gone == [objects[h] EXCEPT !.stage = "unregistered"]
  <2>1. /\ live \in Object /\ live.stage = "live" /\ live.role = objects[h].role
        /\ live.key = objects[h].key
        /\ gone \in Object /\ gone.stage = "unregistered" /\ gone.role = objects[h].role
        /\ gone.key = objects[h].key
    BY <1>1 DEF Object, Stages
  <2>2. live # NoObject /\ gone # NoObject
    BY <2>1, Typed
  <2>3. CASE objects[h].stage = "registering"
    BY <1>1, <2>1, <2>2, <2>3 DEF Advance, ToStage
  <2>4. CASE objects[h].stage = "unregistering"
    BY <1>1, <2>1, <2>2, <2>4 DEF Advance, ToStage
  <2>5. CASE objects[h].stage = "closing"
    BY <1>1, <2>5 DEF Advance
  <2> QED BY <1>1, <2>3, <2>4, <2>5 DEF Pending
<1>5. objects'[h] = new /\ ~Answered(h)' /\ \A g \in Handles \ {h} : SameRequests(g)
  BY <1>3, <1>4 DEF Become, IndInv, TypeOK, Answered, SameRequests
<1>6. Established(h)' /\ RoleOf(h)' \notin excused' => Standing(h)'
  <2> SUFFICES ASSUME Established(h)', RoleOf(h)' \notin excused' PROVE Standing(h)'
    OBVIOUS
  <2>1. /\ objects[h].stage = "registering" /\ new # NoObject
        /\ new.role = objects[h].role /\ new.key = objects[h].key
    BY <1>4, <1>5, Typed DEF Established
  <2>2. RoleOf(h)' = RoleOf(h)
    BY <1>5, <2>1 DEF RoleOf
  <2>3. Answered(h) /\ RoleOf(h) \notin excused
    BY <1>2, <2>2
  <2>4. Standing(h)
    BY <2>1, <2>3 DEF IndInv, EstablishedStand, Established
  <2>5. nodes' = nodes /\ addr' = addr /\ \A n, x : Listed(n, x)' = Listed(n, x)
    BY <1>1, GraphStays
  <2> QED BY <1>5, <2>1, <2>4, <2>5 DEF Standing
<1>7. ASSUME ~Withdrawn(h), RoleOf(h) \notin excused'
      PROVE  /\ new # NoObject /\ new.role = objects[h].role
             /\ new.key = objects[h].key /\ ~Withdrawn(h)'
  <2>1. Answered(h)
    BY <1>2, <1>7
  <2>2. objects[h].stage = "registering"
    BY <1>1, <1>7, <2>1 DEF Withdrawn, Pending
  <2> QED BY <1>4, <1>5, <2>2 DEF Withdrawn
<1>8. /\ GraphInv' /\ EstablishedStand' /\ HoldersThere'
      /\ objects' \in [Handles -> Object \cup {NoObject}]
      /\ \A g \in Handles : g # h => objects'[g] = objects[g]
  <2>1. excused \subseteq excused'
    BY <1>2
  <2> QED BY <1>1, <1>4, <1>5, <1>6, <1>7, <2>1, ObjectMoves
<1>9. RequestsMatch' /\ OneEach' /\ MasterThere'
  <2>1. RequestsMatch /\ OneEach /\ MasterThere
    BY Typed DEF IndInv
  <2>2. \A r \in requests' : /\ r \in RequestSet /\ r \in requests
                             /\ r.from # Nobody => r.from \in Handles \ {h}
    BY <1>3, <2>1 DEF RequestsMatch, RequestSet
  <2>3. \A g \in Handles \ {h} : objects'[g] = objects[g] /\ addr'[g[1]] = addr[g[1]]
    BY <1>1, <1>8
  <2>4. RequestsMatch' /\ OneEach'
    BY <2>1, <2>2, <2>3, MatchStays
  <2> QED BY <1>1, <1>3, <2>1, <2>4 DEF MasterThere
<1>10. ClosersPublish'
  <2>1. new.stage # "closing"
    BY <1>4, Typed
  <2> QED BY <1>5, <1>8, <2>1 DEF IndInv, ClosersPublish
<1>11. TypeOK'
  <2>1. /\ addr' \in [Names -> Addrs] /\ stuck' \subseteq Handles
        /\ excused' \subseteq Names \X TopicKey \X Roles
    BY <1>1, <1>2 DEF IndInv, TypeOK
  <2> QED BY <1>8, <1>9, <2>1, TypesKept
<1> QED BY <1>8, <1>9, <1>10, <1>11 DEF IndInv

-----------------------------------------------------------------------------
(* Failures.                                                               *)

(* Of those who stop waiting, no request is left that anybody waits for.   *)
LEMMA Orphans ==
  ASSUME requests \subseteq RequestSet, NEW H \in SUBSET Handles, Nobody \notin H
  PROVE  /\ Orphaned(H) \subseteq RequestSet
         /\ \A r \in Orphaned(H) : r.from # Nobody => r \in requests /\ r.from \notin H
         /\ \A r \in requests : r.from \notin H => r \in Orphaned(H)
         /\ requests = {} => Orphaned(H) = {}
<1>1. ASSUME NEW r \in requests
      PROVE  /\ [r EXCEPT !.from = Nobody] \in RequestSet
             /\ [r EXCEPT !.from = Nobody].from = Nobody
  BY DEF RequestSet
<1>2. \A q \in Orphaned(H) : \E r \in requests :
        q = IF r.from \in H THEN [r EXCEPT !.from = Nobody] ELSE r
  BY DEF Orphaned
<1>3. \A q \in Orphaned(H) : /\ q \in RequestSet
                             /\ q.from # Nobody => q \in requests /\ q.from \notin H
  BY <1>1, <1>2
<1>4. \A r \in requests : r.from \notin H => r \in Orphaned(H)
  BY DEF Orphaned
<1> QED BY <1>2, <1>3, <1>4

(* Requests are lost, or nobody waits for them any more. *)
LEMMA RequestsLost ==
  ASSUME IndInv, UNCHANGED <<graphVars, master, addr, objects, excused>>,
         stuck' \subseteq Handles, requests' \subseteq RequestSet,
         \A r \in requests' : r.from # Nobody => r \in requests,
         requests = {} => requests' = {}
  PROVE  IndInv'
<1>1. /\ RequestsMatch /\ OneEach /\ MasterThere
      /\ \A h \in Handles : h # Nobody
  BY Typed DEF IndInv
<1>2. RequestsMatch' /\ OneEach' /\ MasterThere'
  <2>1. \A r \in requests' : /\ r \in RequestSet
                             /\ r.from # Nobody => r \in requests /\ r.from \in Handles
    BY DEF RequestSet
  <2>2. \A g \in Handles : objects'[g] = objects[g] /\ addr'[g[1]] = addr[g[1]]
    OBVIOUS
  <2>3. RequestsMatch' /\ OneEach'
    BY <1>1, <2>1, <2>2, MatchStays
  <2> QED BY <1>1, <2>3 DEF MasterThere
<1>3. \A h \in Handles : Answered(h)' => Answered(h)
  BY <1>1 DEF Answered
<1>4. /\ GraphInv' /\ nodes' = nodes /\ addr' = addr
      /\ \A n, x : Listed(n, x)' = Listed(n, x)
  BY GraphStays DEF IndInv
<1>5. EstablishedStand'
  BY <1>3, <1>4 DEF IndInv, EstablishedStand, Established, RoleOf, Standing
<1>6. HoldersThere'
  <2> SUFFICES ASSUME NEW n \in Names, NEW k \in TopicKey, NEW role \in Roles,
                      k \in Listed(n, role), <<n, k, role>> \notin excused
               PROVE  Held(n, k, role)'
    BY <1>4 DEF HoldersThere
  <2>1. PICK h \in Sharers(n, k, role) : ~Withdrawn(h)
    BY DEF IndInv, HoldersThere, Held
  <2>2. h \in Sharers(n, k, role)' /\ h \in Handles
    BY <2>1 DEF Sharers
  <2>3. ~Withdrawn(h)'
    BY <1>3, <2>1, <2>2 DEF Withdrawn
  <2> QED BY <2>2, <2>3 DEF Held
<1>7. ClosersPublish'
  BY DEF IndInv, ClosersPublish
<1>8. TypeOK'
  <2>1. /\ addr' \in [Names -> Addrs] /\ stuck' \subseteq Handles
        /\ excused' \subseteq Names \X TopicKey \X Roles
        /\ objects' \in [Handles -> Object \cup {NoObject}]
    BY DEF IndInv, TypeOK
  <2> QED BY <1>2, <1>4, <2>1, TypesKept
<1> QED BY <1>2, <1>4, <1>5, <1>6, <1>7, <1>8 DEF IndInv

LEMMA BreakKeeps ==
  ASSUME IndInv, NEW h \in Handles, Break(h)
  PROVE  IndInv'
<1>1. requests \subseteq RequestSet /\ Nobody \notin {h} /\ {h} \in SUBSET Handles
  BY Typed DEF IndInv, RequestsMatch
<1>2. /\ Orphaned({h}) \subseteq RequestSet
      /\ \A r \in Orphaned({h}) : r.from # Nobody => r \in requests
      /\ requests = {} => Orphaned({h}) = {}
  BY <1>1, Orphans
<1>3. /\ requests' = Orphaned({h}) /\ UNCHANGED <<graphVars, master, addr, objects, excused>>
      /\ stuck' \subseteq Handles
  BY DEF Break, IndInv, TypeOK
<1> QED BY <1>2, <1>3, RequestsLost

LEMMA LoseKeeps ==
  ASSUME IndInv, NEW r \in requests, Lose(r)
  PROVE  IndInv'
<1>1. /\ requests' \subseteq requests /\ UNCHANGED <<graphVars, master, addr, objects, excused>>
      /\ stuck' \subseteq Handles
  BY DEF Lose, Rest, IndInv, TypeOK
<1>2. requests' \subseteq RequestSet /\ \A q \in requests' : q \in requests
  BY <1>1 DEF IndInv, RequestsMatch
<1>3. requests = {} => requests' = {}
  BY <1>1
<1> QED BY <1>1, <1>2, <1>3, RequestsLost

(* All that a master without memory has is excused. *)
LEMMA MasterEndsKeeps ==
  ASSUME IndInv, MasterEnds
  PROVE  IndInv'
<1>1. GraphInv'
  <2>1. GraphEmpty'
    BY DEF MasterEnds, GraphEmpty, Graph!EmptyMap
  <2> QED BY <2>1, EmptyGraph, PTL
<1>2. /\ requests' = {} /\ excused' = Names \X TopicKey \X Roles
      /\ objects' = objects /\ addr' = addr /\ stuck' = stuck
  BY DEF MasterEnds
<1>3. RequestsMatch' /\ OneEach' /\ MasterThere'
  BY <1>2 DEF RequestsMatch, OneEach, MasterThere
<1>4. EstablishedStand'
  <2>1. ASSUME NEW h \in Handles, Established(h)' PROVE RoleOf(h)' \in excused'
    <3>1. objects[h] # NoObject
      BY <1>2, <2>1, Typed DEF Established
    <3> QED BY <1>2, <3>1, Typed DEF RoleOf
  <2> QED BY <2>1 DEF EstablishedStand
<1>5. HoldersThere'
  BY <1>2 DEF HoldersThere
<1>6. ClosersPublish'
  BY <1>2 DEF IndInv, ClosersPublish
<1>7. TypeOK'
  <2>1. /\ addr' \in [Names -> Addrs] /\ stuck' \subseteq Handles
        /\ excused' \subseteq Names \X TopicKey \X Roles
        /\ objects' \in [Handles -> Object \cup {NoObject}]
    BY <1>2 DEF IndInv, TypeOK
  <2> QED BY <1>1, <1>3, <2>1, TypesKept
<1> QED BY <1>1, <1>3, <1>4, <1>5, <1>6, <1>7 DEF IndInv

LEMMA MasterStartsKeeps ==
  ASSUME IndInv, MasterStarts \/ UNCHANGED vars
  PROVE  IndInv'
<1>1. /\ UNCHANGED <<graphVars, addr, objects, requests, stuck, excused>>
      /\ master' = TRUE \/ master' = master
  BY DEF MasterStarts, vars
<1>2. /\ GraphInv' /\ nodes' = nodes /\ addr' = addr
      /\ \A n, x : Listed(n, x)' = Listed(n, x)
  BY <1>1, GraphStays DEF IndInv
<1>3. RequestsMatch' /\ OneEach' /\ MasterThere'
  <2>1. RequestsMatch' /\ OneEach'
    BY <1>1, Typed DEF IndInv, RequestsMatch, OneEach, Matches, Pending, RequestSet,
                       TopicKey, Graph!TopicKey, Graph!NodeInfo
  <2>2. MasterThere'
    BY <1>1, Typed DEF MasterThere
  <2> QED BY <2>1, <2>2
<1>4. EstablishedStand' /\ HoldersThere' /\ ClosersPublish'
  BY <1>1, <1>2 DEF IndInv, EstablishedStand, HoldersThere, ClosersPublish, Established,
                    RoleOf, Standing, Sharers, Held, Withdrawn, Answered
<1>5. TypeOK'
  <2>1. /\ addr' \in [Names -> Addrs] /\ stuck' \subseteq Handles
        /\ excused' \subseteq Names \X TopicKey \X Roles
        /\ objects' \in [Handles -> Object \cup {NoObject}]
    BY <1>1 DEF IndInv, TypeOK
  <2> QED BY <1>2, <1>3, <2>1, TypesKept
<1> QED BY <1>2, <1>3, <1>4, <1>5 DEF IndInv

(* A node that starts again excuses all it had; other nodes' objects and   *)
(* requests are as they were.                                              *)
LEMMA NodeRestartsKeeps ==
  ASSUME IndInv, NEW name \in Names, NodeRestarts(name)
  PROVE  IndInv'
<1> DEFINE H == HandlesOf(name)
<1>1. /\ requests' = Orphaned(H) /\ excused' = excused \cup ({name} \X TopicKey \X Roles)
      /\ UNCHANGED <<graphVars, master>> /\ stuck' \subseteq stuck
      /\ \E a \in Addrs : addr' = [addr EXCEPT ![name] = a]
      /\ objects' = [h \in Handles |-> IF h[1] = name THEN NoObject ELSE objects[h]]
  BY DEF NodeRestarts
<1>2. /\ H \in SUBSET Handles /\ Nobody \notin H
      /\ \A h \in Handles : h \in H <=> h[1] = name
  BY Typed DEF HandlesOf
<1> HIDE DEF H
<1>3. /\ requests' \subseteq RequestSet
      /\ \A r \in requests' : r.from # Nobody => r \in requests /\ r.from \notin H
      /\ \A r \in requests : r.from \notin H => r \in requests'
      /\ requests = {} => requests' = {}
  <2>1. requests \subseteq RequestSet
    BY DEF IndInv, RequestsMatch
  <2> QED BY <1>1, <1>2, <2>1, Orphans
<1>4. /\ addr' \in [Names -> Addrs] /\ \A n \in Names : n # name => addr'[n] = addr[n]
  BY <1>1 DEF IndInv, TypeOK
<1>5. /\ objects' \in [Handles -> Object \cup {NoObject}]
      /\ \A h \in H : objects'[h] = NoObject
      /\ \A h \in Handles \ H : objects'[h] = objects[h] /\ addr'[h[1]] = addr[h[1]]
  <2>1. \A h \in Handles \ H : h[1] \in Names /\ h[1] # name
    BY <1>2, Typed
  <2> QED BY <1>1, <1>2, <1>4, <2>1 DEF IndInv, TypeOK
<1>6. RequestsMatch' /\ OneEach' /\ MasterThere'
  <2>1. RequestsMatch /\ OneEach /\ MasterThere
    BY Typed DEF IndInv
  <2>2. \A r \in requests' : /\ r \in RequestSet
                             /\ r.from # Nobody => r \in requests /\ r.from \in Handles \ H
    BY <1>3 DEF RequestSet
  <2>3. RequestsMatch' /\ OneEach'
    BY <1>5, <2>1, <2>2, MatchStays
  <2> QED BY <1>1, <1>3, <2>1, <2>3 DEF MasterThere
<1>7. \A h \in Handles \ H : Answered(h)' <=> Answered(h)
  <2>1. \A h \in Handles : h # Nobody
    BY Typed
  <2> QED BY <1>3, <2>1 DEF Answered
<1>8. /\ GraphInv' /\ nodes' = nodes
      /\ \A n, x : Listed(n, x)' = Listed(n, x)
  BY <1>1, GraphStays DEF IndInv
<1>9. EstablishedStand'
  <2> SUFFICES ASSUME NEW h \in Handles, Established(h)', RoleOf(h)' \notin excused'
               PROVE  Standing(h)'
    BY DEF EstablishedStand
  <2>1. h \notin H /\ objects'[h] = objects[h] /\ addr'[h[1]] = addr[h[1]]
    BY <1>5, Typed DEF Established
  <2>2. Established(h) /\ RoleOf(h) \notin excused
    BY <1>1, <1>7, <2>1 DEF Established, RoleOf
  <2>3. Standing(h)
    BY <2>2 DEF IndInv, EstablishedStand
  <2> QED BY <1>8, <2>1, <2>3 DEF Standing
<1>10. HoldersThere'
  <2> SUFFICES ASSUME NEW n \in Names, NEW k \in TopicKey, NEW role \in Roles,
                      k \in Listed(n, role), <<n, k, role>> \notin excused'
               PROVE  Held(n, k, role)'
    BY <1>8 DEF HoldersThere
  <2>1. n # name /\ <<n, k, role>> \notin excused
    BY <1>1
  <2>2. PICK h \in Sharers(n, k, role) : ~Withdrawn(h)
    BY <2>1 DEF IndInv, HoldersThere, Held
  <2>3. h \in Handles \ H /\ objects'[h] = objects[h]
    BY <1>2, <1>5, <2>1, <2>2 DEF Sharers
  <2>4. h \in Sharers(n, k, role)'
    BY <2>2, <2>3 DEF Sharers
  <2>5. ~Withdrawn(h)'
    BY <1>7, <2>2, <2>3 DEF Withdrawn
  <2> QED BY <2>4, <2>5 DEF Held
<1>11. ClosersPublish'
  BY <1>5, Typed DEF IndInv, ClosersPublish
<1>12. TypeOK'
  <2>1. stuck' \subseteq Handles /\ excused' \subseteq Names \X TopicKey \X Roles
    BY <1>1 DEF IndInv, TypeOK
  <2> QED BY <1>4, <1>5, <1>6, <1>8, <2>1, TypesKept
<1> QED BY <1>6, <1>8, <1>9, <1>10, <1>11, <1>12 DEF IndInv

-----------------------------------------------------------------------------
(* A request is handled.                                                   *)

(* What is excused before and after: one role may cease to be, the roles   *)
(* of a node whose request nobody waits for never do.                      *)
LEMMA Excuses ==
  ASSUME IndInv, NEW r \in requests
  PROVE  LET name == r.node.node_name
             role == RoleIn(r.op)
         IN  /\ ExcusedAfter(r) \subseteq Names \X TopicKey \X Roles
             /\ \A n, k, x : /\ <<n, k, x>> \notin ExcusedAfter(r)
                             /\ <<n, k, x>> # <<name, r.key, role>>
                             => <<n, k, x>> \notin excused
             /\ r.from = Nobody =>
                  \A k \in TopicKey, x \in Roles : <<name, k, x>> \in ExcusedAfter(r)
             /\ /\ r.from # Nobody /\ r.op \in Withdrawals
                /\ Sharers(name, r.key, role) \ {r.from} # {}
                => <<name, r.key, role>> \in ExcusedAfter(r)
<1> DEFINE name   == r.node.node_name
           role   == RoleIn(r.op)
           entry  == <<name, r.key, role>>
           others == Sharers(name, r.key, role) \ {r.from}
<1>1. /\ excused \subseteq Names \X TopicKey \X Roles
      /\ name \in Names /\ r.key \in TopicKey /\ role \in Roles
      /\ entry \in Names \X TopicKey \X Roles
  BY Typed DEF IndInv, TypeOK, RoleIn, Roles
<1>2. ExcusedAfter(r) =
        IF r.from = Nobody THEN excused \cup ({name} \X TopicKey \X Roles)
        ELSE IF r.op \in Registrations \/ others = {}
             THEN excused \ {entry} ELSE excused \cup {entry}
  BY DEF ExcusedAfter
<1>3. r.op \in Withdrawals => r.op \notin Registrations
  BY DEF Withdrawals, Registrations
<1> HIDE DEF name, role, others
<1>4. CASE r.from = Nobody
  <2>1. ExcusedAfter(r) = excused \cup ({name} \X TopicKey \X Roles)
    BY <1>2, <1>4
  <2> QED BY <1>1, <1>4, <2>1 DEF name, role
<1>5. CASE r.from # Nobody
  <2>1. ExcusedAfter(r) \in {excused \ {entry}, excused \cup {entry}}
    BY <1>2, <1>5
  <2>2. r.op \in Withdrawals /\ others # {} => entry \in ExcusedAfter(r)
    BY <1>2, <1>3, <1>5
  <2>3. \A x : x \notin ExcusedAfter(r) /\ x # entry => x \notin excused
    BY <2>1
  <2>4. ExcusedAfter(r) \subseteq Names \X TopicKey \X Roles
    BY <1>1, <2>1
  <2> QED BY <1>5, <2>2, <2>3, <2>4 DEF name, role, others
<1> QED BY <1>4, <1>5

(* The request of an object is answered, that of nobody goes.              *)
LEMMA Answering ==
  ASSUME IndInv, NEW r \in requests, Handle(r)
  PROVE  /\ RequestsMatch' /\ OneEach' /\ MasterThere'
         /\ \A h \in Handles : h # r.from => (Answered(h)' <=> Answered(h))
<1> DEFINE done == [r EXCEPT !.answered = TRUE]
<1>1. /\ requests' = (requests \ {r}) \cup (IF r.from = Nobody THEN {} ELSE {done})
      /\ objects' = objects /\ addr' = addr /\ master /\ master' = master
  BY DEF Handle
<1>2. /\ done \in RequestSet /\ done.from = r.from /\ done.op = r.op /\ done.key = r.key
      /\ done.node = r.node
  BY Typed DEF RequestSet
<1> HIDE DEF done
<1>3. ASSUME NEW q \in requests' PROVE q \in RequestSet /\ (q.from # Nobody => Matches(q)')
  <2>1. CASE q = done
    <3>1. r.from # Nobody => Matches(r)
      BY DEF IndInv, RequestsMatch
    <3> QED BY <1>1, <1>2, <2>1, <3>1 DEF Matches, Pending
  <2>2. CASE q \in requests
    BY <1>1, <2>2 DEF IndInv, RequestsMatch, Matches, Pending
  <2> QED BY <1>1, <2>1, <2>2
<1>4. RequestsMatch'
  <2>1. RequestSet' = RequestSet
    BY DEF RequestSet, Graph!NodeInfo, TopicKey, Graph!TopicKey
  <2> QED BY <1>3, <2>1 DEF RequestsMatch
<1>5. \A q \in requests : q.from = r.from /\ r.from # Nobody => q = r
  BY Typed DEF OneEach
<1>6. OneEach'
  <2> SUFFICES ASSUME NEW p \in requests', NEW q \in requests', p.from = q.from,
                      p.from # Nobody
               PROVE  p = q
    BY DEF OneEach
  <2>1. \A x \in requests' : x = done \/ (x \in requests /\ x # r)
    BY <1>1
  <2>2. CASE p \in requests /\ q \in requests
    BY <2>2, Typed DEF OneEach
  <2> QED BY <1>2, <1>5, <2>1, <2>2
<1>7. MasterThere'
  BY <1>1 DEF MasterThere
<1>8. ASSUME NEW h \in Handles, h # r.from PROVE Answered(h)' <=> Answered(h)
  BY <1>1, <1>2, <1>8 DEF Answered
<1> QED BY <1>4, <1>6, <1>7, <1>8

(* Each handler changes what its request asks for and nothing of others.   *)
LEMMA Handled ==
  ASSUME IndInv, NEW r \in requests, Handle(r)
  PROVE  LET name == r.node.node_name
             role == RoleIn(r.op)
         IN  /\ GraphInv'
             /\ \A n : n # name =>
                  /\ n \in DOMAIN nodes' <=> n \in DOMAIN nodes
                  /\ n \in DOMAIN nodes => nodes'[n].info = nodes[n].info
             /\ \A n : \A x \in Roles : <<n, x>> # <<name, role>> => Listed(n, x)' = Listed(n, x)
             /\ r.op \in Registrations =>
                  /\ nodes'[name].info = r.node
                  /\ Listed(name, role)' = Listed(name, role) \cup {r.key}
             /\ r.op \in Withdrawals =>
                  /\ \A n \in DOMAIN nodes' : nodes'[n].info = nodes[n].info
                  /\ Listed(name, role)' = Listed(name, role) \ {r.key}
<1> DEFINE name == r.node.node_name
<1>1. /\ GraphInv /\ r.node \in Graph!NodeInfo /\ r.key \in TopicKey /\ r.op \in Ops
  BY Typed DEF IndInv, RequestSet
<1>2. CASE r.op = "Subscribe"
  <2>1. Graph!AddSubscriber(r.node, r.key)
    BY <1>2, Dispatch DEF Handle, Handler
  <2>2. /\ GraphInv' /\ OthersKept(name) /\ nodes'[name].info = r.node
        /\ Pub(name)' = Pub(name) /\ Sub(name)' = Sub(name) \cup {r.key}
    BY <1>1, <2>1, SubscriberAdded
  <2> QED BY <1>2, <2>2, ListedRoles
          DEF OthersKept, RoleIn, Roles, Registrations, Withdrawals
<1>3. CASE r.op = "RegisterPublisher"
  <2>1. Graph!AddPublisher(r.node, r.key)
    BY <1>3, Dispatch DEF Handle, Handler
  <2>2. /\ GraphInv' /\ OthersKept(name) /\ nodes'[name].info = r.node
        /\ Pub(name)' = Pub(name) \cup {r.key} /\ Sub(name)' = Sub(name)
    BY <1>1, <2>1, PublisherAdded
  <2> QED BY <1>3, <2>2, ListedRoles
          DEF OthersKept, RoleIn, Roles, Registrations, Withdrawals
<1>4. CASE r.op = "Unsubscribe"
  <2>1. Graph!RemoveSubscriber(r.node, r.key)
    BY <1>4, Dispatch DEF Handle, Handler
  <2>2. /\ GraphInv' /\ OthersKept(name)
        /\ \A n \in DOMAIN nodes' : nodes'[n].info = nodes[n].info
        /\ Pub(name)' = Pub(name) /\ Sub(name)' = Sub(name) \ {r.key}
    BY <1>1, <2>1, SubscriberRemoved
  <2> QED BY <1>4, <2>2, ListedRoles
          DEF OthersKept, RoleIn, Roles, Registrations, Withdrawals
<1>5. CASE r.op = "UnregisterPublisher"
  <2>1. Graph!RemovePublisher(r.node, r.key)
    BY <1>5, Dispatch DEF Handle, Handler
  <2>2. /\ GraphInv' /\ OthersKept(name)
        /\ \A n \in DOMAIN nodes' : nodes'[n].info = nodes[n].info
        /\ Pub(name)' = Pub(name) \ {r.key} /\ Sub(name)' = Sub(name)
    BY <1>1, <2>1, PublisherRemoved
  <2> QED BY <1>5, <2>2, ListedRoles
          DEF OthersKept, RoleIn, Roles, Registrations, Withdrawals
<1> QED BY <1>1, <1>2, <1>3, <1>4, <1>5 DEF Ops, Registrations, Withdrawals

(* Who waits for the request, and what its object is. *)
LEMMA Sender ==
  ASSUME IndInv, NEW r \in requests, r.from # Nobody
  PROVE  /\ r.from \in Handles /\ r.from[1] = r.node.node_name
         /\ r.node.addr = addr[r.from[1]]
         /\ objects[r.from] # NoObject
         /\ RoleOf(r.from) = <<r.node.node_name, r.key, RoleIn(r.op)>>
         /\ r.op \in Registrations => objects[r.from].stage = "registering"
         /\ r.op \in Withdrawals => objects[r.from].stage \in {"unregistering", "closing"}
<1>1. /\ r.from \in Handles /\ Matches(r) /\ r.op \in Ops
  BY DEF IndInv, RequestsMatch, RequestSet
<1>2. /\ Pending(r.from) /\ r.op = OpOf(objects[r.from]) /\ objects[r.from].key = r.key
      /\ r.from[1] = r.node.node_name /\ r.node.addr = addr[r.from[1]]
  BY <1>1 DEF Matches
<1>3. objects[r.from] # NoObject /\ objects[r.from].role \in Roles
  BY <1>1, <1>2, Typed DEF Pending
<1>4. objects[r.from].role = RoleIn(r.op)
  BY <1>2, <1>3 DEF OpOf, RoleIn, Roles
<1> QED BY <1>1, <1>2, <1>3, <1>4 DEF OpOf, Pending, Registrations, Withdrawals, RoleOf

LEMMA HandleKeeps ==
  ASSUME IndInv, NEW r \in requests, Handle(r)
  PROVE  IndInv'
<1> DEFINE name == r.node.node_name
           k    == r.key
           role == RoleIn(r.op)
<1>1. /\ objects' = objects /\ addr' = addr /\ excused' = ExcusedAfter(r) /\ stuck' = stuck
      /\ r.op \in Ops /\ role \in Roles /\ k \in TopicKey
  BY Typed DEF Handle, RequestSet, RoleIn, Roles
<1>2. /\ RequestsMatch' /\ OneEach' /\ MasterThere'
      /\ \A h \in Handles : h # r.from => (Answered(h)' <=> Answered(h))
  BY Answering
<1>3. /\ GraphInv'
      /\ \A n : n # name =>
           /\ n \in DOMAIN nodes' <=> n \in DOMAIN nodes
           /\ n \in DOMAIN nodes => nodes'[n].info = nodes[n].info
      /\ \A n : \A x \in Roles : <<n, x>> # <<name, role>> => Listed(n, x)' = Listed(n, x)
      /\ r.op \in Registrations => /\ nodes'[name].info = r.node
                                   /\ Listed(name, role)' = Listed(name, role) \cup {k}
      /\ r.op \in Withdrawals =>
           /\ \A n \in DOMAIN nodes' : nodes'[n].info = nodes[n].info
           /\ Listed(name, role)' = Listed(name, role) \ {k}
  BY Handled
<1>4. /\ excused' \subseteq Names \X TopicKey \X Roles
      /\ \A n, j, x : /\ <<n, j, x>> \notin excused'
                      /\ <<n, j, x>> # <<name, k, role>>
                      => <<n, j, x>> \notin excused
      /\ r.from = Nobody => \A j \in TopicKey, x \in Roles : <<name, j, x>> \in excused'
      /\ /\ r.from # Nobody /\ r.op \in Withdrawals
         /\ Sharers(name, k, role) \ {r.from} # {}
         => <<name, k, role>> \in excused'
  BY <1>1, Excuses
<1>5. r.from # Nobody =>
        /\ r.from \in Handles /\ r.from[1] = name
        /\ r.node.addr = addr[name]
        /\ objects[r.from] # NoObject
        /\ RoleOf(r.from) = <<name, k, role>>
        /\ r.op \in Registrations => objects[r.from].stage = "registering"
        /\ r.op \in Withdrawals => objects[r.from].stage \in {"unregistering", "closing"}
  BY Sender
<1> HIDE DEF name, k, role
<1>6. \A h \in Handles : Established(h)' \/ Established(h) =>
        /\ objects[h] # NoObject /\ objects[h].role \in Roles /\ objects[h].key \in TopicKey
        /\ h # Nobody
  BY <1>1, Typed DEF Established
<1>7. ASSUME NEW h \in Handles, Established(h)', RoleOf(h) \notin excused'
      PROVE  Standing(h)'
  <2> DEFINE n == h[1]
  <2>1. PICK j \in TopicKey, x \in Roles : RoleOf(h) = <<n, j, x>>
    BY <1>6, <1>7 DEF RoleOf
  <2>2. ASSUME r.from # Nobody /\ n = name => <<n, j, x>> # <<name, k, role>>
        PROVE  j \in Listed(n, x) /\ nodes[n].info.addr = addr[n]
    <3>1. h # r.from
      BY <1>5, <1>6, <1>7, <2>1, <2>2 DEF n
    <3>2. Established(h)
      BY <1>1, <1>2, <1>7, <3>1 DEF Established
    <3>3. <<n, j, x>> # <<name, k, role>>
      BY <1>4, <1>7, <2>1, <2>2
    <3>4. RoleOf(h) \notin excused
      BY <1>4, <1>7, <2>1, <3>3
    <3>5. Standing(h)
      BY <3>2, <3>4 DEF IndInv, EstablishedStand
    <3> QED BY <2>1, <3>5 DEF Standing, RoleOf
  <2> HIDE DEF n
  <2>3. SUFFICES j \in Listed(n, x)' /\ nodes'[n].info.addr = addr[n]
    BY <1>1, <2>1 DEF Standing, RoleOf, n
  <2>4. CASE n # name
    <3>1. j \in Listed(n, x) /\ nodes[n].info.addr = addr[n]
      BY <2>2, <2>4
    <3>2. n \in DOMAIN nodes
      BY <3>1, ListedThere
    <3>3. Listed(n, x)' = Listed(n, x)
      BY <1>3, <2>1, <2>4
    <3> QED BY <1>3, <2>4, <3>1, <3>2, <3>3
  <2>5. CASE n = name
    <3>1. r.from # Nobody
      BY <1>4, <1>7, <2>1, <2>5
    <3>2. r.node.addr = addr[n]
      BY <1>5, <2>5, <3>1
    <3>3. CASE r.op \in Registrations
      <4>1. nodes'[n].info.addr = addr[n]
        BY <1>3, <2>5, <3>2, <3>3
      <4>2. CASE x = role /\ j = k
        BY <1>3, <2>5, <3>3, <4>1, <4>2
      <4>3. CASE ~(x = role /\ j = k)
        <5>1. j \in Listed(n, x)
          BY <2>2, <4>3
        <5>2. CASE x = role
          BY <1>3, <2>5, <3>3, <4>1, <5>1, <5>2
        <5>3. CASE x # role
          BY <1>3, <2>1, <4>1, <5>1, <5>3
        <5> QED BY <5>2, <5>3
      <4> QED BY <4>2, <4>3
    <3>4. CASE r.op \in Withdrawals
      <4>1. h # r.from
        BY <1>1, <1>5, <1>7, <3>1, <3>4 DEF Established
      <4>2. ~(x = role /\ j = k)
        <5> SUFFICES ASSUME x = role, j = k PROVE FALSE
          OBVIOUS
        <5>1. h \in Sharers(name, k, role) \ {r.from}
          BY <1>6, <1>7, <2>1, <2>5, <4>1 DEF Sharers, RoleOf, n
        <5>2. <<n, j, x>> \in excused'
          BY <1>4, <2>5, <3>1, <3>4, <5>1
        <5> QED BY <1>7, <2>1, <5>2
      <4>3. j \in Listed(n, x) /\ nodes[n].info.addr = addr[n]
        BY <2>2, <4>2
      <4>4. j \in Listed(n, x)'
        <5>1. CASE x = role
          BY <1>3, <2>5, <3>4, <4>2, <4>3, <5>1
        <5>2. CASE x # role
          BY <1>3, <2>1, <4>3, <5>2
        <5> QED BY <5>1, <5>2
      <4>5. n \in DOMAIN nodes'
        BY <4>4, ListedThere
      <4> QED BY <1>3, <3>4, <4>3, <4>4, <4>5
    <3> QED BY <1>1, <3>3, <3>4 DEF Ops
  <2> QED BY <2>4, <2>5
<1>8. EstablishedStand'
  <2>1. \A h : RoleOf(h)' = RoleOf(h)
    BY <1>1 DEF RoleOf
  <2> QED BY <1>7, <2>1 DEF EstablishedStand
<1>9. \A n, j, x : Sharers(n, j, x)' = Sharers(n, j, x)
  BY <1>1 DEF Sharers
<1>10. ASSUME NEW n \in Names, NEW j \in TopicKey, NEW x \in Roles, j \in Listed(n, x)',
              <<n, j, x>> \notin excused'
       PROVE  Held(n, j, x)'
  <2>1. CASE <<n, j, x>> # <<name, k, role>>
    <3>1. j \in Listed(n, x)
      <4>1. CASE n = name /\ x = role
        BY <1>1, <1>3, <1>10, <2>1, <4>1 DEF Ops
      <4>2. CASE ~(n = name /\ x = role)
        BY <1>3, <1>10, <4>2
      <4> QED BY <4>1, <4>2
    <3>2. PICK h \in Sharers(n, j, x) : ~Withdrawn(h)
      BY <1>4, <1>10, <2>1, <3>1 DEF IndInv, HoldersThere, Held
    <3>3. h \in Handles /\ RoleOf(h) = <<n, j, x>>
      BY DEF Sharers, RoleOf
    <3>4. h # r.from
      BY <1>5, <2>1, <3>3, Typed
    <3>5. ~Withdrawn(h)'
      BY <1>1, <1>2, <3>2, <3>3, <3>4 DEF Withdrawn
    <3> QED BY <1>9, <3>2, <3>5 DEF Held
  <2>2. CASE <<n, j, x>> = <<name, k, role>>
    <3>1. r.from # Nobody
      BY <1>1, <1>4, <1>10, <2>2
    <3>2. r.op \in Registrations
      BY <1>1, <1>3, <1>10, <2>2 DEF Ops
    <3>3. r.from \in Sharers(n, j, x)
      BY <1>5, <2>2, <3>1 DEF Sharers, RoleOf
    <3>4. ~Withdrawn(r.from)'
      BY <1>1, <1>5, <3>1, <3>2 DEF Withdrawn
    <3> QED BY <1>9, <3>3, <3>4 DEF Held
  <2> QED BY <2>1, <2>2
<1>11. HoldersThere'
  BY <1>10 DEF HoldersThere
<1>12. ClosersPublish'
  BY <1>1 DEF IndInv, ClosersPublish
<1>13. TypeOK'
  <2>1. /\ addr' \in [Names -> Addrs] /\ objects' \in [Handles -> Object \cup {NoObject}]
        /\ stuck' \subseteq Handles
    BY <1>1 DEF IndInv, TypeOK
  <2> QED BY <1>2, <1>3, <1>4, <2>1, TypesKept
<1> QED BY <1>2, <1>3, <1>8, <1>11, <1>12, <1>13 DEF IndInv

-----------------------------------------------------------------------------
(* The theorems.                                                           *)

(* The graph, the requests on their way, the objects and the excuses stay  *)
(* related as IndInv says, whatever fails: the properties follow from it.  *)
LEMMA InductiveInvariant == Spec => []IndInv
<1>1. Init => IndInv
  BY InitInductive
<1>2. IndInv /\ [Next]_vars => IndInv'
  <2> SUFFICES ASSUME IndInv, [Next]_vars PROVE IndInv'
    OBVIOUS
  <2>1. ASSUME NEW h \in Handles, NEW k \in TopicKey, Advertise(h, k) \/ Subscribe(h, k)
        PROVE  IndInv'
    BY <2>1, RegistrationKeeps DEF Advertise, Subscribe, Registrations
  <2>2. ASSUME NEW h \in Handles, Unregister(h) \/ Unsubscribe(h) \/ DestroyPublisher(h)
        PROVE  IndInv'
    BY <2>2, WithdrawalKeeps
  <2>3. ASSUME NEW h \in Handles, DestroySubscriber(h) PROVE IndInv'
    BY <2>3, SubscriberGoneKeeps
  <2>4. ASSUME NEW h \in Handles, Return(h) \/ Fail(h) PROVE IndInv'
    BY <2>4, CallEndsKeeps
  <2>5. ASSUME NEW r \in requests, Handle(r) PROVE IndInv'
    BY <2>5, HandleKeeps
  <2>6. ASSUME NEW h \in Handles, Break(h) PROVE IndInv'
    BY <2>6, BreakKeeps
  <2>7. ASSUME NEW r \in requests, Lose(r) PROVE IndInv'
    BY <2>7, LoseKeeps
  <2>8. ASSUME NEW name \in Names, NodeRestarts(name) PROVE IndInv'
    BY <2>8, NodeRestartsKeeps
  <2>9. CASE MasterEnds
    BY <2>9, MasterEndsKeeps
  <2>10. CASE MasterStarts \/ UNCHANGED vars
    BY <2>10, MasterStartsKeeps
  <2> QED BY <2>1, <2>2, <2>3, <2>4, <2>5, <2>6, <2>7, <2>8, <2>9, <2>10
          DEF Next, Application, Fault
<1> QED BY <1>1, <1>2, PTL DEF Spec

(* The graph is well formed, an object waits for at most one request, and  *)
(* no request outlives the master it was sent to.                          *)
THEOREM TypeCorrect == Spec => []TypeOK
<1>1. IndInv => TypeOK
  BY DEF IndInv
<1> QED BY <1>1, InductiveInvariant, PTL

(* The master has the role of every object in use, and its node's present  *)
(* address, unless a failure or another object of the node that shares the *)
(* registration disturbed it and none was handled since.                   *)
THEOREM RegistrationsStand == Spec => []RegistrationStands
<1>1. IndInv => RegistrationStands
  <2> SUFFICES ASSUME IndInv, NEW h \in Handles, objects[h].stage = "live",
                      RoleOf(h) \notin excused
               PROVE  /\ objects[h].key \in Listed(h[1], objects[h].role)
                      /\ nodes[h[1]].info.addr = addr[h[1]]
    BY DEF RegistrationStands, RoleOf
  <2> QED BY DEF IndInv, EstablishedStand, Established, Standing
<1> QED BY <1>1, InductiveInvariant, PTL

(* The master lists a node for nothing that no object of the node stands   *)
(* for, with the same excuses, a Subscriber's destructor among them.       *)
THEOREM NoGhosts == Spec => []NoGhost
<1>1. IndInv => NoGhost
  BY DEF IndInv, HoldersThere, Held, NoGhost
<1> QED BY <1>1, InductiveInvariant, PTL
=============================================================================
