--------------------------- MODULE RosRpcQueries ---------------------------
(***************************************************************************)
(* The query side of the master's rpc service (ros_rpc_server.cpp):        *)
(* GetNodes, GetNodeInfo, GetTopics and GetTopicInfo.  A handler reads the *)
(* graph in several calls, and the registrations of other threads, each a  *)
(* single step on the graph here, fall between them: mtx_ only keeps       *)
(* GetTopics and GetTopicInfo apart from one another.  The filters of      *)
(* GetNodes and GetTopics are left out (as if empty).                      *)
(***************************************************************************)
EXTENDS Integers

CONSTANTS Names, Addrs, Topics, Types,  \* as in MessageGraph
          Threads,                      \* gRPC worker threads
          NoThread,                     \* the owner of a free mutex
          MaxChurn                      \* bound: registrations and withdrawals
                                        \* while a query is under way

ASSUME ThreadsAssumption == NoThread \notin Threads
ASSUME ChurnAssumption == MaxChurn \in Nat

VARIABLES nodes, publishers_by_topic, subscribers_by_topic, edges,
          query,    \* what each thread is doing, and what it has read
          mtx_,     \* the thread that owns the service's mutex
          during,   \* the roles held at some time, and all the time, since
                    \* the thread's query began
          churn     \* changes since the oldest query under way began

Graph == INSTANCE MessageGraph

graphVars == <<nodes, publishers_by_topic, subscribers_by_topic, edges>>
vars == <<graphVars, query, mtx_, during, churn>>

TopicKey == Graph!TopicKey

Roles == [name : Names, role : {"publishes", "subscribes"}, key : TopicKey]

(* Who publishes and subscribes to what, now. *)
Held == {r \in Roles : r.key \in IF r.role = "publishes"
                                 THEN Graph!PublishesOf(r.name)
                                 ELSE Graph!SubscribesOf(r.name)}

Idle == [pc |-> "idle"]

(* A query under way: what it was asked for, the nodes it still visits,    *)
(* and its response: whether it succeeds, the contacts, the keys, and the  *)
(* message type found for each topic, as a set of keys.                    *)
Busy == [pc : {"HasNode", "GetNodeByName", "AllNodes", "PublishKeys",
               "SubscribeKeys", "Publishers", "Subscribers", "reply"},
         op : {"GetNodes", "GetNodeInfo", "GetTopics", "GetTopicInfo"},
         name : Names, topic : Topics,
         toVisit : SUBSET Names,
         success : BOOLEAN,
         node_info : SUBSET Graph!NodeInfo,
         publishes : SUBSET TopicKey, subscribes : SUBSET TopicKey,
         topics : SUBSET TopicKey,
         publishers : SUBSET Graph!NodeInfo, subscribers : SUBSET Graph!NodeInfo]

Init == /\ Graph!Init
        /\ query = [t \in Threads |-> Idle]
        /\ mtx_ = NoThread
        /\ during = [t \in Threads |-> [some |-> {}, always |-> {}]]
        /\ churn = 0

-----------------------------------------------------------------------------
(* A registration or a withdrawal by another thread. *)
Change ==
  /\ Graph!Next
  /\ churn' = IF \E t \in Threads : query[t] # Idle THEN churn + 1 ELSE 0
  /\ churn' <= MaxChurn
  /\ during' = [t \in Threads |->
                  IF query[t] = Idle THEN during[t]
                  ELSE [some   |-> during[t].some \cup Held',
                        always |-> during[t].always \cap Held']]
  /\ UNCHANGED <<query, mtx_>>

(* The steps of a query leave the graph alone. *)
Continues(t, new) ==
  /\ query' = [query EXCEPT ![t] = new]
  /\ UNCHANGED <<graphVars, during, churn>>

Begin(t, op, name, topic, pc) ==
  /\ query[t] = Idle
  /\ query' = [query EXCEPT ![t] =
       [pc |-> pc, op |-> op, name |-> name, topic |-> topic,
        toVisit |-> {}, success |-> TRUE, node_info |-> {},
        publishes |-> {}, subscribes |-> {}, topics |-> {},
        publishers |-> {}, subscribers |-> {}]]
  /\ during' = [during EXCEPT ![t] = [some |-> Held, always |-> Held]]
  /\ UNCHANGED <<graphVars, churn>>

At(t, op, pc) == /\ query[t] # Idle
                 /\ query[t].op = op
                 /\ query[t].pc = pc

Lock(t) == mtx_ = NoThread /\ mtx_' = t

(* Faulty variant: the mutex stays locked. *)
UnlockNever(t) == UNCHANGED mtx_

Unlock(t) == mtx_' = IF mtx_ = t THEN NoThread ELSE mtx_

-----------------------------------------------------------------------------
(* GetNodes: one read of the graph. *)
GetNodes(t) ==
  /\ \E name \in Names, topic \in Topics : Begin(t, "GetNodes", name, topic, "AllNodes")
  /\ UNCHANGED mtx_

GetNodesAll(t) ==
  /\ At(t, "GetNodes", "AllNodes")
  /\ Continues(t, [query[t] EXCEPT !.pc = "reply", !.node_info = Graph!GetAllNodes])
  /\ UNCHANGED mtx_

-----------------------------------------------------------------------------
(* GetNodeInfo: four reads, the second of which may find nothing: the      *)
(* result of GetNodeByName is not looked at, and node_info stays empty.    *)
GetNodeInfo(t) ==
  /\ \E name \in Names, topic \in Topics : Begin(t, "GetNodeInfo", name, topic, "HasNode")
  /\ UNCHANGED mtx_

GetNodeInfoHasNode(t) ==
  /\ At(t, "GetNodeInfo", "HasNode")
  /\ Continues(t, IF Graph!HasNode(query[t].name)
                  THEN [query[t] EXCEPT !.pc = "GetNodeByName"]
                  ELSE [query[t] EXCEPT !.pc = "reply", !.success = FALSE])
  /\ UNCHANGED mtx_

GetNodeInfoByName(t) ==
  /\ At(t, "GetNodeInfo", "GetNodeByName")
  /\ Continues(t, [query[t] EXCEPT !.pc = "PublishKeys",
                     !.node_info = {nodes[n].info : n \in DOMAIN nodes \cap {query[t].name}}])
  /\ UNCHANGED mtx_

GetNodeInfoPublishes(t) ==
  /\ At(t, "GetNodeInfo", "PublishKeys")
  /\ Continues(t, [query[t] EXCEPT !.pc = "SubscribeKeys",
                     !.publishes = Graph!PublishesOf(query[t].name)])
  /\ UNCHANGED mtx_

GetNodeInfoSubscribes(t) ==
  /\ At(t, "GetNodeInfo", "SubscribeKeys")
  /\ Continues(t, [query[t] EXCEPT !.pc = "reply",
                     !.subscribes = Graph!SubscribesOf(query[t].name)])
  /\ UNCHANGED mtx_

-----------------------------------------------------------------------------
(* GetTopics holds mtx_.  It lists the nodes and then, node by node, adds  *)
(* what the node publishes and what it subscribes to.                      *)
GetTopics(t) ==
  /\ Lock(t)
  /\ \E name \in Names, topic \in Topics : Begin(t, "GetTopics", name, topic, "AllNodes")

GetTopicsList(t) ==
  /\ At(t, "GetTopics", "AllNodes")
  /\ Continues(t, [query[t] EXCEPT
       !.toVisit = {i.node_name : i \in Graph!GetAllNodes},
       !.pc = IF Graph!GetAllNodes = {} THEN "reply" ELSE "PublishKeys"])
  /\ UNCHANGED mtx_

(* The key a map from topic to message type keeps for a topic when several *)
(* are assigned: any of the new ones, the old one only without a new one.  *)
Assign(map, keys) ==
  {m \in SUBSET (map \cup keys) :
     /\ \A topic \in Topics :
          LET new == {k \in keys : k.topic = topic}
              old == {k \in map : k.topic = topic}
              now == {k \in m : k.topic = topic}
          IN  IF new = {} THEN now = old ELSE \E k \in new : now = {k}}

GetTopicsPublishes(t) ==
  /\ At(t, "GetTopics", "PublishKeys")
  /\ \E name \in query[t].toVisit :
       \E map \in Assign(query[t].topics, Graph!PublishesOf(name)) :
         Continues(t, [query[t] EXCEPT !.pc = "SubscribeKeys", !.name = name, !.topics = map])
  /\ UNCHANGED mtx_

GetTopicsSubscribes(t) ==
  LET q    == query[t]
      rest == q.toVisit \ {q.name}
  IN  /\ At(t, "GetTopics", "SubscribeKeys")
      /\ \E map \in Assign(q.topics, Graph!SubscribesOf(q.name)) :
           Continues(t, [q EXCEPT !.pc = IF rest = {} THEN "reply" ELSE "PublishKeys",
                                  !.toVisit = rest, !.topics = map])
      /\ UNCHANGED mtx_

-----------------------------------------------------------------------------
(* GetTopicInfo holds mtx_, stops at the first node that has the topic,    *)
(* and then asks for the publishers and the subscribers.                   *)
GetTopicInfo(t) ==
  /\ Lock(t)
  /\ \E name \in Names, topic \in Topics : Begin(t, "GetTopicInfo", name, topic, "AllNodes")

NotFound(q) == [q EXCEPT !.pc = "reply", !.success = FALSE]

GetTopicInfoList(t) ==
  /\ At(t, "GetTopicInfo", "AllNodes")
  /\ Continues(t, IF Graph!GetAllNodes = {} THEN NotFound(query[t])
                  ELSE [query[t] EXCEPT !.pc = "PublishKeys",
                          !.toVisit = {i.node_name : i \in Graph!GetAllNodes}])
  /\ UNCHANGED mtx_

(* The query goes on with any of the keys found, or as `otherwise` says. *)
Found(t, q, keys, otherwise) ==
  LET same == {k \in keys : k.topic = q.topic}
  IN  IF same = {} THEN Continues(t, otherwise)
      ELSE \E k \in same : Continues(t, [q EXCEPT !.pc = "Publishers", !.topics = {k}])

GetTopicInfoPublishes(t) ==
  /\ At(t, "GetTopicInfo", "PublishKeys")
  /\ \E name \in query[t].toVisit :
       LET q == [query[t] EXCEPT !.name = name]
       IN  Found(t, q, Graph!PublishesOf(name), [q EXCEPT !.pc = "SubscribeKeys"])
  /\ UNCHANGED mtx_

(* Faulty variant: the search ends with the first node. *)
GetTopicInfoFirstOnly(t) ==
  LET q == query[t]
  IN  /\ At(t, "GetTopicInfo", "SubscribeKeys")
      /\ Found(t, q, Graph!SubscribesOf(q.name), NotFound(q))
      /\ UNCHANGED mtx_

GetTopicInfoSubscribes(t) ==
  LET q    == query[t]
      rest == q.toVisit \ {q.name}
  IN  /\ At(t, "GetTopicInfo", "SubscribeKeys")
      /\ Found(t, q, Graph!SubscribesOf(q.name),
               IF rest = {} THEN NotFound(q)
               ELSE [q EXCEPT !.pc = "PublishKeys", !.toVisit = rest])
      /\ UNCHANGED mtx_

(* Faulty variant: the subscribers are listed as publishers. *)
GetTopicInfoSwapped(t) ==
  /\ At(t, "GetTopicInfo", "Publishers")
  /\ \E infos \in Graph!GetSubscribersByTopic(query[t].topic) :
       Continues(t, [query[t] EXCEPT !.pc = "Subscribers", !.publishers = infos])
  /\ UNCHANGED mtx_

GetTopicInfoPublishers(t) ==
  /\ At(t, "GetTopicInfo", "Publishers")
  /\ \E infos \in Graph!GetPublishersByTopic(query[t].topic) :
       Continues(t, [query[t] EXCEPT !.pc = "Subscribers", !.publishers = infos])
  /\ UNCHANGED mtx_

GetTopicInfoSubscribers(t) ==
  /\ At(t, "GetTopicInfo", "Subscribers")
  /\ \E infos \in Graph!GetSubscribersByTopic(query[t].topic) :
       Continues(t, [query[t] EXCEPT !.pc = "reply", !.subscribers = infos])
  /\ UNCHANGED mtx_

-----------------------------------------------------------------------------
(* The response is sent and the lock, if held, is released. *)
Reply(t) ==
  /\ query[t].pc = "reply"
  /\ query' = [query EXCEPT ![t] = Idle]
  /\ Unlock(t)
  /\ during' = [during EXCEPT ![t] = [some |-> {}, always |-> {}]]
  /\ churn' = IF \E u \in Threads \ {t} : query[u] # Idle THEN churn ELSE 0
  /\ UNCHANGED graphVars

Step(t) == \/ GetNodes(t)
           \/ GetNodesAll(t)
           \/ GetNodeInfo(t)
           \/ GetNodeInfoHasNode(t)
           \/ GetNodeInfoByName(t)
           \/ GetNodeInfoPublishes(t)
           \/ GetNodeInfoSubscribes(t)
           \/ GetTopics(t)
           \/ GetTopicsList(t)
           \/ GetTopicsPublishes(t)
           \/ GetTopicsSubscribes(t)
           \/ GetTopicInfo(t)
           \/ GetTopicInfoList(t)
           \/ GetTopicInfoPublishes(t)
           \/ GetTopicInfoSubscribes(t)
           \/ GetTopicInfoPublishers(t)
           \/ GetTopicInfoSubscribers(t)
           \/ Reply(t)

Next == Change \/ \E t \in Threads : Step(t)

Spec == Init /\ [][Next]_vars

-----------------------------------------------------------------------------
(* Properties.  A query reads in several steps what others are changing,   *)
(* so its response is not a snapshot; it still relates to what was true    *)
(* while it ran.                                                           *)

(* Type invariant: responses under construction are well formed, and the   *)
(* mutex is held by a query that takes it, and only from when it begins    *)
(* until it replies.                                                       *)
TypeOK == /\ Graph!TypeOK
          /\ query \in [Threads -> Busy \cup {Idle}]
          /\ mtx_ \in Threads \cup {NoThread}
          /\ \A t \in Threads :
               mtx_ = t <=> query[t] # Idle /\ query[t].op \in {"GetTopics", "GetTopicInfo"}
          /\ during \in [Threads -> [some : SUBSET Roles, always : SUBSET Roles]]
          /\ churn \in 0..MaxChurn

Replies(t, op) == /\ query[t] # Idle
                  /\ query[t].op = op
                  /\ query[t].pc = "reply"

Keys(roles, role, name) == {r.key : r \in {h \in roles : h.role = role /\ h.name = name}}

(* Nothing in a response is made up: each key that GetNodeInfo lists was   *)
(* the node's, each topic and type of GetTopics was somebody's, and each   *)
(* node that GetTopicInfo lists had that role in that topic, at some time  *)
(* while the query ran.                                                    *)
NothingInvented ==
  \A t \in Threads :
    LET q    == query[t]
        some == during[t].some
    IN  /\ Replies(t, "GetNodeInfo") =>
             /\ q.publishes \subseteq Keys(some, "publishes", q.name)
             /\ q.subscribes \subseteq Keys(some, "subscribes", q.name)
        /\ Replies(t, "GetTopics") => q.topics \subseteq {r.key : r \in some}
        /\ Replies(t, "GetTopicInfo") =>
             /\ q.topics \subseteq {r.key : r \in some}
             /\ \A i \in q.publishers :
                  q.topic \in {k.topic : k \in Keys(some, "publishes", i.node_name)}
             /\ \A i \in q.subscribers :
                  q.topic \in {k.topic : k \in Keys(some, "subscribes", i.node_name)}

(* What one node held all the time is not missed: GetNodeInfo finds the    *)
(* node, with its contact, and lists its keys, GetTopics lists its topics, *)
(* and GetTopicInfo finds its topic.  (A topic that passes from one node   *)
(* to another while the loop is between the two may be missed, though at   *)
(* no time nobody had it.)                                                 *)
NothingMissed ==
  \A t \in Threads :
    LET q      == query[t]
        always == during[t].always
    IN  /\ Replies(t, "GetNodeInfo") =>
             /\ q.name \in {r.name : r \in always} => q.success /\ q.node_info # {}
             /\ Keys(always, "publishes", q.name) \subseteq q.publishes
             /\ Keys(always, "subscribes", q.name) \subseteq q.subscribes
        /\ Replies(t, "GetTopics") =>
             {r.key.topic : r \in always} \subseteq {k.topic : k \in q.topics}
        /\ Replies(t, "GetTopicInfo") /\ ~q.success =>
             q.topic \notin {r.key.topic : r \in always}

(* A node that publishes or subscribes a topic all the time is among the   *)
(* nodes GetTopicInfo lists, as long as no other message type was in use   *)
(* for the topic: then only one bucket can be found.                       *)
TopicInfoComplete ==
  \A t \in Threads :
    LET q     == query[t]
        types == {r.key.msg_type : r \in {h \in during[t].some : h.key.topic = q.topic}}
        Constant(role) == {r.name : r \in {h \in during[t].always :
                                            h.role = role /\ h.key.topic = q.topic}}
    IN  Replies(t, "GetTopicInfo") /\ q.success /\ (\A m1, m2 \in types : m1 = m2) =>
          /\ Constant("publishes") \subseteq {i.node_name : i \in q.publishers}
          /\ Constant("subscribes") \subseteq {i.node_name : i \in q.subscribers}
=============================================================================
