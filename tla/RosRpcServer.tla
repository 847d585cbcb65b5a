---------------------------- MODULE RosRpcServer ----------------------------
(***************************************************************************)
(* The registration side of the master's rpc service (ros_rpc_server.cpp): *)
(* Subscribe, Unsubscribe, RegisterPublisher and UnregisterPublisher, each *)
(* run by a gRPC worker thread.  A handler changes the graph, then queries *)
(* it, then notifies one node after another; no lock is held between these *)
(* steps, so the steps of the threads interleave.  A single call into the  *)
(* graph is one step: the README says what that leaves out.                *)
(*                                                                         *)
(* MasterTcpServer::SendUpdate is here up to the hand-over of contact and  *)
(* update to the event loop (SendUpdatePost); MasterTcpServer.tla models   *)
(* what becomes of them.                                                   *)
(***************************************************************************)
EXTENDS Naturals

CONSTANTS Names, Addrs, Topics, Types,   \* as in MessageGraph
          Threads                        \* gRPC worker threads

VARIABLES nodes, publishers_by_topic, subscribers_by_topic, edges,
          call,     \* what each thread is doing
          told,     \* <<publisher, topic, target>>: the targets a publisher
                    \* has if it starts with none when it registers and
                    \* applies the updates in the order they are posted
          seen      \* <<publisher, topic, subscriber>>: subscribers found by
                    \* RegisterPublisher, unless it was told to drop them

Graph == INSTANCE MessageGraph

graphVars == <<nodes, publishers_by_topic, subscribers_by_topic, edges>>
vars == <<graphVars, call, told, seen>>

NodeInfo == Graph!NodeInfo
TopicKey == Graph!TopicKey

(* A default-constructed NodeInfo: empty name, no address. *)
NoContact == [node_name |-> "", addr |-> ""]

Update == [topic : Topics, add_targets : SUBSET NodeInfo,
           remove_targets : SUBSET NodeInfo]

Ops == {"Subscribe", "Unsubscribe", "RegisterPublisher", "UnregisterPublisher"}

(* A thread at rest, and one with a request: pc says what it does next,    *)
(* remaining which nodes it still has to notify, to the contact that       *)
(* SendUpdate found for the node it is notifying.                          *)
Idle == [pc |-> "idle"]

Busy == [pc : {"query", "lookup", "post", "reply"},
         op : Ops, node : NodeInfo, key : TopicKey,
         update : Update, remaining : SUBSET Names,
         to : NodeInfo \cup {NoContact}]

InFlight(name) ==
  \E t \in Threads : call[t] # Idle /\ call[t].node.node_name = name

Init == /\ Graph!Init
        /\ call = [t \in Threads |-> Idle]
        /\ told = {}
        /\ seen = {}

Publishing(name) == {k.topic : k \in Graph!PublishesOf(name)}
Subscribing(name) == {k.topic : k \in Graph!SubscribesOf(name)}

-----------------------------------------------------------------------------
(* The handlers.                                                           *)

EmptyUpdate(topic) ==
  [topic |-> topic, add_targets |-> {}, remove_targets |-> {}]

(* A request of a node reaches an idle thread.  The stub a node uses is    *)
(* synchronous, so a node has one request under way.                       *)
Accept(t, op, node, k, pc) ==
  /\ call[t] = Idle
  /\ ~InFlight(node.node_name)
  /\ call' = [call EXCEPT ![t] =
                [pc |-> pc, op |-> op, node |-> node, key |-> k,
                 update |-> EmptyUpdate(k.topic), remaining |-> {},
                 to |-> NoContact]]

Subscribe(t, node, k) ==
  /\ Accept(t, "Subscribe", node, k, "query")
  /\ Graph!AddSubscriber(node, k)
  /\ UNCHANGED <<told, seen>>

RegisterPublisher(t, node, k) ==
  /\ Accept(t, "RegisterPublisher", node, k, "query")
  /\ Graph!AddPublisher(node, k)
  /\ UNCHANGED <<told, seen>>

Unsubscribe(t, node, k) ==
  /\ Accept(t, "Unsubscribe", node, k, "query")
  /\ Graph!RemoveSubscriber(node, k)
  /\ UNCHANGED <<told, seen>>

(* Nobody is notified.  A publisher that is gone has no targets. *)
UnregisterPublisher(t, node, k) ==
  LET Registered(x) == x[2] \in Publishing(x[1])'
  IN  /\ Accept(t, "UnregisterPublisher", node, k, "reply")
      /\ Graph!RemovePublisher(node, k)
      /\ told' = {x \in told : Registered(x)}
      /\ seen' = {x \in seen : Registered(x)}

(* Faulty variant: Unsubscribe forgets to name the target to remove. *)
UpdateWithoutRemoval(c, found) ==
  CASE c.op = "Subscribe"   -> [c.update EXCEPT !.add_targets = {c.node}]
    [] c.op = "Unsubscribe" -> c.update
    [] OTHER -> [c.update EXCEPT !.add_targets =
                   IF found = {} THEN {} ELSE {c.node}]

(* The update a handler builds once it knows whom it found, and the nodes  *)
(* it goes to.  RegisterPublisher adds the registering node itself, once   *)
(* for each subscriber it finds, and notifies that node.                   *)
UpdateOf(c, found) ==
  CASE c.op = "Subscribe"   -> [c.update EXCEPT !.add_targets = {c.node}]
    [] c.op = "Unsubscribe" -> [c.update EXCEPT !.remove_targets = {c.node}]
    [] OTHER -> [c.update EXCEPT !.add_targets =
                   IF found = {} THEN {} ELSE {c.node}]

Recipients(c, found) ==
  IF c.op = "RegisterPublisher" THEN {c.node.node_name}
  ELSE {p.node_name : p \in found}

(* Faulty variant: Unsubscribe asks for the subscribers that are left. *)
LookupSubscribersLeft(c) ==
  IF c.op = "Subscribe" THEN Graph!GetPublishersByTopic(c.key.topic)
  ELSE Graph!GetSubscribersByTopic(c.key.topic)

Lookup(c) ==
  IF c.op = "RegisterPublisher" THEN Graph!GetSubscribersByTopic(c.key.topic)
  ELSE Graph!GetPublishersByTopic(c.key.topic)

(* The handler asks the graph for the other side of the topic. *)
Query(t) ==
  /\ call[t].pc = "query"
  /\ \E found \in Lookup(call[t]) :
       LET c  == call[t]
           to == Recipients(c, found)
       IN  /\ call' = [call EXCEPT ![t].pc = IF to = {} THEN "reply" ELSE "lookup",
                                   ![t].update = UpdateOf(c, found),
                                   ![t].remaining = to]
           /\ seen' = IF c.op # "RegisterPublisher" THEN seen
                      ELSE {x \in seen : <<x[1], x[2]>> # <<c.node.node_name, c.key.topic>>}
                           \cup {<<c.node.node_name, c.key.topic, s.node_name>> : s \in found}
  /\ UNCHANGED <<graphVars, told>>

(* Faulty variant: the loop over the nodes ends after the first. *)
SendUpdateFirstOnly(t) ==
  /\ call[t].pc = "lookup"
  /\ \E name \in call[t].remaining :
       call' = [call EXCEPT ![t].pc = "post",
                            ![t].remaining = {},
                            ![t].to = IF Graph!HasNode(name)
                                      THEN nodes[name].info ELSE NoContact]
  /\ UNCHANGED <<graphVars, told, seen>>

(* SendUpdate: the node is looked up again, by name; a miss is logged and  *)
(* leaves the contact empty.  The list is in the order of an unordered     *)
(* set, so any of the remaining nodes may be next.                         *)
SendUpdateLookup(t) ==
  /\ call[t].pc = "lookup"
  /\ \E name \in call[t].remaining :
       call' = [call EXCEPT ![t].pc = "post",
                            ![t].remaining = @ \ {name},
                            ![t].to = IF Graph!HasNode(name)
                                      THEN nodes[name].info ELSE NoContact]
  /\ UNCHANGED <<graphVars, told, seen>>

(* What an update adds to, and takes from, the targets of its recipient.   *)
(* It means nothing to a node that does not publish the topic.             *)
Entries(c, infos) ==
  {<<c.to.node_name, c.update.topic, i.node_name>> :
     i \in {j \in infos : c.update.topic \in Publishing(c.to.node_name)}}

(* SendUpdate gives the update and the contact to the event loop. *)
SendUpdatePost(t) ==
  LET c == call[t]
  IN  /\ c.pc = "post"
      /\ told' = (told \ Entries(c, c.update.remove_targets))
                   \cup Entries(c, c.update.add_targets)
      /\ seen' = seen \ Entries(c, c.update.remove_targets)
      /\ call' = [call EXCEPT ![t].pc = IF c.remaining = {} THEN "reply" ELSE "lookup",
                              ![t].to = NoContact]
      /\ UNCHANGED graphVars

(* Every handler answers with success. *)
Reply(t) ==
  /\ call[t].pc = "reply"
  /\ call' = [call EXCEPT ![t] = Idle]
  /\ UNCHANGED <<graphVars, told, seen>>

Request(t) == \E node \in NodeInfo, k \in TopicKey :
                \/ Subscribe(t, node, k)
                \/ Unsubscribe(t, node, k)
                \/ RegisterPublisher(t, node, k)
                \/ UnregisterPublisher(t, node, k)

Next == \E t \in Threads : \/ Request(t)
                           \/ Query(t)
                           \/ SendUpdateLookup(t)
                           \/ SendUpdatePost(t)
                           \/ Reply(t)

Spec == Init /\ [][Next]_vars

-----------------------------------------------------------------------------
(* Properties. *)

(* Type invariant: the graph, the threads' requests and the notifications  *)
(* the handlers build and hand over are well formed.                       *)
TypeOK == /\ Graph!TypeOK
          /\ call \in [Threads -> Busy \cup {Idle}]
          /\ told \subseteq Names \X Topics \X Names
          /\ seen \subseteq Names \X Topics \X Names

(* However the handlers of a publisher and of a subscriber interleave,     *)
(* once both have returned one of them has found the other: the subscriber *)
(* was announced to the publisher, or RegisterPublisher saw it.  (It holds *)
(* because every handler changes the graph before it queries it.)          *)
EveryPairFound ==
  \A e \in edges :
    InFlight(e.src_node) \/ InFlight(e.dst_node)
      \/ <<e.src_node, e.key.topic, e.dst_node>> \in told \cup seen

(* No publisher is left with a target, told or seen, that is neither a     *)
(* subscriber of the topic, nor one whose Unsubscribe is still running,    *)
(* nor (see the finding on RegisterPublisher) the publisher itself: the    *)
(* announcements that a late handler still posts never revive a target     *)
(* that was withdrawn.                                                     *)
NoStaleTarget ==
  \A x \in told \cup seen :
    \/ x[2] \in Subscribing(x[3])
    \/ x[3] = x[1]
    \/ \E t \in Threads : /\ call[t] # Idle
                          /\ call[t].op = "Unsubscribe"
                          /\ call[t].node.node_name = x[3]

(* When the master is at rest, whatever handlers ran at once before, its   *)
(* publishers have been told of no one they are not to send to according   *)
(* to the graph (but for a publisher that was told of itself), and whom    *)
(* they are to send to and were not told of had subscribed when their      *)
(* RegisterPublisher asked: that one finds the subscribers of the topic    *)
(* and does not name them (see the finding), but no race between handlers  *)
(* hides a subscriber that came later.                                     *)
QuietToldAreFlows ==
  (\A t \in Threads : call[t] = Idle) =>
    LET flows == {<<e.src_node, e.key.topic, e.dst_node>> : e \in edges}
    IN  /\ {x \in told : x[1] # x[3]} \subseteq flows
        /\ flows \ told \subseteq seen

(* What a request asked for is still so when its handler returns, whatever *)
(* the handlers of other nodes did in between: nobody's clean-up takes     *)
(* away another node's vertex, role or contact.                            *)
TakesEffect ==
  \A t \in Threads : call[t] # Idle =>
    LET c    == call[t]
        name == c.node.node_name
    IN  /\ c.op = "Subscribe" =>
             c.key \in Graph!SubscribesOf(name) /\ nodes[name].info = c.node
        /\ c.op = "RegisterPublisher" =>
             c.key \in Graph!PublishesOf(name) /\ nodes[name].info = c.node
        /\ c.op = "Unsubscribe" =>
             \A e \in edges : e.key = c.key => e.dst_node # name
        /\ c.op = "UnregisterPublisher" =>
             \A e \in edges : e.key = c.key => e.src_node # name
=============================================================================
