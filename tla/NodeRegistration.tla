-------------------------- MODULE NodeRegistration --------------------------
(***************************************************************************)
(* Nodes and the master together: the Publisher and Subscriber objects of  *)
(* an application (node_handle.inl, publisher.inl, subscriber.cpp), the    *)
(* calls they make through RosRpcClient and the generated stub, the        *)
(* dispatch of the generated service, and the master's graph.  A call may  *)
(* fail while its request still reaches the master, or after it did, or    *)
(* wait for an answer that is lost without a sign; the nodes only log a    *)
(* failure.  The master keeps the graph in memory alone, and a node that   *)
(* starts again has another port.                                          *)
(*                                                                         *)
(* A handler is one step here; RosRpcServer models its inside.             *)
(***************************************************************************)
EXTENDS Naturals, Sequences

CONSTANTS Names, Addrs, Topics, Types,   \* as in MessageGraph
          Handles,      \* <<node name, slot>>: where nodes keep their objects
          MaxFaults     \* bound: connections lost and processes ended

ASSUME HandlesAssumption == \A h \in Handles : h # <<>> /\ h[1] \in Names
ASSUME FaultsAssumption == MaxFaults \in Nat

VARIABLES nodes, publishers_by_topic, subscribers_by_topic, edges,
          master,     \* is the master up?
          addr,       \* the address of each node's present process
          objects,    \* the Publisher or Subscriber in each slot of each node
          requests,   \* requests on their way, and those answered
          stuck,      \* objects whose stub cannot see that nothing will come
          faults,     \* faults so far
          excused     \* <<name, key, role>>: the registration was disturbed by a
                      \* failure, or by another object of the node that shares it

graphVars == <<nodes, publishers_by_topic, subscribers_by_topic, edges>>
vars == <<graphVars, master, addr, objects, requests, stuck, faults, excused>>

Graph == INSTANCE MessageGraph

TopicKey == Graph!TopicKey
Roles    == {"publisher", "subscriber"}

(* The stages of an object: its registration is called, it is in use, it   *)
(* withdraws and stays, it has withdrawn, it is destroyed.                 *)
Stages == {"registering", "live", "unregistering", "unregistered", "closing"}
Object == [stage : Stages, role : Roles, key : TopicKey]

NoObject == [stage |-> "none"]
Nobody   == <<>>

Init == /\ Graph!Init
        /\ master = TRUE
        /\ addr \in [Names -> Addrs]
        /\ objects = [h \in Handles |-> NoObject]
        /\ requests = {}
        /\ stuck = {}
        /\ faults = 0
        /\ excused = {}

HandlesOf(name) == {h \in Handles : h[1] = name}

-----------------------------------------------------------------------------
(* The generated service: each stub sends the name at its index, and the   *)
(* handler run is the one that was added under that name.                  *)

method_names == <<"Subscribe", "RegisterPublisher", "Unsubscribe", "UnregisterPublisher",
                  "GetNodes", "GetNodeInfo", "GetTopics", "GetTopicInfo">>

(* Faulty variant: two stubs have each other's index. *)
SwappedStubIndex ==
  [Subscribe |-> 1, RegisterPublisher |-> 4, Unsubscribe |-> 3, UnregisterPublisher |-> 2,
   GetNodes |-> 5, GetNodeInfo |-> 6, GetTopics |-> 7, GetTopicInfo |-> 8]

StubIndex ==
  [Subscribe |-> 1, RegisterPublisher |-> 2, Unsubscribe |-> 3, UnregisterPublisher |-> 4,
   GetNodes |-> 5, GetNodeInfo |-> 6, GetTopics |-> 7, GetTopicInfo |-> 8]

ServiceMethods ==
  <<"Subscribe", "RegisterPublisher", "Unsubscribe", "UnregisterPublisher",
    "GetNodes", "GetNodeInfo", "GetTopics", "GetTopicInfo">>

HandlerOf(op) ==
  ServiceMethods[CHOOSE i \in DOMAIN ServiceMethods :
                   method_names[i] = method_names[StubIndex[op]]]

Handler(op, node, k) ==
  \/ HandlerOf(op) = "Subscribe" /\ Graph!AddSubscriber(node, k)
  \/ HandlerOf(op) = "RegisterPublisher" /\ Graph!AddPublisher(node, k)
  \/ HandlerOf(op) = "Unsubscribe" /\ Graph!RemoveSubscriber(node, k)
  \/ HandlerOf(op) = "UnregisterPublisher" /\ Graph!RemovePublisher(node, k)

-----------------------------------------------------------------------------
(* A node's side of a call. *)

Request(op, h, k) ==
  [op |-> op, from |-> h, key |-> k, answered |-> FALSE,
   node |-> [node_name |-> h[1], addr |-> addr[h[1]]]]

(* Faulty variant: a call waits for a master that is down. *)
SendAndWait(op, h, k) == requests' = requests \cup {Request(op, h, k)}

(* The stub gives up at once when there is no master to connect to. *)
Send(op, h, k) ==
  requests' = IF master THEN requests \cup {Request(op, h, k)} ELSE requests

Become(h, object) == objects' = [objects EXCEPT ![h] = object]

ToStage(h, stage) == Become(h, [objects[h] EXCEPT !.stage = stage])

Registrations == {"Subscribe", "RegisterPublisher"}

RoleIn(op) == IF op \in {"Subscribe", "Unsubscribe"} THEN "subscriber" ELSE "publisher"

(* Objects of one node that share one publication or one subscription. *)
Sharers(name, k, role) ==
  {h \in Handles : /\ h[1] = name
                   /\ objects[h] # NoObject
                   /\ objects[h].role = role
                   /\ objects[h].key = k}

Rest == UNCHANGED <<graphVars, master, addr, stuck, faults>>

(* The object first, then the call. *)
Register(h, op, k) ==
  /\ objects[h] = NoObject
  /\ Become(h, [stage |-> "registering", role |-> RoleIn(op), key |-> k])
  /\ Send(op, h, k)
  /\ Rest /\ UNCHANGED excused

(* advertise; no target is ever known when the Publisher is made. *)
Advertise(h, k) == Register(h, "RegisterPublisher", k)

(* subscribe, of either form. *)
Subscribe(h, k) == Register(h, "Subscribe", k)

(* The withdrawal is of what the node has, whoever shares it. *)
Withdraw(h, op, stage) ==
  /\ objects[h].role = RoleIn(op)
  /\ ToStage(h, stage)
  /\ Send(op, h, objects[h].key)
  /\ Rest /\ UNCHANGED excused

Unregister(h) == /\ objects[h].stage = "live"
                 /\ Withdraw(h, "UnregisterPublisher", "unregistering")

(* No class of the library withdraws a subscription; an application can,   *)
(* through the client that SystemManager gives it.                         *)
Unsubscribe(h) == /\ objects[h].stage = "live"
                  /\ Withdraw(h, "Unsubscribe", "unregistering")

(* Faulty variant: the destructor leaves the withdrawal to the caller. *)
DestroySilently(h) ==
  /\ objects[h].stage \in {"live", "unregistered"}
  /\ objects[h].role = "publisher"
  /\ Become(h, NoObject)
  /\ Rest /\ UNCHANGED <<requests, excused>>

(* The destructor of a Publisher withdraws, once more if need be. *)
DestroyPublisher(h) == /\ objects[h].stage \in {"live", "unregistered"}
                       /\ Withdraw(h, "UnregisterPublisher", "closing")

(* Every other object that shares it has withdrawn, or is about to have. *)
LastOf(h) ==
  \A g \in Sharers(h[1], objects[h].key, objects[h].role) \ {h} :
    objects[g].stage \in {"unregistering", "unregistered"}

(* That of a Subscriber says nothing to the master: one that did not       *)
(* unsubscribe leaves a subscription that nobody stands for.               *)
DestroySubscriber(h) ==
  /\ objects[h].stage \in {"live", "unregistered"}
  /\ objects[h].role = "subscriber"
  /\ Become(h, NoObject)
  /\ excused' = IF objects[h].stage = "live" /\ LastOf(h)
                THEN excused \cup {<<h[1], objects[h].key, "subscriber">>} ELSE excused
  /\ Rest /\ UNCHANGED requests

Pending(h) == objects[h].stage \in {"registering", "unregistering", "closing"}

(* What an object is once its call has returned, well or not. *)
Advance(h) ==
  CASE objects[h].stage = "registering"   -> ToStage(h, "live")
    [] objects[h].stage = "unregistering" -> ToStage(h, "unregistered")
    [] objects[h].stage = "closing"       -> Become(h, NoObject)

Return(h) ==
  /\ Pending(h)
  /\ \E r \in requests : /\ r.from = h /\ r.answered
                         /\ requests' = requests \ {r}
  /\ Advance(h)
  /\ Rest /\ UNCHANGED excused

(* The call fails: there was no master, or the connection is gone, which   *)
(* the stub may see late.  The error is logged and nothing else differs.   *)
Fail(h) ==
  /\ Pending(h)
  /\ \A r \in requests : r.from # h
  /\ Advance(h)
  /\ excused' = excused \cup {<<h[1], objects[h].key, objects[h].role>>}
  /\ stuck' = stuck \ {h}
  /\ UNCHANGED <<graphVars, master, addr, requests, faults>>

-----------------------------------------------------------------------------
(* The master's side. *)

(* A registration that is handled is undisturbed again; a withdrawal       *)
(* disturbs the other objects that share what it withdraws; and a request  *)
(* whose sender is gone disturbs all that its node has.                    *)
ExcusedAfter(r) ==
  LET name   == r.node.node_name
      entry  == <<name, r.key, RoleIn(r.op)>>
      others == Sharers(name, r.key, RoleIn(r.op)) \ {r.from}
  IN  IF r.from = Nobody THEN excused \cup ({name} \X TopicKey \X Roles)
      ELSE IF r.op \in Registrations \/ others = {}
           THEN excused \ {entry} ELSE excused \cup {entry}

Handle(r) ==
  /\ master
  /\ ~r.answered
  /\ Handler(r.op, r.node, r.key)
  /\ requests' = (requests \ {r}) \cup
                   (IF r.from = Nobody THEN {} ELSE {[r EXCEPT !.answered = TRUE]})
  /\ excused' = ExcusedAfter(r)
  /\ UNCHANGED <<master, addr, objects, stuck, faults>>

-----------------------------------------------------------------------------
(* What fails. *)

CountFault == faults < MaxFaults /\ faults' = faults + 1

(* The requests that are left when the callers in H stop waiting. *)
Orphaned(H) ==
  {IF r.from \in H THEN [r EXCEPT !.from = Nobody] ELSE r :
     r \in {q \in requests : ~(q.from \in H /\ q.answered)}}

(* A connection breaks under a call, and its stub sees it, or a request or *)
(* an answer is lost and the stub sees nothing: no call has a deadline.    *)
Break(h) ==
  /\ CountFault
  /\ \E r \in requests : r.from = h
  /\ requests' = Orphaned({h})
  /\ stuck' \in {stuck, stuck \cup {h}}
  /\ UNCHANGED <<graphVars, master, addr, objects, excused>>

(* A request whose sender is gone may never arrive. *)
Lose(r) ==
  /\ r.from = Nobody
  /\ requests' = requests \ {r}
  /\ Rest /\ UNCHANGED <<objects, excused>>

(* The master's memory is all there is of the graph. *)
MasterEnds ==
  /\ master
  /\ CountFault
  /\ master' = FALSE
  /\ nodes' = Graph!EmptyMap
  /\ publishers_by_topic' = Graph!EmptyMap
  /\ subscribers_by_topic' = Graph!EmptyMap
  /\ edges' = {}
  /\ requests' = {}
  /\ excused' = Names \X TopicKey \X Roles
  /\ UNCHANGED <<addr, objects, stuck>>

MasterStarts ==
  /\ ~master
  /\ master' = TRUE
  /\ UNCHANGED <<graphVars, addr, objects, requests, stuck, faults, excused>>

(* A node ends without its destructors, and starts with another port. *)
NodeRestarts(name) ==
  /\ CountFault
  /\ \E h \in HandlesOf(name) : objects[h] # NoObject
  /\ \E a \in Addrs \ {addr[name]} : addr' = [addr EXCEPT ![name] = a]
  /\ objects' = [h \in Handles |-> IF h[1] = name THEN NoObject ELSE objects[h]]
  /\ requests' = Orphaned(HandlesOf(name))
  /\ stuck' = stuck \ HandlesOf(name)
  /\ excused' = excused \cup ({name} \X TopicKey \X Roles)
  /\ UNCHANGED <<graphVars, master>>

-----------------------------------------------------------------------------
Application(h) == \/ \E k \in TopicKey : Advertise(h, k) \/ Subscribe(h, k)
                  \/ Unregister(h) \/ Unsubscribe(h)
                  \/ DestroyPublisher(h)
                  \/ DestroySubscriber(h)

Fault == \/ \E h \in Handles : Break(h)
         \/ \E r \in requests : Lose(r)
         \/ MasterEnds
         \/ MasterStarts
         \/ \E name \in Names : NodeRestarts(name)

Next == \/ \E h \in Handles : Application(h) \/ Return(h) \/ Fail(h)
        \/ \E r \in requests : Handle(r)
        \/ Fault

Spec == Init /\ [][Next]_vars

(* A call goes on: it has a thread of the master's, and its stub sees the  *)
(* answer or, unless it is stuck, the broken connection.  Neither failures *)
(* nor a new master are promised.                                          *)
CallGoesOn(h) == \/ \E r \in requests : r.from = h /\ Handle(r)
                 \/ Return(h)
                 \/ h \notin stuck /\ Fail(h)

Fairness == \A h \in Handles : WF_vars(CallGoesOn(h))

FairSpec == Spec /\ Fairness

-----------------------------------------------------------------------------
(* Properties. *)

(* Type invariant: the graph is well formed, an object waits for at most   *)
(* one request, and no request outlives the master it was sent to.         *)
TypeOK == /\ Graph!TypeOK
          /\ addr \in [Names -> Addrs]
          /\ objects \in [Handles -> Object \cup {NoObject}]
          /\ \A r \in requests : r.node \in Graph!NodeInfo /\ r.key \in TopicKey
          /\ \A r, q \in requests : r.from = q.from /\ r.from # Nobody => r = q
          /\ requests # {} => master
          /\ stuck \subseteq Handles
          /\ excused \subseteq Names \X TopicKey \X Roles

Listed(name, role) == IF role = "publisher" THEN Graph!PublishesOf(name)
                      ELSE Graph!SubscribesOf(name)

(* What the master has for an object in use is its role and its node's     *)
(* present address, unless a failure or another object of the node that    *)
(* shares the registration has disturbed it since; and a registration that *)
(* is handled afterwards makes up for the disturbance (advertise and       *)
(* subscribe, node_handle.inl:6-53).                                       *)
RegistrationStands ==
  \A h \in Handles :
    LET name == h[1]
        o    == objects[h]
    IN  o.stage = "live" /\ <<name, o.key, o.role>> \notin excused =>
          /\ o.key \in Listed(name, o.role)
          /\ nodes[name].info.addr = addr[name]

(* The master lists a node for nothing that none of its objects stands for *)
(* any more, with the same excuses: the destructor of a Publisher          *)
(* withdraws, whether or not the application did (publisher.inl:16-19),    *)
(* and a Subscriber that unsubscribed is listed no more; one destroyed     *)
(* without that stays listed (subscriber.cpp:20-26), which is excused.     *)
NoGhost ==
  \A name \in Names, k \in TopicKey, role \in Roles :
    /\ k \in Listed(name, role)
    /\ <<name, k, role>> \notin excused
    => Sharers(name, k, role) # {}

(* Every call returns to the application, whatever ends or breaks under    *)
(* it, but for one whose request or answer is lost without a sign: there   *)
(* is no deadline on a call, so all rests on the stub noticing.            *)
CallsReturn == \A h \in Handles : Pending(h) ~> (~Pending(h) \/ h \in stuck)
=============================================================================
