# A TLA+ model of my_simple_ros

`my_simple_ros` is a small publish/subscribe middleware in C++: a *master*
process keeps a directory of nodes and topics and is called over gRPC; *node*
processes register with it, and are told of one another over short TCP
connections; inside a node a message queue, an event loop (muduo) and timers
run the application's callbacks.  This directory holds TLA+ modules that model
its logic, TLC configurations that check them on small instances, and proofs
that TLAPS checks for instances of any size.

Contents: [inventory](#inventory), [plan](#plan),
[modules](#modules-and-their-code), [runs](#runs), [proofs](#proofs),
[assumptions](#assumptions-and-what-is-left-out),
[disagreements](#where-code-and-comments-disagree).

## Inventory

Files are named relative to `src/` of the repository.

### Master

| Part | State | Operations | Talks to |
|---|---|---|---|
| **Message graph** `src/message_graph.cpp` | `nodes_` (vertex: contact, keys published, keys subscribed), two indexes from topic key to names, `edges_` | Add/RemovePublisher, Add/RemoveSubscriber, lookups | called by the rpc service and by the delivery |
| **Rpc service** `src/ros_rpc_server.cpp` | `mtx_`; the rest is in the handlers' local variables | Subscribe, Unsubscribe, RegisterPublisher, UnregisterPublisher; GetNodes, GetNodeInfo, GetTopics, GetTopicInfo | gRPC worker threads run it; calls graph and delivery |
| **Update delivery** `src/master_tcp_server.cpp` | `pending_updates_`, `active_clients_` (both under `clients_mutex_`) | SendUpdate (any thread), SendUpdateToNode, OnConnection, OnWriteComplete (event loop), Stop | queues functors on the event loop; temporary TCP clients to nodes |
| **Master process** `tools/master.cpp` | two threads: event loop, rpc; the graph is in memory alone | main | makes all of it; nothing quits its loop, so it ends only by being ended |

*What makes it correct.*  The graph keeps one relation three times over (vertices,
indexes, edges): the copies must agree after any sequence of operations, and
the clean-up must leave nothing behind.  The rpc handlers change the graph,
query it, and then notify, with no lock across these steps: a publisher and a
subscriber that come at once must not both miss the other, a withdrawn target
must not come back, and a query must not answer with what never was.  The
delivery replaces clients and cached updates while earlier connections are
still ending: nothing may leak, be sent twice or out of order.

*What is hard.*  gRPC threads against one another; callbacks of old
connections against new ones; rpc threads against the event loop.

### Node

| Part | State | Operations | Talks to |
|---|---|---|---|
| **Message queue** `include/message_queue.h` | per topic: registered?, maximum, callbacks, messages; one mutex | registerTopic, setTopicMaxQueueSize, addSubscriber, removeSubscriber, push, processCallbacks | filled by whoever receives, emptied by spin |
| **Subscriber** `src/subscriber.cpp` | topic | constructor (three calls on the queue), destructor | message queue |
| **System manager** `src/global_init.cpp` | `running_`, pointers to queue, loop, poll manager; event thread | init, spin, spinOnce, shutdown | owns the others |
| **Timer** `src/timer.cpp` | `isRunning_`, `isPaused_`, `isOneShot_`, `timerId_` | start, stop, pause, resume, setOneShot, setPeriod, internalCallback | muduo's timer queue |
| **Poll manager** `src/poll_manager.cpp` | `topic_targets_`, `messageCallback_` | onMessage, getTargets, handleMessage | TCP server of the node |
| **Publisher** `include/publisher.inl` | `clients_`, `connections_` | publish, updateTargets, unregister | poll manager, rpc client |
| **Node handle** `src/node_handle.cpp` | the node's contact | advertise, subscribe, createTimer | makes local objects, then calls the master |
| **Rpc client** `src/ros_rpc_client.cpp` | a stub | one blocking call per rpc | master |
| **Message factory** `src/msg_factory.cpp` | prototypes by type name | createMessage | poll manager |

### Between them

| Part | State | Operations | Talks to |
|---|---|---|---|
| **Messages** `src/generated/ros_rpc.pb.*`, `src/generated/example.pb.*` | 22 message classes: members, and the fields a parser did not know | accessors, Clear, MergeFrom, CopyFrom, Swap, Serialize, ByteSize, Parse | both ends of every call; the typed callback of a Subscriber |
| **Stub and service** `src/generated/ros_rpc.grpc.pb.*` | a table of method names, a stub's indexes into it, a service's handlers | one blocking call per method; dispatch by name | rpc client; rpc service |

*What makes them correct.*  What is serialized parses back as the same
message, merging two messages and parsing the two in a row agree, and a
stream cut short is not taken for something nobody sent.  A call runs the
handler it names.

*What is hard.*  Fields of a class the reader does not know, integers of two
widths under one tag, lists against single messages, strings that are not
UTF-8; a call whose answer is lost after its request was handled.

*What makes it correct.*  A queue that overflows loses the oldest messages and
no others; callbacks see messages in order and stop when the Subscriber is
destroyed; a shutdown returns with everything released and in an order that
leaves no pointer in use; a running timer is armed and one that is not is not.

*What is hard.*  Spin against destructors and shutdown; the start of the
event thread against everything else; timer operations from two threads and
from within the timer's own callback or that of another timer due at the same time.

The path *poll manager → message queue → publisher* is unfinished in the code:
nothing calls `MessageQueue::push`, `PollManager::handleMessage` or
`setMessageCallback`, and nothing writes `topic_targets_`.  The node therefore
drops what it receives and a Publisher never finds a target.  (The
expectation `message_received` in `test/gtest_init.cpp` cannot be met by this
code.)  The queue is modelled with a caller for `push`, as its interface
provides for.

The hazards of all this, each at its line, are listed under `hazards` in
`PROJECT.json`, with the properties aimed at them.

## Plan

Most important behaviour first.  Done:

1. `MessageGraph` with the abstract `PubSubRegistry` it implements; proofs in
   `MessageGraph_proofs`.
2. `RosRpcServer`, handlers of several threads over the graph (INSTANCE), with
   `RosRpcServer_proofs`.
3. `MasterTcpServer`, the delivery, with the abstract `TargetsOutbox` it
   implements; proofs of both in `MasterTcpServer_proofs`.
4. `RosRpcQueries`, the read side of the service over the graph, with
   `RosRpcQueries_proofs`.
5. `MessageQueue` with Subscribers and spin, and the abstract `TopicFeed` it
   implements; `Timer`; `SystemManager`; each with a module of proofs.
6. `NodeRegistration`: the node's objects, the rpc client, the generated stub
   and service, and the graph, composed, with the faults of both processes;
   proofs in `NodeRegistration_proofs`.
7. `MessageClasses`, `ProtobufCodec`, `Messages`: the generated classes.

Left out:

8. `RosRpcServer` and `MasterTcpServer` in one module.  Each is checked with
   the other's interface; what their composition could add, an update
   addressed to an ip and port that another node has taken since, needs the
   reading side of a node, which the code does not have yet.

## Modules and their code

Every definition that models code has an entry in `PROJECT.json` (`map`) with
the file, lines and symbol it stands for.  Names follow the source.  Operators
introduced by the comment *Faulty variant* are not part of any specification:
each is the definition that follows or precedes it with a plausible mistake
put in, and `mutants` in `PROJECT.json` says which property fails when it is
used instead.

**MessageGraph.**  `nodes`, `publishers_by_topic`, `subscribers_by_topic` are
functions whose domain is the set of keys present in the C++ map, `edges` is
the edge set.  The four actions `AddPublisher`, `AddSubscriber`,
`RemovePublisher`, `RemoveSubscriber` each do what the C++ function does, the
connection of edges, `RemoveEdgesBy` and `CleanupIsolatedNodeIfAny` included.
A contact (`NodeInfo`) is a name with an opaque address for ip and port.
`ByTopic` is the lookup by topic name alone: it gives *every* list the code may
return, because the code takes the first bucket that fits in the iteration
order of an unordered map.

**PubSubRegistry.**  What the graph promises: two relations, a directory, and
flows that *are* the join of the relations.  No index, no incremental edge,
no clean-up.

**RosRpcServer.**  `call[t]` is the request thread `t` is serving: `pc`, the
update built, the nodes still to notify.  A handler is the sequence graph
operation (`Subscribe`, ...), `Query`, and for each recipient
`SendUpdateLookup` and `SendUpdatePost` (the two halves of
`MasterTcpServer::SendUpdate`, which looks the contact up again by name), then
`Reply`.  `told` and `seen` are history variables: what a publisher that
applies updates as they are posted would have as targets, and whom
`RegisterPublisher` found in its query.

**RosRpcQueries.**  `query[t]` holds a query's place and response; each read of
the graph is an action; `mtx_` is held by GetTopics and GetTopicInfo from
`Begin` to `Reply`.  `Change` is any graph operation by a registration.
`during` is a history variable: roles held at some time and all the time while
the query ran.

**MasterTcpServer.**  `functors` is the loop's queue.  `SendUpdate` appends;
`SendUpdateToNode` and `StoreClient` are the two critical sections of
SendUpdateToNode; `OnConnectionUp`, `OnConnectionDown` (reached by
`PeerCloses` and `ForceClose`), `OnWriteComplete` and `Stop` are the
callbacks and Stop.  A client carries the number of the update it was
made for.  How muduo treats a TcpClient whose last owner goes is external and
taken from its behaviour: while connecting, the connector stops (no callback);
with an open connection that nobody else holds, a `forceClose` functor is
queued and DOWN is reported; while the queued write-complete functor still
holds the connection, it is not closed by the client and is released without a
callback after that functor.

**TargetsOutbox.**  What the delivery promises: per node a place for one update,
which a newer one takes over (`Accept`), which is sent and emptied (`Send`),
and which a stop empties (`Stop`).  `MasterTcpServer` maps `waiting` to
`pending_updates_` and `accepted` to the newest update that has reached
SendUpdateToNode; clients, connections and the functor queue are invisible.

**MessageQueue.**  Each locked operation is one action, possible when the mutex
is free; `processCallbacks` is a sequence (`ProcessCallbacks`, `VisitTopic`,
`CallNext`, `ProcessCallbacksEnd`) that holds it.  A Subscriber's constructor
is three actions.  Messages are numbered per topic.

**TopicFeed.**  What the queue promises: topics that are open or not
(`Open`, `Close`), who follows each (`Follow`), how many of its newest messages
wait (`Publish`), and one message at a time being handed to all who followed its
topic when it was taken (`Take`, `Hand`), during which nothing else happens.
`MessageQueue` maps `followers` and `waiting` to what the lists hold
(`FollowersOf`, `WaitingCount`), and `due` to the calls that `processCallbacks`
has still to make (`DueCalls`); the mutex, the loop over the topics, sizes that
are set and constructors half done are invisible.

**SystemManager.**  Three threads: the application (`init`, `shutdown`, exit with
the destructor's shutdown), the event thread, and a spinning thread, as in
`test/mytest_SystemManager.cpp`.  Each read or write of a shared pointer or of
`running_` is a step.  `SpinCall` is disabled when the pointer is null: that
call would end the process.  `Waits` says whether the application lets the loop
come up before it goes on, which the tests do by sleeping.

**Timer.**  The operations run in one step, on the loop's thread or on another
one, in which case the change to the loop's timers is queued in `functors`.
The loop expires as muduo's `TimerQueue::handleRead` does: `Expire` takes all due
timers out at once (`batch`), each of them is called (`pending` until then), and `Rearm`
arms the repeating ones again that were not cancelled since.  Other Timers may be due
in the same expiry, so that operations on the loop's thread come between these steps
too.  `CallbackBegins` and `CallbackEnds` are the two halves of internalCallback
around the user's callback, during which any operation may be called.
`active` and `canceling` are muduo's `activeTimers_` and `cancelingTimers_`.
`strayed` records that one of three situations has happened in which the
code loses sight of a timer (see `NothingStray`).

**NodeRegistration.**  `objects[h]` is the Publisher or Subscriber in slot `h`
of a node, with the stage it is in: its constructor's call is under way, it is
in use, and so on.  `Advertise`, `Subscribe`, `Unregister`, `Unsubscribe`,
`DestroyPublisher` and `DestroySubscriber` are the application's operations,
each with the call it makes (`Send`); `requests` holds the calls under way.
`Unsubscribe` is a call of the rpc client that no class of the library makes and an
application can (`SystemManager::getRpcClient`); `DestroySubscriber` makes none.
`Handle` runs one handler of the master on MessageGraph's own actions, chosen
through the generated tables (`method_names`, `StubIndex`, `ServiceMethods`).
`Return` and `Fail` end a call: the node only logs a failure.  `Break` ends
a connection under a call, whose request may still arrive (`Handle`) or not
(`Lose`), and the stub sees it or, being `stuck`, does not; `MasterEnds` takes the graph along; `NodeRestarts` ends a node
without its destructors and gives it another port.  `excused` is a history
variable: registrations that a failure, or the withdrawal by another object of the
same node, topic and role, has disturbed and no registration has made good since, and
subscriptions whose last Subscriber was destroyed without unsubscribing.

**MessageClasses.**  The 22 generated classes as data: for each class its
members with their kinds (`Members`, from the headers), and the order, field
number and kind in which its serializer writes and its parser reads them
(`Wire`, from the `.cc` files).  The two are translated separately, because
they are separate code.

**ProtobufCodec.**  What the generated methods do, once for all classes, over
those tables: Clear, Serialize, ByteSize, Parse, MergeFrom, CopyFrom.  A
stream is a sequence of tokens (tag, number, length, characters); an int32 has
`Int32Bits` bits and is read by cutting off the high bits, a bool from any
number that is not 0; the fields of a message that its class does not know
are kept and written back after its own.

**Messages.**  Two messages of a program, `object` and `other`, and the calls it
may make on them, the typed callback of `Subscriber<T>` included
(`TypedCallback`): it serializes the message it is given, of whatever class,
and parses it as its own.

## Runs

| Run | Question | Bounds, and why they are enough |
|---|---|---|
| `graph` | Do the three copies agree, is clean-up complete, does the graph implement the registry? | 2 names, 2 addresses, 1 topic under 2 types: a pair needs two names, a node may be its own partner, a node may move, and two keys with one topic name are the case in which the keys could be confused. The proofs remove the bound. |
| `rpc` | Do concurrent handlers find one another, never revive a withdrawn target, and keep their own effect? | 2 threads, 2 nodes with 2 addresses. Every race is between a publisher's and a subscriber's handler; a node has one request at a time. One message type: with two, notifications are incomplete even without concurrency (see below). |
| `queries` | How does an answer read in steps relate to the graph? | 1 query at a time (queries only read, and two that matter exclude each other by `mtx_`), 2 nodes, 2 keys of a topic, `MaxChurn` 2 changes while it runs: enough for a role to be withdrawn and taken up elsewhere under a loop over nodes. |
| `delivery` | Do replaced clients, late callbacks and Stop leak, reorder or lose? Are clients released? | 4 updates over 2 nodes or none, 1 Stop: three updates for one node give a new, a connecting and an ending client at once, and one more for another node. |
| `queue` | Order, overflow, life of callbacks, service | 2 Subscribers on any of 2 topics, sizes 1 and 2, 3 messages a topic: overflow of both sizes, two Subscribers of a topic, lowered and lost maxima. |
| `manager` | Does shutdown return, spin end, and is everything released in order? | 2 rounds of init and shutdown, then the destructor's; the application waits for the loop. |
| `timer` | Is a running Timer armed, and nothing else? | 4 timers of the loop ever made: one running, one being cancelled, one queued, one lost. |
| `node` | Does what the master holds stay true of the nodes, through failures and restarts of both, and does every call return? | 1 node, 2 objects of one topic, 2 addresses, `MaxFaults` 1 of a lost connection, request or answer, an end of the master, an end of the node: two objects of one role share a registration, a fault comes at any moment, and an old process's request arrives after its node came back. Without `CallsReturn`, two faults (374 thousand states, with interchangeable addresses), three (1.6 million), and two nodes with 2 and 1 objects and one fault were explored as well; the proofs remove the bound. Nodes meet in the graph alone, which the runs `graph` and `rpc` cover. |
| `messages` | Do the generated classes keep what they are given? | All 22 classes, at most `MaxEdits` 4 calls: three members set and a merge, or a member of a member set and two callbacks of other types. `MaxRepeated` 2 elements added, `MaxUnknown` 12 tokens of unknown fields, `Int32Bits` 3 and the numbers 1 and 5: 5 does not fit an int32 and comes back negative. Strings of one and two characters and one that is not UTF-8. |
| `delivery_pending`, `manager_spin`, `timer_stopped` | counterexamples, see [disagreements](#where-code-and-comments-disagree) | the smallest instance that shows it |

What they show, property by property:

* `TypeOK` is proved for all modules with proofs.  The runs `queries`, `node` and
  `messages` check it as well, because there it says more than types: who holds `mtx_`,
  which requests there may be, which numbers a member may hold.  (The first two
  include the graph's.)
* `IndexesAgree`, `EdgesExact`, `NothingLeftBehind`, `ImplementsRegistry`: after
  any sequence of operations vertices, indexes and edges are the same relation
  and empty buckets and isolated vertices are gone.
* `EveryPairFound`: of the handlers of a matching publisher and subscriber, at
  least one has found the other when both have returned.  It holds because every
  handler changes the graph before it queries it.
* `NoStaleTarget`: late announcements do not bring back a target.  The
  publisher's own name is excepted, because RegisterPublisher puts it there.
* `QuietToldAreFlows`: whenever no handler runs, the publishers have been told of no one
  they are not to send to, and whom they were not told of had subscribed before they
  registered: RegisterPublisher finds those and does not tell
  (`src/ros_rpc_server.cpp:52`).  No race adds to that.
* `TakesEffect`: nobody else's clean-up undoes a request that is being served.
* `NothingInvented`, `NothingMissed`, `TopicInfoComplete`: an answer lists only
  what was so while the query ran, and all that one node held throughout.
* `ImplementsOutbox`: the cache, the temporary clients and their callbacks are an
  outbox: updates for a node go out in order, each at most once, and the
  newest waits or was sent.  `UpSendsOwnUpdate`: a client that comes up sends
  the update it was made for.  `NoLeakedConnection`, `ClientsReleased`: no
  connection stays open for good.
* `QueueHoldsNewest`, `ReceivedInOrder`, `CallsOnlyTheLiving`,
  `UndisturbedIsServed`: the queue, including that a Subscriber *is* served as
  long as no other Subscriber of its topic is destroyed.  (One that is takes
  the callbacks of the others along, which is why the condition is there.)
  `ImplementsFeed`: maps, lists and the loop under the mutex implement `TopicFeed`.
* `RegistrationStands`, `NoGhost`: the master has an object in use under
  its node's present address, and lists no node as a publisher or subscriber without an
  object behind it, except where `excused` says what disturbed it.  These are statements of
  what is *not* hit by a failed call, a withdrawing twin or a restart; what is hit stays
  wrong until a registration is handled again, which the code leaves to the application.
  A Subscriber destroyed without unsubscribing is such an excuse, too.
  `CallsReturn`: there are no deadlines in the code, so this rests on the stub noticing
  that a request or answer is lost; a call whose loss it does not notice waits for ever.
* `RoundTrip`, `MergeIsConcatenation`, `CutStreamInventsNothing`,
  `ThroughAnotherType`: the classes and their wire format.
* `LoopOutlivesUse`, `LoopLasts`: nobody uses a loop that was released, and one
  that was made lasts until shutdown joins.  `JoinIsAnswered`: the thread that
  shutdown joins has its quit before it or behind it.
  `ReleasedAfterShutdown`, `ShutdownReturns`, `SpinEnds`: what the comments
  of shutdown promise.
* `RunningIsArmed`, `NothingStray`: a running Timer is armed and the loop keeps no other
  timer, but for the three situations.  `FiresOnlyItsOwn`: a callback begins only for a running
  Timer, one whose cancelling is still queued, or one that was stopped by another Timer's
  callback of the same expiry.  The last is a fault of the code, which `timer_stopped` shows.

*Fairness.*  `delivery` assumes that the event loop goes on running what is
queued, that a peer in the end accepts a connection (muduo's connector
retries for ever) and that it closes after the master's half-close, which a
TcpServer of muduo does.  Nothing is assumed of rpc threads, of Stop, or of a
peer closing on its own.  `manager` assumes that the three threads, which the operating
system schedules, take a step when they can go on doing so; the application
need do nothing.  `node` assumes that a request that is under way to a master
is handled or its connection breaks, and that the stub then returns unless it is
stuck; it assumes nothing of faults, and not that a master ever starts again.
`running_` is a plain `bool`; spin is assumed to read it
anew in each round.

`CHECK_DEADLOCK` is off where the system may stop: when no more updates are
posted (`delivery`), when the process has ended or crashed (`manager`), and
when the bound on calls is reached (`messages`).

## Proofs

`MessageGraph_proofs` proves, for all sets of names, addresses, topics and
types, and with no assumption on them:

* `TypeCorrect`, `IndexesAlwaysAgree`, `EdgesAlwaysExact`, `CleanupComplete`:
  each is `Spec => []P` for the property the run `graph` checks;
* `GraphImplementsRegistry`: `Spec => Registry!Spec`.

The inductive invariant `IndInv` is the conjunction of the four.  None
is inductive alone: that the edges stay exact when a publisher withdraws needs
the indexes to agree with the vertices, and that the clean-up leaves no
vertex without topics needs the edges to be exact, since the code spares a vertex
that an edge still touches.

The argument is in layers.  `InsertInBucket` and `EraseFromBucket` say what the
map operations do to one bucket; `UpsertNodeTopics`, `AddPublisherVertices` and its
like say what an operation does to the relation kept in the vertices;
one lemma per operation (`AddPublisherInductive`, ...) puts these together with
the edges; `InitInductive` and `StepInductive` conclude.  For the refinement,
`EdgesAreJoin` and `KnownAreVertices` translate the mapping, and one lemma
per operation shows that it is the registry's.

`SystemManager_proofs` proves, whether or not the application waits and for any
number of rounds of init and shutdown, `TypeCorrect`, `LoopAlwaysOutlivesUse`,
`LoopLastsUntilJoin` and `AllReleasedAfterShutdown`, and, for an application that
waits, `JoinAlwaysAnswered`.  The inductive invariant adds to the types
`Handshake`: which stages of the event thread the stages of main allow.  Without it
nothing says that the thread which shutdown has joined is the one that made the
loop, nor that a quit posted in one round is not left for the next.
`JoinIsAnswered` is as much of `ShutdownReturns` as an invariant can say; that the
event thread then gets there is left to TLC.  It assumes `MaxInits \in Nat` and `Waits \in BOOLEAN`.

`MasterTcpServer_proofs` proves of the delivery, for all sets of peers and any
number of updates and stops, `TypeCorrect`, `NoConnectionIsLeaked`,
`ImplementsTheOutbox` and `UpAlwaysSendsOwnUpdate`, and, through the refinement,
`AlwaysSentInOrder`: the outbox's own promise, from the outbox's three actions
alone, by the invariant that what waits is the newest accepted and newer than all
that was sent (`OutboxInv`).  It assumes that `NoPeer` is no peer and
the bounds are numbers.  The inductive invariant has four parts.  `Typed`: a
client is stored under the key of its own update.  `LastWait`: the updates in the
functor queue are in order and the last that were posted, from which it
follows that SendUpdateToNode is handed a newer update each time.
`NewestExists`: each peer has a newest handled update, as the refinement mapping
needs.  `Attended`: who will release a connection, in each of its states;
`NoLeakedConnection` says this of open connections only and is not inductive,
because a connection is open after it was connecting.  The queue's lemmas
(`AppendToQueue`, `ConcatToQueue`, `TailOfQueue`, `ClosingQueue`) come first;
then one lemma per action; `CacheInStep`, needed for
`UpAlwaysSendsOwnUpdate` alone, is proved on top of the invariant.

`Timer_proofs` proves, for any number of timers made, `TypeCorrect`,
`RunningIsAlwaysArmed` and `NothingStraysUnnoticed`.  The inductive invariant adds `Armed`: the timer of a
running Timer is never queued to be cancelled, repeats unless the Timer is
one-shot, and is armed, queued to be armed, or taken out by the expiry and not cancelled.
`RunningIsArmed` alone does not say that the expiry ends with it armed again.  `HoldsAfterAppend` and `HoldsBeforeTail` say what the functor queue holds;
one lemma per kind of step follows.  For `NothingStray` a second invariant,
`Kept`, looks ahead: a timer is in one place only (`OnePlace`: queued to be armed, and nothing
queued before that; armed; or in the batch), and as long as nothing has strayed,
the only one that remains once the queued functors have run, or is still to be called or
armed by the expiry and not cancelled, is the running Timer's (`OnlyIn`).
The action property of `OnlyItsOwnFires` follows from `Kept`.

`RosRpcServer_proofs` proves of the handlers, for any number of threads, nodes and
topics, `TypeCorrect` and `AlwaysTakesEffect`, and, of every behaviour in which
no topic is used under two message types at once (`OneTypePerTopic`),
`PairsFindOneAnother`, `TargetsStayFresh` and `QuietToldIsExact`.  `OneMessageType` discharges that
condition when there is one type.  The condition is the code's own: a
lookup goes by topic name alone and takes any bucket of that name, so with two
types a handler may notify the wrong ones even when nothing else runs.
`OneTypePerTopic` counts the keys of running requests too, since one under way
may be about to make the second bucket.  The invariant says that a request that runs
stands in the graph (`Effective`) and which nodes it has left
(`Progress`); over it, `AllCovered` says that each edge of the graph was seen by its
publisher, told to it, or will be found by a handler still at work, which is the
argument that every handler changes the graph before it queries it; `AllFresh` says the
like of targets and the handlers that will drop them.  `QuietToldIsExact` joins the two at rest
(`ToldAtRestIsFlow`): nothing is left for a handler to find or to drop, and with one type a
publisher and a subscriber of a topic share a key, hence an edge.

`RosRpcQueries_proofs` proves of the queries, for any number of them at once and
of changes between their reads, `TypeCorrect`, `AnswersAreHonest`,
`AnswersAreThorough` and `TopicInfoIsComplete`.  None of these is inductive, since
they speak of a query that is about to reply.  The invariant speaks of every query: `Window`
(what was held all the time is held, and what is held was held at some time),
`Honest` (what has been collected was held), and `Thorough`, which says what the query has
not missed so far: `Ahead` is what saves a role that is not yet in the answer, that its
node has still to be visited, or was asked for the other role only.
`LongerWindow` shows that changes of the graph cannot break either, whatever they are: the
set of roles held at some time grows and that of roles held all the time
shrinks.  What is left are the reads, one lemma per query.

`MessageQueue_proofs` proves, for any number of Subscribers, topics, sizes and messages,
`TypeCorrect`, `QueuesHoldNewest`, `ReceivedOnceInOrder`,
`OnlyTheLivingAreCalled`, `LeftAloneIsServed` and `ImplementsTheFeed`.  The inductive
invariant relates the three maps, the objects and spin's position: what a topic that is not
registered may keep (`QueuesRegistered`, `SizesAsked`); that a queue is a run of consecutive numbers that ends
with the last pushed (`HoldsNewest`); that the message being handed out is newer than
what its callbacks have seen and older than all that is queued (`SeenIsOlder`,
`CalledIsOlder`); and that callbacks, listed or about to be called, belong to the living.
`ReceivedInOrder` needs the two in the middle, because a topic can
lose its queue and its callbacks and get new ones while spin is between two
messages.  The refinement has one lemma per operation (`RegisterOpens`, `AddFollows`,
`RemoveCloses`, `PushPublishes`, `VisitTakes`, `CallHands`); it needs the invariant to
know that what waits is the newest (so that the message taken is the one the feed takes), that
no Subscriber is listed twice (so that a call made is one call fewer), and that whoever finds the
mutex free finds nothing due (`NothingDue`).

`NodeRegistration_proofs` proves of nodes and master together, for any number of nodes,
objects, lost calls and restarts, `TypeCorrect`, `RegistrationsStand` and `NoGhosts`.
Nothing is assumed of failures beyond the model's own record of them, `excused`.  The
invariant: a request that an object waits for is the one its stage calls for and
carries the node's present address (`RequestsMatch`); an object whose call was answered is
registered unless excused, and not only the ones in use, because one that is being withdrawn
still stands until the handler has run (`EstablishedStand`); what the
master lists, in either role, is held by an object whose withdrawal has not been answered,
unless excused (`HoldersThere`).  Late requests of a former process are why an object's own
request must be told from any other that looks like it.

`RosRpcServer_proofs`, `RosRpcQueries_proofs` and `NodeRegistration_proofs` take the
graph's lemmas over from `MessageGraph_proofs` by INSTANCE; `SameOperations` and
`SameInvariant` say that the two instances of the graph mean the same.

Assumed of constants are only the named assumptions of the modules (each is
evaluated by TLC in the runs).

Only model-checked are: liveness (`ClientsReleased`, `ShutdownReturns`,
`SpinEnds`, `CallsReturn`), which is outside what the prover handles; and everything about
`ProtobufCodec` and `Messages`, whose operators are recursive, so that their properties would need
induction over messages.

## Assumptions, and what is left out

* *A call into the graph is one step.*  The code has no lock there: gRPC
  threads that change the same `unordered_map` at once are a data race, whose
  outcomes the language leaves undefined and which no useful set of choices
  describes.  The models say what holds if single calls do not overlap; that
  they may is listed as a hazard.
* *A node has one request under way* in `RosRpcServer`, because the stub is
  called synchronously (`src/ros_rpc_client.cpp`).  In `NodeRegistration` each object may have one,
  so that a node's threads are covered; there a handler is one step, as it
  is for the graph.  Two nodes of one name are not modelled.
* *`SendUpdate` has no return statement* although it returns `bool`; the
  callers ignore the result.  It is taken to return, which is what the build
  does without optimisation.
* `RosRpcServer` hands updates over and `MasterTcpServer` delivers them; the two
  are not composed (see the plan).  The delivery's messages are the updates themselves; what a
  node makes of them is nothing, so far.
* The substring filters of GetNodes and GetTopics are left out.
* Callbacks of the message queue do not call the queue, and queue sizes are positive: a
  callback that makes a Subscriber would wait for its own thread's mutex, and
  a size of 0 makes `push` call `pop_front` on an empty list.
* In `Timer` a call of an operation is one step although the flags are plain
  variables, so two threads that operate on one Timer at once, a data race, are not
  covered; the other Timers of the loop are present only as operations that their
  callbacks call on this one; the `TimerEvent` times are left out.
* In `SystemManager` init is not called twice without a shutdown (which would end the
  process), and `findAvailablePort`, a sequence of system calls, is left out.
* `Messages`: arenas, reflection, the cached size (a field of its own in the code,
  written by ByteSize before each use) and the bytes of the descriptors are left out; a
  varint is one token.  Parsing puts no limit on nesting.  Enumerations, maps and
  oneofs do not occur in the `.proto` files.
* `NodeRegistration`: the asynchronous and callback forms of the generated stub
  and service have no caller and are left out, as are the queries, which
  change nothing.  gRPC's own reconnecting is in `Send`: a call finds a
  connection when there is a master.
  An application unsubscribes for a Subscriber that it has, one call at a time for each
  object; that it could call the client with any other topic is left out.
* Not modelled, because nothing in the code reaches them: `publish` and
  `createClient` of a Publisher (no target is ever known, since `topic_targets_` is
  never written), `PollManager`'s `handleMessage` and the message factory
  (`messageCallback_` is never set), `RosRpcServer::Shutdown` (nothing quits the
  master's loop).  `MasterTcpServer::Start` opens a listening socket that
  nothing reads.
* Not modelled, because they have no logic of the program: scripts, `study/`, the build.

## Where code and comments disagree

Each has a run with a counterexample and an entry under `findings`.

* `delivery_pending`: the end of an old connection drops the client of the next
  update for that node, and leaves the update cached, with nobody to send it
  (`src/master_tcp_server.cpp:149`).
* `manager_spin`: shutdown releases the queue while spin is using it
  (`src/global_init.cpp:124`).
* `timer_stopped`: a Timer stopped, or destroyed, by the callback of another one that was
  due at the same time is called all the same (`src/timer.cpp:42`).

Further ones were met on the way and have no run of their own.  RegisterPublisher
announces the publisher itself, once for each subscriber it found, instead of those
subscribers (`src/ros_rpc_server.cpp:52`), against the comment that `add_targets` are the new
subscribers (`:23`): a publisher learns only of subscribers that come after it.  With two message
types for a topic a lookup by topic name finds the nodes of one type only, so
some publishers are not notified (`src/message_graph.cpp:254`).  GetNodeInfo may
answer with success and an empty contact when the node leaves under way
(`src/ros_rpc_server.cpp:125`).  An update that is overwritten before its
client connects is never sent (`src/master_tcp_server.cpp:68`).  A queue whose
maximum is lowered stays over it (`include/message_queue.h:68`).  A shutdown before
the event thread has made its loop finds no loop to quit and waits in join for ever,
against the comment that the event thread is stopped safely
(`src/global_init.cpp:116`, `:113`); the run `manager` has `Waits = TRUE` for
this reason, and `FALSE` shows it.  `resume` acts on a running Timer and never on a
paused one, because `pause` clears `isRunning_`, against the comment that it resumes a
paused Timer (`src/timer.cpp:70`, `:68`).  The destructor of a Subscriber
tells the master nothing (`src/subscriber.cpp:20`), though the client has an Unsubscribe,
so a node stays listed as a subscriber until its application calls that itself or the master ends.
