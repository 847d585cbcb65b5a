---------------------------- MODULE MessageQueue ----------------------------
(***************************************************************************)
(* A node's message queue (message_queue.h) with the Subscriber objects    *)
(* that register with it (subscriber.cpp, subscriber.inl) and the thread   *)
(* that spins.  One mutex guards the queue: every operation is one step,   *)
(* taken when the mutex is free, except processCallbacks, which holds it   *)
(* while it calls one callback after another.                              *)
(*                                                                         *)
(* Callbacks do not call the queue (one that did would wait for the mutex  *)
(* of its own thread) and the sizes are positive.  Messages of a topic are *)
(* numbered in the order in which push was called for it.                  *)
(***************************************************************************)
EXTENDS Integers, Functions, SequencesExt

CONSTANTS Topics,
          Subscribers,   \* the Subscriber objects ever made
          Sizes,         \* the queue sizes they ask for
          DefaultSize,   \* default_max_queue_size_
          MaxPushes      \* bound: how many messages are pushed for a topic

ASSUME SizesAssumption == Sizes \cup {DefaultSize} \subseteq Nat \ {0}
ASSUME PushesAssumption == MaxPushes \in Nat

VARIABLES registered_topics_,
          topic_max_queue_sizes_,   \* topic -> size
          subscribers_,             \* topic -> its callbacks, in order
          message_queue_,           \* topic -> its messages, oldest first
          locked,      \* processCallbacks holds the mutex
          toVisit,     \* the topics its loop has still to visit
          calling,     \* the message at hand, and the callbacks to call with it
          object,      \* each Subscriber object
          pushed,      \* topic -> how many messages were pushed for it
          received     \* what each Subscriber's callback was called with

queueVars  == <<registered_topics_, topic_max_queue_sizes_, subscribers_, message_queue_>>
spinVars   == <<locked, toVisit, calling>>
vars == <<queueVars, spinVars, object, pushed, received>>

EmptyMap == [x \in {} |-> {}]

Put(map, x, v) == [y \in DOMAIN map \cup {x} |-> IF y = x THEN v ELSE map[y]]
Erase(map, x)  == Restrict(map, DOMAIN map \ {x})

(* The list that operator[] finds, or makes, for a topic. *)
ListAt(map, t) == IF t \in DOMAIN map THEN map[t] ELSE <<>>

(* The life of a Subscriber: the three calls of its constructor, which may *)
(* be interleaved with those of others, and then its destructor.           *)
Stages == {"unborn", "registered", "sized", "alive", "gone"}

(* since: the last message pushed before it was added; disturbed: another  *)
(* Subscriber of its topic was destroyed since its constructor began.      *)
Object == [stage : Stages, topic : Topics, size : Sizes,
           since : 0..MaxPushes, disturbed : BOOLEAN]

Silent == [msg |-> 0, to |-> <<>>]

Init == /\ registered_topics_ = {}
        /\ topic_max_queue_sizes_ = EmptyMap
        /\ subscribers_ = EmptyMap
        /\ message_queue_ = EmptyMap
        /\ locked = FALSE
        /\ toVisit = {}
        /\ calling = Silent
        /\ object \in [Subscribers -> [stage : {"unborn"}, topic : Topics, size : Sizes,
                                       since : {0}, disturbed : {FALSE}]]
        /\ pushed = [t \in Topics |-> 0]
        /\ received = [s \in Subscribers |-> <<>>]

-----------------------------------------------------------------------------
(* The constructor of Subscriber. *)

RegisterTopic(s) ==
  /\ ~locked
  /\ object[s].stage = "unborn"
  /\ registered_topics_' = registered_topics_ \cup {object[s].topic}
  /\ object' = [object EXCEPT ![s].stage = "registered"]
  /\ UNCHANGED <<topic_max_queue_sizes_, subscribers_, message_queue_, spinVars,
                 pushed, received>>

SetTopicMaxQueueSize(s) ==
  /\ ~locked
  /\ object[s].stage = "registered"
  /\ topic_max_queue_sizes_' = Put(topic_max_queue_sizes_, object[s].topic, object[s].size)
  /\ object' = [object EXCEPT ![s].stage = "sized"]
  /\ UNCHANGED <<registered_topics_, subscribers_, message_queue_, spinVars,
                 pushed, received>>

(* Faulty variant: the new callback replaces the others. *)
AddSubscriberAlone(s) ==
  LET t == object[s].topic
  IN  /\ ~locked
      /\ object[s].stage = "sized"
      /\ subscribers_' = Put(subscribers_, t, <<s>>)
      /\ object' = [object EXCEPT ![s].stage = "alive", ![s].since = pushed[t]]
      /\ UNCHANGED <<registered_topics_, topic_max_queue_sizes_, message_queue_,
                     spinVars, pushed, received>>

AddSubscriber(s) ==
  LET t == object[s].topic
  IN  /\ ~locked
      /\ object[s].stage = "sized"
      /\ subscribers_' = Put(subscribers_, t, Append(ListAt(subscribers_, t), s))
      /\ object' = [object EXCEPT ![s].stage = "alive", ![s].since = pushed[t]]
      /\ UNCHANGED <<registered_topics_, topic_max_queue_sizes_, message_queue_,
                     spinVars, pushed, received>>

(* The destructor removes the topic with everything known about it, the    *)
(* callbacks of other Subscribers and the messages in the queue included.  *)
RemoveSubscriber(s) ==
  LET t == object[s].topic
  IN  /\ ~locked
      /\ object[s].stage = "alive"
      /\ registered_topics_' = registered_topics_ \ {t}
      /\ topic_max_queue_sizes_' = Erase(topic_max_queue_sizes_, t)
      /\ subscribers_' = Erase(subscribers_, t)
      /\ message_queue_' = Erase(message_queue_, t)
      /\ object' = [o \in Subscribers |->
           IF o = s THEN [object[o] EXCEPT !.stage = "gone"]
           ELSE IF object[o].topic = t /\ object[o].stage # "unborn"
                THEN [object[o] EXCEPT !.disturbed = TRUE] ELSE object[o]]
      /\ UNCHANGED <<spinVars, pushed, received>>

-----------------------------------------------------------------------------
MaxSize(t) == IF t \in DOMAIN topic_max_queue_sizes_
              THEN topic_max_queue_sizes_[t] ELSE DefaultSize

(* Faulty variant: a full queue loses its newest message. *)
RoomAtTheEnd(queue, max) == IF Len(queue) >= max THEN Front(queue) ELSE queue

(* A full queue loses its oldest message; one that is over a maximum       *)
(* lowered since loses no more than that.                                  *)
Room(queue, max) == IF Len(queue) >= max THEN Tail(queue) ELSE queue

(* A message for an unregistered topic is dropped. *)
Push(t) ==
  LET queue == ListAt(message_queue_, t)
  IN  /\ ~locked
      /\ pushed[t] < MaxPushes
      /\ pushed' = [pushed EXCEPT ![t] = @ + 1]
      /\ IF t \notin registered_topics_ THEN UNCHANGED message_queue_
         ELSE message_queue_' = Put(message_queue_, t, Append(Room(queue, MaxSize(t)), pushed'[t]))
      /\ UNCHANGED <<registered_topics_, topic_max_queue_sizes_, subscribers_,
                     spinVars, object, received>>

-----------------------------------------------------------------------------
(* processCallbacks, in its steps: one message of every topic that has one *)
(* is taken and given to all callbacks of the topic, under the mutex.      *)

ProcessCallbacks ==
  /\ ~locked
  /\ locked' = TRUE
  /\ toVisit' = DOMAIN message_queue_
  /\ UNCHANGED <<queueVars, calling, object, pushed, received>>

(* Faulty variants: the message stays in the queue; the mutex is released  *)
(* once the callbacks are copied.                                          *)
VisitTopicKeeping(t) ==
  LET queue == message_queue_[t]
  IN  /\ calling.to = <<>>
      /\ t \in toVisit
      /\ toVisit' = toVisit \ {t}
      /\ IF queue = <<>> THEN UNCHANGED calling
         ELSE calling' = [msg |-> Head(queue), to |-> ListAt(subscribers_, t)]
      /\ UNCHANGED <<queueVars, locked, object, pushed, received>>

VisitTopicUnlocked(t) ==
  LET queue == ListAt(message_queue_, t)
  IN  /\ calling.to = <<>>
      /\ t \in toVisit
      /\ toVisit' = toVisit \ {t}
      /\ locked' = FALSE
      /\ IF queue = <<>> THEN UNCHANGED <<calling, message_queue_>>
         ELSE /\ message_queue_' = [message_queue_ EXCEPT ![t] = Tail(@)]
              /\ calling' = [msg |-> Head(queue), to |-> ListAt(subscribers_, t)]
      /\ UNCHANGED <<registered_topics_, topic_max_queue_sizes_, subscribers_,
                     object, pushed, received>>

VisitTopic(t) ==
  LET queue == message_queue_[t]
  IN  /\ calling.to = <<>>
      /\ t \in toVisit
      /\ toVisit' = toVisit \ {t}
      /\ IF queue = <<>> THEN UNCHANGED <<calling, message_queue_>>
         ELSE /\ message_queue_' = [message_queue_ EXCEPT ![t] = Tail(@)]
              /\ calling' = [msg |-> Head(queue), to |-> ListAt(subscribers_, t)]
      /\ UNCHANGED <<registered_topics_, topic_max_queue_sizes_, subscribers_, locked,
                     object, pushed, received>>

CallNext ==
  /\ calling.to # <<>>
  /\ received' = [received EXCEPT ![Head(calling.to)] = Append(@, calling.msg)]
  /\ calling' = [calling EXCEPT !.to = Tail(@)]
  /\ UNCHANGED <<queueVars, locked, toVisit, object, pushed>>

ProcessCallbacksEnd ==
  /\ locked
  /\ toVisit = {}
  /\ calling.to = <<>>
  /\ locked' = FALSE
  /\ calling' = Silent
  /\ UNCHANGED <<queueVars, toVisit, object, pushed, received>>

Spin == \/ ProcessCallbacks
        \/ \E t \in Topics : VisitTopic(t)
        \/ CallNext
        \/ ProcessCallbacksEnd

Next == \/ \E s \in Subscribers : \/ RegisterTopic(s)
                                  \/ SetTopicMaxQueueSize(s)
                                  \/ AddSubscriber(s)
                                  \/ RemoveSubscriber(s)
        \/ \E t \in Topics : Push(t)
        \/ Spin

Spec == Init /\ [][Next]_vars

-----------------------------------------------------------------------------
(* Properties. *)

IsMap(map, Values) ==
  /\ DOMAIN map \subseteq Topics
  /\ map \in [DOMAIN map -> Values]

(* Type invariant: sizes, callbacks and messages are kept under topics,    *)
(* and the loop of processCallbacks never holds a topic that was erased    *)
(* from the map it iterates over.                                          *)
TypeOK == /\ registered_topics_ \subseteq Topics
          /\ IsMap(topic_max_queue_sizes_, Sizes)
          /\ IsMap(subscribers_, Seq(Subscribers))
          /\ IsMap(message_queue_, Seq(1..MaxPushes))
          /\ locked \in BOOLEAN
          /\ toVisit \subseteq DOMAIN message_queue_
          /\ calling \in [msg : 0..MaxPushes, to : Seq(Subscribers)]
          /\ object \in [Subscribers -> Object]
          /\ pushed \in [Topics -> 0..MaxPushes]
          /\ received \in [Subscribers -> Seq(1..MaxPushes)]

(* Whatever is lost to overflow, to removal or to a topic that is not      *)
(* registered, the queue always holds the newest messages of its topic,    *)
(* without a gap, and no more than some size that was in force for it.     *)
(* (It may hold more than its present maximum: push removes one message,   *)
(* which is too few when the maximum was lowered.)                         *)
QueueHoldsNewest ==
  \A t \in DOMAIN message_queue_ :
    LET queue == message_queue_[t]
        sized == {s \in Subscribers : /\ object[s].topic = t
                                      /\ object[s].stage \notin {"unborn", "registered"}}
    IN  /\ \A i \in DOMAIN queue : queue[i] = pushed[t] - Len(queue) + i
        /\ \E size \in {DefaultSize} \cup {object[s].size : s \in sized} : Len(queue) <= size

(* A callback sees the messages of its topic in the order of their pushes  *)
(* and none of them twice, however often the topic is removed and          *)
(* registered again under way.                                             *)
ReceivedInOrder ==
  \A s \in Subscribers : \A i \in 1..(Len(received[s]) - 1) :
    received[s][i] < received[s][i + 1]

(* Once the destructor of a Subscriber has returned its callback is not    *)
(* called again: what is still to be called belongs to living ones.        *)
CallsOnlyTheLiving ==
  \A s \in Range(calling.to) : object[s].stage = "alive"

(* A living Subscriber that no destructor of another one disturbed is      *)
(* registered, is among the topic's callbacks, and the newest message      *)
(* pushed since it was added has reached it or is still to reach it.       *)
UndisturbedIsServed ==
  \A s \in Subscribers :
    LET t == object[s].topic
    IN  object[s].stage = "alive" /\ ~object[s].disturbed =>
          /\ t \in registered_topics_
          /\ s \in Range(ListAt(subscribers_, t))
          /\ pushed[t] > object[s].since =>
               \/ pushed[t] \in Range(ListAt(message_queue_, t))
               \/ pushed[t] \in Range(received[s])
               \/ calling.msg = pushed[t] /\ s \in Range(calling.to)

-----------------------------------------------------------------------------
(* What the queue promises. *)

FollowersOf  == [t \in Topics |-> Range(ListAt(subscribers_, t))]
WaitingCount == [t \in Topics |-> Len(ListAt(message_queue_, t))]
DueCalls     == {<<s, calling.msg>> : s \in Range(calling.to)}

Feed == INSTANCE TopicFeed WITH
  Limits <- Sizes \cup {DefaultSize}, open <- registered_topics_,
  followers <- FollowersOf, waiting <- WaitingCount, due <- DueCalls

(* The maps, the lists and the loop under the mutex implement the feed: a  *)
(* message is taken once, for everyone who follows its topic then, and     *)
(* nothing is pushed, added or removed until all of them have been called. *)
ImplementsFeed == Feed!Spec
=============================================================================
