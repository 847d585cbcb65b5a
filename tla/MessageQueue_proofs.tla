------------------------ MODULE MessageQueue_proofs ------------------------
(***************************************************************************)
(* Proofs about a node's message queue, for every set of topics and        *)
(* Subscribers, all positive sizes and any number of messages: queues hold *)
(* the newest messages, callbacks see them in order, only the living are   *)
(* called, and a Subscriber left alone is served.                          *)
(***************************************************************************)
EXTENDS MessageQueue, SequenceTheorems, TLAPS

Queue(t)     == ListAt(message_queue_, t)
Callbacks(t) == ListAt(subscribers_, t)

-----------------------------------------------------------------------------
(* Lists. *)

NoRepeats(q) == \A i, j \in 1..Len(q) : q[i] = q[j] => i = j

LEMMA RangeOfList ==
  ASSUME NEW S, NEW q \in Seq(S)
  PROVE  /\ Len(q) \in Nat /\ DOMAIN q = 1..Len(q)
         /\ Range(q) = {q[i] : i \in 1..Len(q)}
         /\ Range(q) \subseteq S
         /\ \A i \in 1..Len(q) : q[i] \in S
BY DEF Range

LEMMA EmptyList ==
  ASSUME NEW S
  PROVE  /\ <<>> \in Seq(S) /\ Len(<<>>) = 0 /\ Range(<<>>) = {} /\ NoRepeats(<<>>)
         /\ \A q \in Seq(S) : q # <<>> <=> Len(q) > 0
<1>1. <<>> \in Seq(S) /\ Len(<<>>) = 0
  OBVIOUS
<1>2. ASSUME NEW q \in Seq(S) PROVE q # <<>> <=> Len(q) > 0
  <2>1. q = <<>> <=> Len(q) = 0
    BY EmptySeq
  <2>2. Len(q) \in Nat
    BY LenProperties
  <2> QED BY <2>1, <2>2
<1>3. Range(<<>>) = {} /\ NoRepeats(<<>>)
  BY DEF Range, NoRepeats
<1> QED BY <1>1, <1>2, <1>3

LEMMA AppendList ==
  ASSUME NEW S, NEW q \in Seq(S), NEW e \in S
  PROVE  /\ Append(q, e) \in Seq(S)
         /\ Len(Append(q, e)) = Len(q) + 1
         /\ \A i \in 1..Len(q) : Append(q, e)[i] = q[i]
         /\ Append(q, e)[Len(q) + 1] = e
         /\ Range(Append(q, e)) = Range(q) \cup {e}
         /\ NoRepeats(q) /\ e \notin Range(q) => NoRepeats(Append(q, e))
<1> DEFINE r == Append(q, e)
<1>1. /\ r \in Seq(S) /\ Len(r) = Len(q) + 1 /\ Len(q) \in Nat
      /\ \A i \in 1..Len(q) : r[i] = q[i]
      /\ r[Len(q) + 1] = e
  BY AppendProperties, LenProperties
<1> HIDE DEF r
<1>2. 1..Len(r) = 1..Len(q) \cup {Len(q) + 1}
  BY <1>1
<1>3. Range(r) = Range(q) \cup {e}
  BY <1>1, <1>2, RangeOfList
<1>4. NoRepeats(q) /\ e \notin Range(q) => NoRepeats(r)
  BY <1>1, <1>2, RangeOfList DEF NoRepeats
<1> QED BY <1>1, <1>3, <1>4 DEF r

LEMMA TailList ==
  ASSUME NEW S, NEW q \in Seq(S), q # <<>>
  PROVE  /\ Tail(q) \in Seq(S) /\ Head(q) \in S /\ Head(q) = q[1]
         /\ Len(q) \in Nat \ {0} /\ Len(Tail(q)) = Len(q) - 1
         /\ \A i \in 1..Len(Tail(q)) : Tail(q)[i] = q[i + 1]
         /\ Range(q) = Range(Tail(q)) \cup {Head(q)}
         /\ NoRepeats(q) => NoRepeats(Tail(q)) /\ Head(q) \notin Range(Tail(q))
<1> DEFINE r == Tail(q)
<1>1. /\ r \in Seq(S) /\ Head(q) \in S /\ Head(q) = q[1]
      /\ Len(q) \in Nat \ {0} /\ Len(r) = Len(q) - 1
      /\ \A i \in 1..Len(r) : r[i] = q[i + 1]
  BY HeadTailProperties, EmptyList, LenProperties
<1> HIDE DEF r
<1>2. /\ \A i \in 1..Len(q) : i = 1 \/ (i - 1 \in 1..Len(r) /\ q[i] = r[i - 1])
      /\ \A i \in 1..Len(r) : i + 1 \in 1..Len(q)
  BY <1>1
<1>3. Range(q) = Range(r) \cup {Head(q)}
  <2>1. Range(q) = {q[i] : i \in 1..Len(q)} /\ Range(r) = {r[i] : i \in 1..Len(r)}
    BY <1>1, RangeOfList
  <2>2. ASSUME NEW i \in 1..Len(q) PROVE q[i] \in Range(r) \cup {Head(q)}
    BY <1>1, <1>2, <2>1
  <2>3. ASSUME NEW i \in 1..Len(r) PROVE r[i] \in Range(q)
    BY <1>1, <1>2, <2>1
  <2>4. Head(q) \in Range(q)
    BY <1>1, <2>1
  <2> QED BY <2>1, <2>2, <2>3, <2>4
<1>4. ASSUME NoRepeats(q) PROVE NoRepeats(r) /\ Head(q) \notin Range(r)
  <2>1. NoRepeats(r)
    BY <1>1, <1>2, <1>4 DEF NoRepeats
  <2>2. ASSUME Head(q) \in Range(r) PROVE FALSE
    <3>1. PICK i \in 1..Len(r) : r[i] = Head(q)
      BY <1>1, <2>2, RangeOfList
    <3>2. q[i + 1] = q[1] /\ i + 1 \in 1..Len(q) /\ 1 \in 1..Len(q)
      BY <1>1, <1>2, <3>1
    <3> QED BY <1>4, <3>1, <3>2 DEF NoRepeats
  <2> QED BY <2>1, <2>2
<1> QED BY <1>1, <1>3, <1>4 DEF r

(* A full queue makes room by one message, its oldest. *)
LEMMA RoomInQueue ==
  ASSUME NEW S, NEW q \in Seq(S), NEW max \in Nat \ {0}
  PROVE  /\ Room(q, max) \in Seq(S)
         /\ Len(Room(q, max)) = IF Len(q) >= max THEN Len(q) - 1 ELSE Len(q)
         /\ \A i \in 1..Len(Room(q, max)) :
              Room(q, max)[i] = q[i + Len(q) - Len(Room(q, max))]
<1>1. Len(q) \in Nat
  BY LenProperties
<1>2. CASE Len(q) >= max
  <2>1. q # <<>>
    BY <1>1, <1>2, EmptyList
  <2> QED BY <1>1, <1>2, <2>1, TailList DEF Room
<1>3. CASE ~(Len(q) >= max)
  BY <1>1, <1>3 DEF Room
<1> QED BY <1>2, <1>3

-----------------------------------------------------------------------------
(* Maps from topics. *)

LEMMA PutTyped ==
  ASSUME NEW V, NEW map, IsMap(map, V), NEW t \in Topics, NEW v \in V
  PROVE  IsMap(Put(map, t, v), V)
BY DEF IsMap, Put

LEMMA EraseTyped ==
  ASSUME NEW V, NEW map, IsMap(map, V), NEW t
  PROVE  IsMap(Erase(map, t), V)
BY DEF IsMap, Erase, Restrict

LEMMA PutListAt ==
  ASSUME NEW map, NEW t, NEW v, NEW u
  PROVE  ListAt(Put(map, t, v), u) = IF u = t THEN v ELSE ListAt(map, u)
BY DEF Put, ListAt

LEMMA EraseListAt ==
  ASSUME NEW map, NEW t, NEW u
  PROVE  ListAt(Erase(map, t), u) = IF u = t THEN <<>> ELSE ListAt(map, u)
BY DEF Erase, Restrict, ListAt

LEMMA ListsTyped ==
  ASSUME NEW S, NEW map, IsMap(map, Seq(S)), NEW t
  PROVE  ListAt(map, t) \in Seq(S)
BY EmptyList DEF IsMap, ListAt

-----------------------------------------------------------------------------
(* The inductive invariant.                                                *)

(* The Subscribers that have asked for a size of their topic. *)
SizedFor(t) == {s \in Subscribers : /\ object[s].topic = t
                                    /\ object[s].stage \notin {"unborn", "registered"}}

SizesOf(t) == {DefaultSize} \cup {object[s].size : s \in SizedFor(t)}

(* Without the mutex nothing is under way. *)
AtRest == ~locked => toVisit = {} /\ calling = Silent

QueuesRegistered == DOMAIN message_queue_ \subseteq registered_topics_

(* A size in force is one that was asked for. *)
SizesAsked == \A t \in Topics : MaxSize(t) \in SizesOf(t)

(* A queue is no longer than some size that was in force, and its messages *)
(* end with the last one pushed, without a gap.                            *)
NotTooLong == \A t \in Topics : \E size \in SizesOf(t) : Len(Queue(t)) <= size

HoldsNewest ==
  \A t \in Topics : \A i \in 1..Len(Queue(t)) :
    Queue(t)[i] = pushed[t] - Len(Queue(t)) + i

(* Callbacks are of living Subscribers of the topic, once each. *)
CallbacksAlive ==
  \A t \in Topics :
    /\ NoRepeats(Callbacks(t))
    /\ \A s \in Range(Callbacks(t)) : object[s].stage = "alive" /\ object[s].topic = t

CallingAlive ==
  /\ NoRepeats(calling.to)
  /\ \A s \in Range(calling.to) : object[s].stage = "alive"

(* What a callback has seen is older than what is in the queue, and than   *)
(* the message that it is to be called with next.                          *)
SeenIsOlder ==
  \A s \in Subscribers : \A i \in 1..Len(received[s]) :
    received[s][i] <= pushed[object[s].topic] - Len(Queue(object[s].topic))

CalledIsOlder ==
  \A s \in Range(calling.to) :
    /\ calling.msg \in 1..MaxPushes
    /\ calling.msg <= pushed[object[s].topic] - Len(Queue(object[s].topic))
    /\ \A i \in 1..Len(received[s]) : received[s][i] < calling.msg

(* An undisturbed constructor finds its topic still registered. *)
MadeRegistered ==
  \A s \in Subscribers :
    object[s].stage \in {"registered", "sized"} /\ ~object[s].disturbed =>
      object[s].topic \in registered_topics_

(* The newest message has reached s, or is still to. *)
Reaches(s) ==
  LET t == object[s].topic
  IN  \/ pushed[t] \in Range(Queue(t))
      \/ pushed[t] \in Range(received[s])
      \/ calling.msg = pushed[t] /\ s \in Range(calling.to)

Served(s) ==
  /\ object[s].topic \in registered_topics_
  /\ s \in Range(Callbacks(object[s].topic))
  /\ pushed[object[s].topic] > object[s].since => Reaches(s)

AllServed ==
  \A s \in Subscribers : object[s].stage = "alive" /\ ~object[s].disturbed => Served(s)

IndInv == /\ TypeOK /\ AtRest
          /\ QueuesRegistered /\ SizesAsked /\ NotTooLong /\ HoldsNewest
          /\ CallbacksAlive /\ CallingAlive
          /\ SeenIsOlder /\ CalledIsOlder /\ ReceivedInOrder
          /\ MadeRegistered /\ AllServed

(* The types that the steps need most. *)
LEMMA Typed ==
  ASSUME TypeOK
  PROVE  /\ \A t : Queue(t) \in Seq(1..MaxPushes) /\ Len(Queue(t)) \in Nat
         /\ \A t : Callbacks(t) \in Seq(Subscribers)
         /\ \A t \in Topics : pushed[t] \in 0..MaxPushes /\ pushed[t] \in Nat
         /\ \A t \in Topics : MaxSize(t) \in Nat \ {0}
         /\ \A s \in Subscribers : /\ object[s] \in Object
                                   /\ object[s].topic \in Topics
                                   /\ object[s].size \in Nat \ {0}
                                   /\ received[s] \in Seq(1..MaxPushes)
                                   /\ Len(received[s]) \in Nat
                                   /\ \A i \in 1..Len(received[s]) : received[s][i] \in Nat
         /\ calling.to \in Seq(Subscribers) /\ Range(calling.to) \subseteq Subscribers
<1>1. \A t : Queue(t) \in Seq(1..MaxPushes)
  BY ListsTyped DEF TypeOK, Queue
<1>2. \A t : Callbacks(t) \in Seq(Subscribers)
  BY ListsTyped DEF TypeOK, Callbacks
<1>3. \A t \in Topics : pushed[t] \in 0..MaxPushes /\ pushed[t] \in Nat
  BY PushesAssumption DEF PushesAssumption, TypeOK
<1>4. \A t \in Topics : MaxSize(t) \in Nat \ {0}
  BY SizesAssumption DEF SizesAssumption, TypeOK, IsMap, MaxSize
<1>5. \A s \in Subscribers : /\ object[s] \in Object
                             /\ object[s].topic \in Topics
                             /\ object[s].size \in Nat \ {0}
                             /\ received[s] \in Seq(1..MaxPushes)
  BY SizesAssumption DEF SizesAssumption, TypeOK, Object
<1>6. calling.to \in Seq(Subscribers) /\ Range(calling.to) \subseteq Subscribers
  BY RangeOfList DEF TypeOK
<1>7. \A s \in Subscribers : \A i \in 1..Len(received[s]) : received[s][i] \in Nat
  <2>1. 1..MaxPushes \subseteq Nat
    BY PushesAssumption DEF PushesAssumption
  <2> QED BY <1>5, <2>1, RangeOfList
<1> QED BY <1>1, <1>2, <1>3, <1>4, <1>5, <1>6, <1>7, LenProperties

LEMMA InitInductive == Init => IndInv
<1> SUFFICES ASSUME Init PROVE IndInv
  OBVIOUS
<1>1. /\ DOMAIN subscribers_ = {} /\ DOMAIN message_queue_ = {}
      /\ DOMAIN topic_max_queue_sizes_ = {}
      /\ \A V : /\ IsMap(subscribers_, V) /\ IsMap(message_queue_, V)
               /\ IsMap(topic_max_queue_sizes_, V)
  BY DEF Init, EmptyMap, IsMap
<1>2. \A t : Queue(t) = <<>> /\ Callbacks(t) = <<>>
  BY <1>1 DEF Queue, Callbacks, ListAt
<1>3. /\ calling.to = <<>> /\ calling.msg = 0 /\ calling = Silent
      /\ \A s \in Subscribers : received[s] = <<>>
      /\ \A t \in Topics : pushed[t] = 0
      /\ \A s \in Subscribers : object[s].stage = "unborn" /\ object[s] \in Object
  <2>1. ASSUME NEW s \in Subscribers PROVE object[s].stage = "unborn" /\ object[s] \in Object
    <3>1. object[s] \in [stage : {"unborn"}, topic : Topics, size : Sizes,
                         since : {0}, disturbed : {FALSE}]
      BY DEF Init
    <3>2. /\ {"unborn"} \subseteq Stages /\ {0} \subseteq 0..MaxPushes
          /\ {FALSE} \subseteq BOOLEAN
      BY PushesAssumption DEF PushesAssumption, Stages
    <3> QED BY <3>1, <3>2, Zenon DEF Object
  <2> QED BY <2>1 DEF Init, Silent
<1>4. TypeOK
  <2>1. /\ calling \in [msg : 0..MaxPushes, to : Seq(Subscribers)]
        /\ pushed \in [Topics -> 0..MaxPushes]
        /\ received \in [Subscribers -> Seq(1..MaxPushes)]
    BY <1>3, EmptyList, PushesAssumption DEF PushesAssumption, Init, Silent
  <2>2. object \in [Subscribers -> Object]
    BY <1>3 DEF Init
  <2> QED BY <1>1, <2>1, <2>2 DEF Init, TypeOK
<1>5. AtRest /\ QueuesRegistered /\ SizesAsked
  BY <1>1, <1>3 DEF Init, AtRest, QueuesRegistered, SizesAsked, MaxSize, SizesOf
<1>6. NotTooLong
  BY <1>2, EmptyList, SizesAssumption DEF SizesAssumption, NotTooLong, SizesOf
<1>7. HoldsNewest /\ CallbacksAlive /\ CallingAlive /\ CalledIsOlder
  BY <1>2, <1>3, EmptyList DEF HoldsNewest, CallbacksAlive, CallingAlive, CalledIsOlder
<1>8. SeenIsOlder /\ ReceivedInOrder
  BY <1>3, EmptyList DEF SeenIsOlder, ReceivedInOrder
<1>9. MadeRegistered /\ AllServed
  BY <1>3 DEF MadeRegistered, AllServed
<1> QED BY <1>4, <1>5, <1>6, <1>7, <1>8, <1>9 DEF IndInv

-----------------------------------------------------------------------------
(* Subscriber objects.                                                     *)

(* An object keeps its topic and its size, and what it has asked for. *)
Forward ==
  \A o \in Subscribers :
    /\ object'[o].topic = object[o].topic
    /\ object'[o].size = object[o].size
    /\ object[o].stage \notin {"unborn", "registered"} =>
         object'[o].stage \notin {"unborn", "registered"}

LEMMA SizesGrow ==
  ASSUME Forward
  PROVE  \A t : SizesOf(t) \subseteq SizesOf(t)'
BY DEF Forward, SizesOf, SizedFor

LEMMA StageMoves ==
  ASSUME TypeOK, NEW s \in Subscribers, NEW stage \in Stages,
         object' = [object EXCEPT ![s].stage = stage]
  PROVE  /\ object' \in [Subscribers -> Object]
         /\ object'[s].stage = stage
         /\ \A o \in Subscribers : /\ object'[o].topic = object[o].topic
                                   /\ object'[o].size = object[o].size
                                   /\ object'[o].since = object[o].since
                                   /\ object'[o].disturbed = object[o].disturbed
                                   /\ o # s => object'[o] = object[o]
<1> DEFINE new == [object[s] EXCEPT !.stage = stage]
<1>1. object[s] \in Object /\ object \in [Subscribers -> Object]
  BY DEF TypeOK
<1>2. /\ new \in Object /\ new.stage = stage
      /\ new.topic = object[s].topic /\ new.size = object[s].size
      /\ new.since = object[s].since /\ new.disturbed = object[s].disturbed
  BY <1>1 DEF Object
<1>3. object' = [object EXCEPT ![s] = new]
  BY <1>1
<1> HIDE DEF new
<1>4. object'[s] = new /\ \A o \in Subscribers : o # s => object'[o] = object[o]
  BY <1>1, <1>3
<1> QED BY <1>1, <1>2, <1>3, <1>4

LEMMA ObjectAdded ==
  ASSUME TypeOK, NEW s \in Subscribers,
         object' = [object EXCEPT ![s].stage = "alive", ![s].since = pushed[object[s].topic]]
  PROVE  /\ object' \in [Subscribers -> Object]
         /\ object'[s].stage = "alive" /\ object'[s].since = pushed[object[s].topic]
         /\ \A o \in Subscribers : /\ object'[o].topic = object[o].topic
                                   /\ object'[o].size = object[o].size
                                   /\ object'[o].disturbed = object[o].disturbed
                                   /\ o # s => object'[o] = object[o]
<1> DEFINE new == [object[s] EXCEPT !.stage = "alive", !.since = pushed[object[s].topic]]
<1>1. object[s] \in Object /\ object \in [Subscribers -> Object]
  BY DEF TypeOK
<1>2. pushed[object[s].topic] \in 0..MaxPushes
  BY Typed
<1>3. /\ new \in Object /\ new.stage = "alive"
      /\ new.topic = object[s].topic /\ new.size = object[s].size
      /\ new.since = pushed[object[s].topic] /\ new.disturbed = object[s].disturbed
  BY <1>1, <1>2 DEF Object, Stages
<1>4. object' = [object EXCEPT ![s] = new]
  BY <1>1
<1> HIDE DEF new
<1>5. object'[s] = new /\ \A o \in Subscribers : o # s => object'[o] = object[o]
  BY <1>1, <1>4
<1> QED BY <1>1, <1>3, <1>4, <1>5

LEMMA ObjectRemoved ==
  ASSUME TypeOK, NEW s \in Subscribers,
         object' = [o \in Subscribers |->
           IF o = s THEN [object[o] EXCEPT !.stage = "gone"]
           ELSE IF object[o].topic = object[s].topic /\ object[o].stage # "unborn"
                THEN [object[o] EXCEPT !.disturbed = TRUE] ELSE object[o]]
  PROVE  /\ object' \in [Subscribers -> Object]
         /\ object'[s].stage = "gone"
         /\ \A o \in Subscribers :
              /\ object'[o].topic = object[o].topic
              /\ object'[o].size = object[o].size
              /\ object'[o].since = object[o].since
              /\ o # s => object'[o].stage = object[o].stage
              /\ o # s /\ object[o].topic # object[s].topic => object'[o] = object[o]
              /\ o # s /\ object[o].topic = object[s].topic
                   /\ object[o].stage # "unborn" => object'[o].disturbed = TRUE
<1>1. \A o \in Subscribers :
        LET c == object[o]
        IN  /\ c \in Object
            /\ [c EXCEPT !.stage = "gone"] \in Object
            /\ [c EXCEPT !.disturbed = TRUE] \in Object
            /\ [c EXCEPT !.stage = "gone"].stage = "gone"
            /\ [c EXCEPT !.stage = "gone"].topic = c.topic
            /\ [c EXCEPT !.stage = "gone"].size = c.size
            /\ [c EXCEPT !.stage = "gone"].since = c.since
            /\ [c EXCEPT !.disturbed = TRUE].disturbed = TRUE
            /\ [c EXCEPT !.disturbed = TRUE].stage = c.stage
            /\ [c EXCEPT !.disturbed = TRUE].topic = c.topic
            /\ [c EXCEPT !.disturbed = TRUE].size = c.size
            /\ [c EXCEPT !.disturbed = TRUE].since = c.since
  BY DEF TypeOK, Object, Stages
<1>2. object' \in [Subscribers -> Object]
  BY <1>1
<1>3. object'[s] = [object[s] EXCEPT !.stage = "gone"]
  OBVIOUS
<1>4. ASSUME NEW o \in Subscribers, o # s
      PROVE  object'[o] = IF object[o].topic = object[s].topic /\ object[o].stage # "unborn"
                          THEN [object[o] EXCEPT !.disturbed = TRUE] ELSE object[o]
  BY <1>4
<1> QED BY <1>1, <1>2, <1>3, <1>4

-----------------------------------------------------------------------------
(* What a step of a constructor leaves alone keeps much of the invariant.  *)

LEMMA ConstructorKeeps ==
  ASSUME IndInv, Forward, UNCHANGED <<message_queue_, spinVars, pushed, received>>
  PROVE  /\ AtRest' /\ NotTooLong' /\ HoldsNewest'
         /\ SeenIsOlder' /\ CalledIsOlder' /\ ReceivedInOrder'
         /\ \A t : Queue(t)' = Queue(t)
         /\ calling' = calling
<1>1. /\ locked' = locked /\ toVisit' = toVisit /\ calling' = calling
      /\ message_queue_' = message_queue_ /\ pushed' = pushed /\ received' = received
  BY DEF spinVars
<1>2. \A t : Queue(t)' = Queue(t)
  BY <1>1 DEF Queue
<1>3. AtRest' /\ ReceivedInOrder' /\ HoldsNewest'
  BY <1>1, <1>2 DEF IndInv, AtRest, ReceivedInOrder, HoldsNewest
<1>4. NotTooLong'
  BY <1>2, SizesGrow DEF IndInv, NotTooLong
<1>5. SeenIsOlder'
  BY <1>1, <1>2 DEF IndInv, SeenIsOlder, Forward
<1>6. CalledIsOlder'
  <2>1. Range(calling.to) \subseteq Subscribers
    BY Typed DEF IndInv
  <2> QED BY <1>1, <1>2, <2>1 DEF IndInv, CalledIsOlder, Forward
<1> QED BY <1>1, <1>2, <1>3, <1>4, <1>5, <1>6

LEMMA RegisterTopicKeeps ==
  ASSUME IndInv, NEW s \in Subscribers, RegisterTopic(s)
  PROVE  IndInv'
<1>1. TypeOK /\ object[s].topic \in Topics /\ Range(calling.to) \subseteq Subscribers
  BY Typed DEF IndInv
<1>2. /\ object' \in [Subscribers -> Object]
      /\ object'[s].stage = "registered" /\ object[s].stage = "unborn"
      /\ \A o \in Subscribers : /\ object'[o].topic = object[o].topic
                                /\ object'[o].size = object[o].size
                                /\ object'[o].since = object[o].since
                                /\ object'[o].disturbed = object[o].disturbed
                                /\ o # s => object'[o] = object[o]
  <2>1. "registered" \in Stages
    BY DEF Stages
  <2> QED BY <1>1, <2>1, StageMoves DEF RegisterTopic
<1>3. /\ registered_topics_' = registered_topics_ \cup {object[s].topic}
      /\ UNCHANGED <<topic_max_queue_sizes_, subscribers_, message_queue_, spinVars,
                     pushed, received>>
  BY DEF RegisterTopic
<1>4. Forward
  BY <1>2 DEF Forward
<1>5. /\ AtRest' /\ NotTooLong' /\ HoldsNewest'
      /\ SeenIsOlder' /\ CalledIsOlder' /\ ReceivedInOrder'
      /\ \A t : Queue(t)' = Queue(t)
      /\ calling' = calling
  BY <1>3, <1>4, ConstructorKeeps
<1>6. TypeOK'
  BY <1>1, <1>2, <1>3 DEF TypeOK, spinVars
<1>7. QueuesRegistered' /\ SizesAsked'
  <2>1. \A t : MaxSize(t)' = MaxSize(t)
    BY <1>3 DEF MaxSize
  <2> QED BY <1>3, <1>4, <2>1, SizesGrow DEF IndInv, QueuesRegistered, SizesAsked
<1>8. \A t : Callbacks(t)' = Callbacks(t)
  BY <1>3 DEF Callbacks
<1>9. CallbacksAlive' /\ CallingAlive'
  <2>1. \A t \in Topics : Range(Callbacks(t)) \subseteq Subscribers
    BY <1>1, Typed, RangeOfList
  <2> QED BY <1>1, <1>2, <1>5, <1>8, <2>1 DEF IndInv, CallbacksAlive, CallingAlive
<1>10. MadeRegistered'
  BY <1>2, <1>3 DEF IndInv, MadeRegistered
<1>11. AllServed'
  <2> SUFFICES ASSUME NEW o \in Subscribers, object'[o].stage = "alive", ~object'[o].disturbed
               PROVE  Served(o)'
    BY DEF AllServed
  <2>1. o # s /\ Served(o)
    BY <1>2 DEF IndInv, AllServed
  <2> QED BY <1>2, <1>3, <1>5, <1>8, <2>1 DEF Served, Reaches, spinVars
<1> QED BY <1>5, <1>6, <1>7, <1>9, <1>10, <1>11 DEF IndInv

LEMMA SetSizeKeeps ==
  ASSUME IndInv, NEW s \in Subscribers, SetTopicMaxQueueSize(s)
  PROVE  IndInv'
<1>1. TypeOK /\ object[s].topic \in Topics /\ Range(calling.to) \subseteq Subscribers
  BY Typed DEF IndInv
<1>2. /\ object' \in [Subscribers -> Object]
      /\ object'[s].stage = "sized" /\ object[s].stage = "registered"
      /\ \A o \in Subscribers : /\ object'[o].topic = object[o].topic
                                /\ object'[o].size = object[o].size
                                /\ object'[o].since = object[o].since
                                /\ object'[o].disturbed = object[o].disturbed
                                /\ o # s => object'[o] = object[o]
  <2>1. "sized" \in Stages
    BY DEF Stages
  <2> QED BY <1>1, <2>1, StageMoves DEF SetTopicMaxQueueSize
<1>3. /\ topic_max_queue_sizes_' = Put(topic_max_queue_sizes_, object[s].topic, object[s].size)
      /\ UNCHANGED <<registered_topics_, subscribers_, message_queue_, spinVars,
                     pushed, received>>
  BY DEF SetTopicMaxQueueSize
<1>4. Forward
  BY <1>2 DEF Forward
<1>5. /\ AtRest' /\ NotTooLong' /\ HoldsNewest'
      /\ SeenIsOlder' /\ CalledIsOlder' /\ ReceivedInOrder'
      /\ \A t : Queue(t)' = Queue(t)
      /\ calling' = calling
  BY <1>3, <1>4, ConstructorKeeps
<1>6. object[s].size \in Sizes /\ IsMap(topic_max_queue_sizes_, Sizes)
  BY <1>1 DEF TypeOK, Object
<1>7. /\ IsMap(topic_max_queue_sizes_', Sizes)
      /\ \A t : MaxSize(t)' = IF t = object[s].topic THEN object[s].size ELSE MaxSize(t)
  <2>1. IsMap(Put(topic_max_queue_sizes_, object[s].topic, object[s].size), Sizes)
    BY <1>1, <1>6, PutTyped
  <2>2. \A t : MaxSize(t)' = IF t = object[s].topic THEN object[s].size ELSE MaxSize(t)
    BY <1>3 DEF MaxSize, Put
  <2> QED BY <1>3, <2>1, <2>2
<1>8. TypeOK'
  BY <1>1, <1>2, <1>3, <1>7 DEF TypeOK, spinVars
<1>9. QueuesRegistered' /\ SizesAsked'
  <2>1. \A t : t = object[s].topic => object[s].size \in SizesOf(t)'
    BY <1>2 DEF SizesOf, SizedFor
  <2>2. \A t \in Topics : MaxSize(t) \in SizesOf(t)'
    BY <1>4, SizesGrow DEF IndInv, SizesAsked
  <2> QED BY <1>3, <1>7, <2>1, <2>2 DEF IndInv, QueuesRegistered, SizesAsked
<1>10. \A t : Callbacks(t)' = Callbacks(t)
  BY <1>3 DEF Callbacks
<1>11. CallbacksAlive' /\ CallingAlive'
  <2>1. \A t \in Topics : Range(Callbacks(t)) \subseteq Subscribers
    BY <1>1, Typed, RangeOfList
  <2> QED BY <1>1, <1>2, <1>5, <1>10, <2>1 DEF IndInv, CallbacksAlive, CallingAlive
<1>12. MadeRegistered'
  BY <1>2, <1>3 DEF IndInv, MadeRegistered
<1>13. AllServed'
  <2> SUFFICES ASSUME NEW o \in Subscribers, object'[o].stage = "alive", ~object'[o].disturbed
               PROVE  Served(o)'
    BY DEF AllServed
  <2>1. o # s /\ Served(o)
    BY <1>2 DEF IndInv, AllServed
  <2> QED BY <1>2, <1>3, <1>5, <1>10, <2>1 DEF Served, Reaches, spinVars
<1> QED BY <1>5, <1>8, <1>9, <1>11, <1>12, <1>13 DEF IndInv

LEMMA AddSubscriberKeeps ==
  ASSUME IndInv, NEW s \in Subscribers, AddSubscriber(s)
  PROVE  IndInv'
<1>1. TypeOK /\ object[s].topic \in Topics /\ Range(calling.to) \subseteq Subscribers
  BY Typed DEF IndInv
<1>2. /\ object' \in [Subscribers -> Object]
      /\ object'[s].stage = "alive" /\ object[s].stage = "sized"
      /\ object'[s].since = pushed[object[s].topic]
      /\ \A o \in Subscribers : /\ object'[o].topic = object[o].topic
                                /\ object'[o].size = object[o].size
                                /\ object'[o].disturbed = object[o].disturbed
                                /\ o # s => object'[o] = object[o]
  BY <1>1, ObjectAdded DEF AddSubscriber
<1>3. /\ subscribers_' = Put(subscribers_, object[s].topic, Append(Callbacks(object[s].topic), s))
      /\ UNCHANGED <<registered_topics_, topic_max_queue_sizes_, message_queue_, spinVars,
                     pushed, received>>
  BY DEF AddSubscriber, Callbacks
<1>4. Forward
  BY <1>2 DEF Forward
<1>5. /\ AtRest' /\ NotTooLong' /\ HoldsNewest'
      /\ SeenIsOlder' /\ CalledIsOlder' /\ ReceivedInOrder'
      /\ \A t : Queue(t)' = Queue(t)
      /\ calling' = calling
  BY <1>3, <1>4, ConstructorKeeps
<1> DEFINE new == Append(Callbacks(object[s].topic), s)
<1>6. /\ \A t \in Topics : Callbacks(t) \in Seq(Subscribers)
      /\ \A t \in Topics : Range(Callbacks(t)) \subseteq Subscribers
      /\ \A t \in Topics : s \notin Range(Callbacks(t))
  <2>1. \A t \in Topics : Callbacks(t) \in Seq(Subscribers)
    BY <1>1, Typed
  <2>2. \A t \in Topics : Range(Callbacks(t)) \subseteq Subscribers
    BY <2>1, RangeOfList
  <2> QED BY <1>2, <2>1, <2>2 DEF IndInv, CallbacksAlive
<1>7. /\ new \in Seq(Subscribers)
      /\ Range(new) = Range(Callbacks(object[s].topic)) \cup {s}
      /\ NoRepeats(new)
  BY <1>1, <1>6, AppendList DEF IndInv, CallbacksAlive
<1> HIDE DEF new
<1>8. /\ \A t : Callbacks(t)' = IF t = object[s].topic THEN new ELSE Callbacks(t)
      /\ IsMap(subscribers_', Seq(Subscribers))
  <2>1. subscribers_' = Put(subscribers_, object[s].topic, new)
    BY <1>3 DEF new
  <2>2. \A t : Callbacks(t)' = IF t = object[s].topic THEN new ELSE Callbacks(t)
    BY <2>1, PutListAt DEF Callbacks
  <2>3. IsMap(subscribers_, Seq(Subscribers))
    BY <1>1 DEF TypeOK
  <2>4. IsMap(Put(subscribers_, object[s].topic, new), Seq(Subscribers))
    BY <1>1, <1>7, <2>3, PutTyped
  <2> QED BY <2>1, <2>2, <2>4
<1>9. TypeOK'
  BY <1>1, <1>2, <1>3, <1>8 DEF TypeOK, spinVars
<1>10. QueuesRegistered' /\ SizesAsked'
  <2>1. \A t : MaxSize(t)' = MaxSize(t)
    BY <1>3 DEF MaxSize
  <2> QED BY <1>3, <1>4, <2>1, SizesGrow DEF IndInv, QueuesRegistered, SizesAsked
<1>11. CallbacksAlive'
  <2> SUFFICES ASSUME NEW t \in Topics
               PROVE  /\ NoRepeats(Callbacks(t)')
                      /\ \A o \in Range(Callbacks(t)') :
                           object'[o].stage = "alive" /\ object'[o].topic = t
    BY DEF CallbacksAlive
  <2>1. \A o \in Range(Callbacks(t)) : object'[o].stage = "alive" /\ object'[o].topic = t
    BY <1>2, <1>6 DEF IndInv, CallbacksAlive
  <2> QED BY <1>2, <1>7, <1>8, <2>1 DEF IndInv, CallbacksAlive
<1>12. CallingAlive'
  BY <1>1, <1>2, <1>5 DEF IndInv, CallingAlive
<1>13. MadeRegistered'
  BY <1>2, <1>3 DEF IndInv, MadeRegistered
<1>14. AllServed'
  <2> SUFFICES ASSUME NEW o \in Subscribers, object'[o].stage = "alive", ~object'[o].disturbed
               PROVE  Served(o)'
    BY DEF AllServed
  <2>1. CASE o = s
    <3>1. object[s].topic \in registered_topics_
      BY <1>2, <2>1 DEF IndInv, MadeRegistered
    <3>2. pushed[object[s].topic] \in Nat /\ pushed' = pushed
      BY <1>1, <1>3, Typed
    <3> QED BY <1>2, <1>3, <1>7, <1>8, <2>1, <3>1, <3>2 DEF Served
  <2>2. CASE o # s
    <3>1. Served(o)
      BY <1>2, <2>2 DEF IndInv, AllServed
    <3>2. \A t : t = object[o].topic => o \in Range(Callbacks(t)')
      BY <1>7, <1>8, <3>1 DEF Served
    <3> QED BY <1>2, <1>3, <1>5, <2>2, <3>1, <3>2 DEF Served, Reaches
  <2> QED BY <2>1, <2>2
<1> QED BY <1>5, <1>9, <1>10, <1>11, <1>12, <1>13, <1>14 DEF IndInv

(* The destructor forgets the topic, and disturbs all others who have it. *)
LEMMA RemoveSubscriberKeeps ==
  ASSUME IndInv, NEW s \in Subscribers, RemoveSubscriber(s)
  PROVE  IndInv'
<1> DEFINE gone == object[s].topic
<1>1. TypeOK /\ gone \in Topics
  BY Typed DEF IndInv
<1>2. /\ object' \in [Subscribers -> Object]
      /\ object'[s].stage = "gone" /\ object[s].stage = "alive"
      /\ \A o \in Subscribers :
           /\ object'[o].topic = object[o].topic
           /\ object'[o].size = object[o].size
           /\ object'[o].since = object[o].since
           /\ o # s => object'[o].stage = object[o].stage
           /\ o # s /\ object[o].topic # gone => object'[o] = object[o]
           /\ o # s /\ object[o].topic = gone
                /\ object[o].stage # "unborn" => object'[o].disturbed = TRUE
  BY <1>1, ObjectRemoved DEF RemoveSubscriber
<1>3. /\ registered_topics_' = registered_topics_ \ {gone}
      /\ topic_max_queue_sizes_' = Erase(topic_max_queue_sizes_, gone)
      /\ subscribers_' = Erase(subscribers_, gone)
      /\ message_queue_' = Erase(message_queue_, gone)
      /\ locked' = locked /\ toVisit' = toVisit /\ calling' = calling
      /\ pushed' = pushed /\ received' = received
  BY DEF RemoveSubscriber, spinVars
<1>4. /\ toVisit = {} /\ calling = Silent /\ Range(calling.to) = {}
      /\ NoRepeats(calling.to)
  BY EmptyList DEF RemoveSubscriber, IndInv, AtRest, Silent
<1>5. Forward
  BY <1>2 DEF Forward
<1> HIDE DEF gone
<1>6. /\ \A t : Queue(t)' = IF t = gone THEN <<>> ELSE Queue(t)
      /\ \A t : Callbacks(t)' = IF t = gone THEN <<>> ELSE Callbacks(t)
      /\ \A t : MaxSize(t)' = IF t = gone THEN DefaultSize ELSE MaxSize(t)
      /\ DOMAIN message_queue_' = DOMAIN message_queue_ \ {gone}
      /\ IsMap(topic_max_queue_sizes_', Sizes)
      /\ IsMap(subscribers_', Seq(Subscribers))
      /\ IsMap(message_queue_', Seq(1..MaxPushes))
  <2>1. /\ \A t : Queue(t)' = IF t = gone THEN <<>> ELSE Queue(t)
        /\ \A t : Callbacks(t)' = IF t = gone THEN <<>> ELSE Callbacks(t)
    BY <1>3, EraseListAt DEF Queue, Callbacks
  <2>2. \A t : MaxSize(t)' = IF t = gone THEN DefaultSize ELSE MaxSize(t)
    BY <1>3 DEF MaxSize, Erase, Restrict
  <2>3. /\ IsMap(topic_max_queue_sizes_, Sizes)
        /\ IsMap(subscribers_, Seq(Subscribers))
        /\ IsMap(message_queue_, Seq(1..MaxPushes))
    BY <1>1 DEF TypeOK
  <2>4. /\ IsMap(Erase(topic_max_queue_sizes_, gone), Sizes)
        /\ IsMap(Erase(subscribers_, gone), Seq(Subscribers))
        /\ IsMap(Erase(message_queue_, gone), Seq(1..MaxPushes))
    BY <2>3, EraseTyped
  <2>5. DOMAIN message_queue_' = DOMAIN message_queue_ \ {gone}
    BY <1>3 DEF Erase, Restrict
  <2> QED BY <1>3, <2>1, <2>2, <2>4, <2>5
<1>7. \A t : Queue(t) \in Seq(1..MaxPushes) /\ Len(Queue(t)) \in Nat /\ Len(<<>>) = 0
  BY <1>1, Typed, EmptyList
<1>8. TypeOK' /\ AtRest'
  BY <1>1, <1>2, <1>3, <1>4, <1>6 DEF TypeOK, AtRest
<1>9. QueuesRegistered' /\ SizesAsked'
  <2>1. \A t \in Topics : MaxSize(t)' \in SizesOf(t)'
    BY <1>5, <1>6, SizesGrow DEF IndInv, SizesAsked, SizesOf
  <2> QED BY <1>3, <1>6, <2>1 DEF IndInv, QueuesRegistered, SizesAsked
<1>10. NotTooLong'
  <2> SUFFICES ASSUME NEW t \in Topics
               PROVE  \E size \in SizesOf(t)' : Len(Queue(t)') <= size
    BY DEF NotTooLong
  <2>1. CASE t = gone
    BY <1>6, <1>7, <2>1, SizesAssumption DEF SizesAssumption, SizesOf
  <2>2. CASE t # gone
    BY <1>5, <1>6, <2>2, SizesGrow DEF IndInv, NotTooLong
  <2> QED BY <2>1, <2>2
<1>11. HoldsNewest'
  BY <1>3, <1>6, <1>7 DEF IndInv, HoldsNewest
<1>12. CallbacksAlive'
  <2> SUFFICES ASSUME NEW t \in Topics
               PROVE  /\ NoRepeats(Callbacks(t)')
                      /\ \A o \in Range(Callbacks(t)') :
                           object'[o].stage = "alive" /\ object'[o].topic = t
    BY DEF CallbacksAlive
  <2>1. CASE t = gone
    BY <1>6, <2>1, EmptyList
  <2>2. CASE t # gone
    <3>1. Range(Callbacks(t)) \subseteq Subscribers
      BY <1>1, Typed, RangeOfList
    <3>2. ASSUME NEW o \in Range(Callbacks(t)) PROVE o # s /\ object'[o] = object[o]
      BY <1>2, <2>2, <3>1 DEF IndInv, CallbacksAlive, gone
    <3> QED BY <1>6, <2>2, <3>2 DEF IndInv, CallbacksAlive
  <2> QED BY <2>1, <2>2
<1>13. CallingAlive' /\ CalledIsOlder'
  BY <1>3, <1>4 DEF CallingAlive, CalledIsOlder
<1>14. SeenIsOlder' /\ ReceivedInOrder'
  <2>1. ReceivedInOrder'
    BY <1>3 DEF IndInv, ReceivedInOrder
  <2>2. ASSUME NEW o \in Subscribers, NEW i \in 1..Len(received[o]),
               NEW t \in Topics, t = object[o].topic
        PROVE  received[o][i] <= pushed[t] - Len(Queue(t)')
    <3>1. received[o][i] <= pushed[t] - Len(Queue(t))
      BY <2>2 DEF IndInv, SeenIsOlder
    <3>2. received[o][i] \in Nat /\ pushed[t] \in Nat
      BY <1>1, Typed
    <3>3. Len(Queue(t)') <= Len(Queue(t)) /\ Len(Queue(t)') \in Nat
      BY <1>6, <1>7
    <3> QED BY <1>7, <3>1, <3>2, <3>3
  <2>3. \A o \in Subscribers : object[o].topic \in Topics
    BY <1>1, Typed
  <2> QED BY <1>2, <1>3, <2>1, <2>2, <2>3 DEF SeenIsOlder
<1>15. MadeRegistered'
  BY <1>2, <1>3 DEF IndInv, MadeRegistered
<1>16. AllServed'
  <2> SUFFICES ASSUME NEW o \in Subscribers, object'[o].stage = "alive", ~object'[o].disturbed
               PROVE  Served(o)'
    BY DEF AllServed
  <2>1. o # s /\ object[o].topic # gone /\ object'[o] = object[o]
    BY <1>2
  <2>2. Served(o)
    BY <2>1 DEF IndInv, AllServed
  <2> QED BY <1>3, <1>6, <2>1, <2>2 DEF Served, Reaches
<1> QED BY <1>8, <1>9, <1>10, <1>11, <1>12, <1>13, <1>14, <1>15, <1>16 DEF IndInv

-----------------------------------------------------------------------------
(* Messages.                                                               *)

(* A queue without gap that ends before the new message has none after it, *)
(* and is no longer than it was unless there was room.                     *)
LEMMA PushedQueue ==
  ASSUME TypeOK, NEW t \in Topics, pushed[t] < MaxPushes,
         \A i \in 1..Len(Queue(t)) : Queue(t)[i] = pushed[t] - Len(Queue(t)) + i
  PROVE  LET new == Append(Room(Queue(t), MaxSize(t)), pushed[t] + 1)
         IN  /\ new \in Seq(1..MaxPushes)
             /\ Len(new) \in Nat /\ Len(new) <= Len(Queue(t)) + 1
             /\ Len(new) <= Len(Queue(t)) \/ Len(new) <= MaxSize(t)
             /\ \A i \in 1..Len(new) : new[i] = (pushed[t] + 1) - Len(new) + i
             /\ pushed[t] + 1 \in Range(new)
<1> DEFINE q    == Queue(t)
           max  == MaxSize(t)
           room == Room(q, max)
           n    == pushed[t]
           new  == Append(room, n + 1)
<1>1. /\ q \in Seq(1..MaxPushes) /\ Len(q) \in Nat /\ max \in Nat \ {0}
      /\ n \in Nat /\ n + 1 \in 1..MaxPushes
      /\ \A i \in 1..Len(q) : q[i] = n - Len(q) + i
  <2>1. n \in 0..MaxPushes /\ n < MaxPushes
    BY Typed
  <2> QED BY <2>1, Typed, PushesAssumption DEF PushesAssumption
<1> HIDE DEF q, max, n
<1>2. /\ room \in Seq(1..MaxPushes)
      /\ Len(room) = IF Len(q) >= max THEN Len(q) - 1 ELSE Len(q)
      /\ \A i \in 1..Len(room) : room[i] = q[i + Len(q) - Len(room)]
  BY <1>1, RoomInQueue
<1> HIDE DEF room
<1>3. /\ new \in Seq(1..MaxPushes) /\ Len(new) = Len(room) + 1
      /\ \A i \in 1..Len(room) : new[i] = room[i]
      /\ new[Len(room) + 1] = n + 1
      /\ Range(new) = Range(room) \cup {n + 1}
  <2> DEFINE Messages == 1..MaxPushes
  <2>1. room \in Seq(Messages) /\ n + 1 \in Messages
    BY <1>1, <1>2
  <2> HIDE DEF Messages
  <2>2. /\ new \in Seq(Messages) /\ Len(new) = Len(room) + 1
        /\ \A i \in 1..Len(room) : new[i] = room[i]
        /\ new[Len(room) + 1] = n + 1
        /\ Range(new) = Range(room) \cup {n + 1}
    BY <2>1, AppendList
  <2> QED BY <2>2 DEF Messages
<1> HIDE DEF new
<1>4. Len(room) \in Nat /\ Len(room) <= Len(q) /\ (Len(room) + 1 <= max \/ Len(room) + 1 <= Len(q))
  BY <1>1, <1>2
<1>5. ASSUME NEW i \in 1..Len(new) PROVE new[i] = (n + 1) - Len(new) + i
  <2>1. CASE i = Len(room) + 1
    BY <1>1, <1>3, <1>4, <2>1
  <2>2. CASE i # Len(room) + 1
    <3>1. i \in 1..Len(room) /\ i + Len(q) - Len(room) \in 1..Len(q)
      BY <1>1, <1>3, <1>4, <2>2
    <3>2. new[i] = n - Len(q) + (i + Len(q) - Len(room))
      BY <1>1, <1>2, <1>3, <3>1
    <3> QED BY <1>1, <1>3, <1>4, <3>1, <3>2
  <2> QED BY <2>1, <2>2
<1> QED BY <1>1, <1>3, <1>4, <1>5, SMTT(30) DEF q, max, room, n, new

LEMMA PushKeeps ==
  ASSUME IndInv, NEW t \in Topics, Push(t)
  PROVE  IndInv'
<1>1. TypeOK /\ pushed[t] \in Nat /\ pushed[t] + 1 \in 0..MaxPushes
  <2>1. pushed[t] \in 0..MaxPushes /\ pushed[t] < MaxPushes
    BY Typed DEF IndInv, Push
  <2> QED BY <2>1, PushesAssumption DEF PushesAssumption, IndInv
<1> DEFINE new == Append(Room(Queue(t), MaxSize(t)), pushed[t] + 1)
<1>2. /\ pushed' = [pushed EXCEPT ![t] = pushed[t] + 1]
      /\ registered_topics_' = registered_topics_
      /\ topic_max_queue_sizes_' = topic_max_queue_sizes_
      /\ subscribers_' = subscribers_ /\ object' = object /\ received' = received
      /\ locked' = locked /\ toVisit' = toVisit /\ calling' = calling
  BY DEF Push, spinVars
<1>3. /\ pushed' \in [Topics -> 0..MaxPushes] /\ pushed'[t] = pushed[t] + 1
      /\ \A u \in Topics : u # t => pushed'[u] = pushed[u]
  BY <1>1, <1>2 DEF TypeOK
<1>4. message_queue_' = IF t \in registered_topics_ THEN Put(message_queue_, t, new)
                        ELSE message_queue_
  BY <1>3 DEF Push, Queue
<1>5. toVisit = {} /\ calling = Silent /\ Range(calling.to) = {} /\ NoRepeats(calling.to)
  BY EmptyList DEF Push, IndInv, AtRest, Silent
<1>6. /\ new \in Seq(1..MaxPushes)
      /\ Len(new) \in Nat /\ Len(new) <= Len(Queue(t)) + 1
      /\ Len(new) <= Len(Queue(t)) \/ Len(new) <= MaxSize(t)
      /\ \A i \in 1..Len(new) : new[i] = (pushed[t] + 1) - Len(new) + i
      /\ pushed[t] + 1 \in Range(new)
  <2>1. /\ pushed[t] < MaxPushes
        /\ \A i \in 1..Len(Queue(t)) : Queue(t)[i] = pushed[t] - Len(Queue(t)) + i
    BY DEF Push, IndInv, HoldsNewest
  <2> QED BY <1>1, <2>1, PushedQueue
<1> HIDE DEF new
<1>7. /\ IsMap(message_queue_', Seq(1..MaxPushes))
      /\ t \in registered_topics_ => Queue(t)' = new
      /\ \A u : u # t \/ t \notin registered_topics_ => Queue(u)' = Queue(u)
      /\ DOMAIN message_queue_' \subseteq registered_topics_
      /\ toVisit \subseteq DOMAIN message_queue_'
      /\ t \notin registered_topics_ => Queue(t) = <<>>
  <2>1. IsMap(message_queue_, Seq(1..MaxPushes)) /\ DOMAIN message_queue_ \subseteq registered_topics_
    BY <1>1 DEF TypeOK, IndInv, QueuesRegistered
  <2>2. IsMap(Put(message_queue_, t, new), Seq(1..MaxPushes))
    BY <1>6, <2>1, PutTyped
  <2>3. \A u : ListAt(Put(message_queue_, t, new), u) = IF u = t THEN new ELSE Queue(u)
    BY PutListAt DEF Queue
  <2>4. DOMAIN Put(message_queue_, t, new) = DOMAIN message_queue_ \cup {t}
    BY DEF Put
  <2>5. t \notin registered_topics_ => Queue(t) = <<>>
    BY <2>1 DEF Queue, ListAt
  <2>6. \A u : Queue(u)' = ListAt(message_queue_', u)
    BY DEF Queue
  <2>7. CASE t \in registered_topics_
    BY <1>4, <1>5, <2>1, <2>2, <2>3, <2>4, <2>6, <2>7
  <2>8. CASE t \notin registered_topics_
    BY <1>4, <1>5, <2>1, <2>5, <2>8 DEF Queue
  <2> QED BY <2>7, <2>8
<1>8. TypeOK' /\ AtRest'
  BY <1>1, <1>2, <1>3, <1>7 DEF TypeOK, IndInv, AtRest
<1>9. QueuesRegistered'
  BY <1>2, <1>7 DEF QueuesRegistered
<1>10. (\A u : MaxSize(u)' = MaxSize(u)) /\ (\A u : SizesOf(u)' = SizesOf(u))
       /\ (\A u : Callbacks(u)' = Callbacks(u))
  BY <1>2 DEF MaxSize, SizesOf, SizedFor, Callbacks
<1>11. SizesAsked' /\ CallbacksAlive' /\ CallingAlive' /\ CalledIsOlder'
       /\ ReceivedInOrder' /\ MadeRegistered'
  BY <1>2, <1>5, <1>10 DEF IndInv, SizesAsked, CallbacksAlive, CallingAlive, CalledIsOlder,
                           ReceivedInOrder, MadeRegistered
<1>12. \A u \in Topics : /\ Len(Queue(u)) \in Nat /\ Len(Queue(u)') \in Nat
                         /\ pushed[u] \in Nat /\ pushed'[u] \in Nat
                         /\ pushed[u] - Len(Queue(u)) <= pushed'[u] - Len(Queue(u)')
                         /\ MaxSize(u) \in Nat
                         /\ \A size \in SizesOf(u) : size \in Nat
  <2>1. \A u \in Topics : Len(Queue(u)) \in Nat /\ pushed[u] \in Nat /\ MaxSize(u) \in Nat
    BY <1>1, Typed
  <2>2. \A u : \A size \in SizesOf(u) : size \in Nat
    BY <1>1, Typed, SizesAssumption DEF SizesAssumption, SizesOf, SizedFor
  <2>3. ASSUME NEW u \in Topics
        PROVE  /\ Len(Queue(u)') \in Nat /\ pushed'[u] \in Nat
               /\ pushed[u] - Len(Queue(u)) <= pushed'[u] - Len(Queue(u)')
    <3>1. CASE u = t /\ t \in registered_topics_
      <4>1. /\ Len(Queue(u)') = Len(new) /\ Len(Queue(u)) = Len(Queue(t))
            /\ pushed'[u] = pushed[u] + 1
        BY <1>3, <1>7, <3>1
      <4>2. Len(new) \in Nat /\ Len(new) <= Len(Queue(u)) + 1
        BY <1>6, <3>1
      <4> DEFINE n == Len(new)
                 q == Len(Queue(u))
                 p == pushed[u]
      <4>3. n \in Nat /\ q \in Nat /\ p \in Nat /\ n <= q + 1
        BY <2>1, <4>2
      <4> HIDE DEF n, q, p
      <4>4. p - q <= (p + 1) - n /\ p + 1 \in Nat
        BY <4>3
      <4> QED BY <4>1, <4>3, <4>4 DEF n, q, p
    <3>2. CASE u # t \/ t \notin registered_topics_
      <4>1. Queue(u)' = Queue(u)
        BY <1>7, <3>2
      <4>2. pushed'[u] = pushed[u] \/ pushed'[u] = pushed[u] + 1
        BY <1>3, <3>2
      <4> DEFINE q == Len(Queue(u))
                 p == pushed[u]
      <4>3. q \in Nat /\ p \in Nat
        BY <2>1
      <4> HIDE DEF q, p
      <4>4. p - q <= p - q /\ p - q <= (p + 1) - q /\ p + 1 \in Nat
        BY <4>3
      <4> QED BY <4>1, <4>2, <4>3, <4>4 DEF q, p
    <3> QED BY <3>1, <3>2
  <2> QED BY <2>1, <2>2, <2>3
<1>13. NotTooLong'
  <2> SUFFICES ASSUME NEW u \in Topics
               PROVE  \E size \in SizesOf(u) : Len(Queue(u)') <= size
    BY <1>10 DEF NotTooLong
  <2>1. /\ MaxSize(u) \in SizesOf(u)
        /\ \E size \in SizesOf(u) : Len(Queue(u)) <= size
    BY DEF IndInv, SizesAsked, NotTooLong
  <2>2. CASE Queue(u)' = Queue(u)
    BY <2>1, <2>2
  <2>3. CASE Queue(u)' # Queue(u)
    <3>1. u = t /\ Queue(u)' = new
      BY <1>7, <2>3
    <3> QED BY <1>6, <1>12, <2>1, <3>1
  <2> QED BY <2>2, <2>3
<1>14. HoldsNewest'
  <2> SUFFICES ASSUME NEW u \in Topics, NEW i \in 1..Len(Queue(u)')
               PROVE  Queue(u)'[i] = pushed'[u] - Len(Queue(u)') + i
    BY DEF HoldsNewest
  <2>1. CASE u = t /\ t \in registered_topics_
    BY <1>3, <1>6, <1>7, <2>1
  <2>2. CASE u = t /\ t \notin registered_topics_
    BY <1>7, <2>2, EmptyList
  <2>3. CASE u # t
    BY <1>3, <1>7, <2>3 DEF IndInv, HoldsNewest
  <2> QED BY <2>1, <2>2, <2>3
<1>15. SeenIsOlder'
  <2>1. ASSUME NEW o \in Subscribers, NEW i \in 1..Len(received[o]),
               NEW u \in Topics, u = object[o].topic
        PROVE  received[o][i] <= pushed'[u] - Len(Queue(u)')
    <3>1. received[o][i] <= pushed[u] - Len(Queue(u))
      BY <2>1 DEF IndInv, SeenIsOlder
    <3>2. received[o][i] \in Nat
      BY <1>1, Typed
    <3> DEFINE x == received[o][i]
               a == pushed[u] - Len(Queue(u))
               b == pushed'[u] - Len(Queue(u)')
    <3>3. a <= b /\ a \in Int /\ b \in Int
      BY <1>12
    <3>4. x <= a /\ x \in Int
      BY <3>1, <3>2
    <3> HIDE DEF x, a, b
    <3>5. x <= b
      BY <3>3, <3>4
    <3> QED BY <3>5 DEF x, b
  <2>2. \A o \in Subscribers : object[o].topic \in Topics
    BY <1>1, Typed
  <2> QED BY <1>2, <2>1, <2>2 DEF SeenIsOlder
<1>16. AllServed'
  <2> SUFFICES ASSUME NEW o \in Subscribers, object[o].stage = "alive", ~object[o].disturbed
               PROVE  Served(o)'
    BY <1>2 DEF AllServed
  <2>1. Served(o) /\ object[o].topic \in Topics
    BY <1>1, Typed DEF IndInv, AllServed
  <2>2. CASE object[o].topic = t
    <3>1. t \in registered_topics_ /\ pushed'[t] \in Range(Queue(t)')
      BY <1>3, <1>6, <1>7, <2>1, <2>2 DEF Served
    <3> QED BY <1>2, <1>10, <2>1, <2>2, <3>1 DEF Served, Reaches
  <2>3. CASE object[o].topic # t
    BY <1>2, <1>3, <1>7, <1>10, <2>1, <2>3 DEF Served, Reaches
  <2> QED BY <2>2, <2>3
<1> QED BY <1>8, <1>9, <1>11, <1>13, <1>14, <1>15, <1>16 DEF IndInv

(* processCallbacks begins, or ends: nothing is called. *)
LEMMA SpinKeeps ==
  ASSUME IndInv, ProcessCallbacks \/ ProcessCallbacksEnd \/ UNCHANGED vars
  PROVE  IndInv'
<1>1. /\ queueVars' = queueVars /\ object' = object /\ pushed' = pushed
      /\ received' = received
      /\ calling' = calling \/ (calling' = Silent /\ calling.to = <<>>)
  BY DEF ProcessCallbacks, ProcessCallbacksEnd, vars, spinVars
<1>2. /\ registered_topics_' = registered_topics_
      /\ topic_max_queue_sizes_' = topic_max_queue_sizes_
      /\ subscribers_' = subscribers_ /\ message_queue_' = message_queue_
  BY <1>1 DEF queueVars
<1>3. AtRest'
  BY DEF ProcessCallbacks, ProcessCallbacksEnd, vars, spinVars, IndInv, AtRest
<1>4. calling'.to = calling.to /\ calling' \in [msg : 0..MaxPushes, to : Seq(Subscribers)]
  <2>1. calling \in [msg : 0..MaxPushes, to : Seq(Subscribers)]
    BY DEF IndInv, TypeOK
  <2>2. Silent \in [msg : 0..MaxPushes, to : Seq(Subscribers)] /\ Silent.to = <<>>
    BY EmptyList, PushesAssumption DEF PushesAssumption, Silent
  <2> QED BY <1>1, <2>1, <2>2
<1>5. TypeOK'
  <2>1. locked' \in BOOLEAN /\ toVisit' \subseteq DOMAIN message_queue_
    BY DEF ProcessCallbacks, ProcessCallbacksEnd, vars, spinVars, IndInv, TypeOK
  <2> QED BY <1>1, <1>2, <1>4, <2>1 DEF IndInv, TypeOK
<1>6. /\ \A t : Queue(t)' = Queue(t) /\ Callbacks(t)' = Callbacks(t)
      /\ \A t : MaxSize(t)' = MaxSize(t)
      /\ \A t : SizesOf(t)' = SizesOf(t)
  BY <1>1, <1>2 DEF Queue, Callbacks, MaxSize, SizesOf, SizedFor
<1>7. /\ QueuesRegistered' /\ SizesAsked' /\ NotTooLong' /\ HoldsNewest' /\ CallbacksAlive'
      /\ SeenIsOlder' /\ ReceivedInOrder' /\ MadeRegistered'
  BY <1>1, <1>2, <1>6 DEF IndInv, QueuesRegistered, SizesAsked, NotTooLong, HoldsNewest,
       CallbacksAlive, SeenIsOlder, ReceivedInOrder, MadeRegistered
<1>8. Range(calling.to) # {} => calling' = calling
  BY <1>1, EmptyList
<1>9. CallingAlive' /\ CalledIsOlder'
  BY <1>1, <1>4, <1>6, <1>8 DEF IndInv, CallingAlive, CalledIsOlder
<1>10. AllServed'
  <2> SUFFICES ASSUME NEW o \in Subscribers, object[o].stage = "alive", ~object[o].disturbed
               PROVE  Served(o)'
    BY <1>1 DEF AllServed
  <2>1. Served(o)
    BY DEF IndInv, AllServed
  <2> QED BY <1>1, <1>2, <1>6, <1>8, <2>1 DEF Served, Reaches
<1> QED BY <1>3, <1>5, <1>7, <1>9, <1>10 DEF IndInv

(* The loop takes the oldest message of a queue; what callbacks have seen  *)
(* is older than it, and it is older than what remains.                    *)
LEMMA VisitTopicKeeps ==
  ASSUME IndInv, NEW t \in Topics, VisitTopic(t)
  PROVE  IndInv'
<1>1. /\ TypeOK /\ t \in DOMAIN message_queue_ /\ Queue(t) = message_queue_[t]
      /\ locked /\ locked' = locked
      /\ IsMap(message_queue_, Seq(1..MaxPushes))
      /\ calling.to = <<>>
  BY DEF VisitTopic, IndInv, TypeOK, AtRest, Queue, ListAt
<1>2. /\ toVisit' = toVisit \ {t}
      /\ registered_topics_' = registered_topics_
      /\ topic_max_queue_sizes_' = topic_max_queue_sizes_
      /\ subscribers_' = subscribers_ /\ object' = object /\ pushed' = pushed
      /\ received' = received
  BY DEF VisitTopic
<1>3. Range(calling.to) = {} /\ calling \in [msg : 0..MaxPushes, to : Seq(Subscribers)]
  BY <1>1, EmptyList DEF TypeOK
<1>4. /\ \A u : MaxSize(u)' = MaxSize(u) /\ SizesOf(u)' = SizesOf(u)
      /\ \A u : Callbacks(u)' = Callbacks(u)
  BY <1>2 DEF MaxSize, SizesOf, SizedFor, Callbacks
<1>5. AtRest' /\ SizesAsked' /\ CallbacksAlive' /\ ReceivedInOrder' /\ MadeRegistered'
  <2>1. AtRest'
    BY <1>1 DEF AtRest
  <2>2. SizesAsked' /\ CallbacksAlive' /\ ReceivedInOrder' /\ MadeRegistered'
    BY <1>2, <1>4 DEF IndInv, SizesAsked, CallbacksAlive, ReceivedInOrder, MadeRegistered
  <2> QED BY <2>1, <2>2
<1>6. CASE Queue(t) = <<>>
  <2>1. calling' = calling /\ message_queue_' = message_queue_
    BY <1>1, <1>6 DEF VisitTopic
  <2>2. \A u : Queue(u)' = Queue(u)
    BY <2>1 DEF Queue
  <2>3. TypeOK' /\ QueuesRegistered' /\ NotTooLong' /\ HoldsNewest'
    BY <1>1, <1>2, <1>4, <2>1, <2>2
       DEF TypeOK, IndInv, QueuesRegistered, NotTooLong, HoldsNewest
  <2>4. CallingAlive' /\ SeenIsOlder' /\ CalledIsOlder'
    BY <1>2, <2>1, <2>2 DEF IndInv, CallingAlive, SeenIsOlder, CalledIsOlder
  <2>5. AllServed'
    <3> SUFFICES ASSUME NEW o \in Subscribers, object[o].stage = "alive", ~object[o].disturbed
                 PROVE  Served(o)'
      BY <1>2 DEF AllServed
    <3>1. Served(o)
      BY DEF IndInv, AllServed
    <3> QED BY <1>2, <1>4, <2>1, <2>2, <3>1 DEF Served, Reaches
  <2> QED BY <1>5, <2>3, <2>4, <2>5 DEF IndInv
<1>7. CASE Queue(t) # <<>>
  <2> DEFINE q    == Queue(t)
             rest == Tail(q)
             msg  == Head(q)
  <2>1. /\ message_queue_' = [message_queue_ EXCEPT ![t] = rest]
        /\ calling' = [msg |-> msg, to |-> Callbacks(t)]
    BY <1>1, <1>7 DEF VisitTopic, Callbacks
  <2>2. /\ rest \in Seq(1..MaxPushes) /\ msg \in 1..MaxPushes /\ msg = q[1]
        /\ Len(q) \in Nat \ {0} /\ Len(rest) = Len(q) - 1
        /\ \A i \in 1..Len(rest) : rest[i] = q[i + 1]
        /\ Range(q) = Range(rest) \cup {msg}
    <3> DEFINE Messages == 1..MaxPushes
    <3>1. q \in Seq(Messages) /\ q # <<>>
      BY <1>1, <1>7, Typed
    <3> HIDE DEF Messages, q
    <3>2. /\ rest \in Seq(Messages) /\ msg \in Messages /\ msg = q[1]
          /\ Len(q) \in Nat \ {0} /\ Len(rest) = Len(q) - 1
          /\ \A i \in 1..Len(rest) : rest[i] = q[i + 1]
          /\ Range(q) = Range(rest) \cup {msg}
      BY <3>1, TailList
    <3> QED BY <3>2 DEF Messages
  <2> HIDE DEF rest, msg
  <2>3. /\ DOMAIN message_queue_' = DOMAIN message_queue_
        /\ IsMap(message_queue_', Seq(1..MaxPushes))
        /\ Queue(t)' = rest
        /\ \A u : u # t => Queue(u)' = Queue(u)
    BY <1>1, <2>1, <2>2 DEF IsMap, Queue, ListAt
  <2>4. /\ pushed[t] \in Nat /\ msg \in Nat /\ Len(rest) \in Nat /\ Len(q) \in Nat
        /\ \A i \in 1..Len(q) : q[i] = pushed[t] - Len(q) + i
        /\ msg = pushed[t] - Len(rest)
    <3>1. \A i \in 1..Len(q) : q[i] = pushed[t] - Len(q) + i
      BY DEF IndInv, HoldsNewest
    <3>2. pushed[t] \in Nat /\ 1 \in 1..Len(q) /\ Len(rest) \in Nat
      BY <1>1, <2>2, Typed
    <3>3. msg = pushed[t] - Len(q) + 1
      BY <2>2, <3>1, <3>2
    <3> QED BY <2>2, <3>1, <3>2, <3>3
  <2> HIDE DEF q
  <2>5. /\ calling'.to = Callbacks(t) /\ calling'.msg = msg
        /\ Callbacks(t) \in Seq(Subscribers) /\ Range(Callbacks(t)) \subseteq Subscribers
        /\ calling' \in [msg : 0..MaxPushes, to : Seq(Subscribers)]
    <3>1. Callbacks(t) \in Seq(Subscribers)
      BY <1>1, Typed
    <3>2. 1..MaxPushes \subseteq 0..MaxPushes
      BY PushesAssumption DEF PushesAssumption
    <3> QED BY <2>1, <2>2, <3>1, <3>2, RangeOfList
  <2>6. TypeOK'
    BY <1>1, <1>2, <2>3, <2>5 DEF TypeOK
  <2>7. QueuesRegistered'
    BY <1>2, <2>3 DEF IndInv, QueuesRegistered
  <2>8. \A u \in Topics : Len(Queue(u)') \in Nat /\ Len(Queue(u)) \in Nat
                         /\ Len(Queue(u)') <= Len(Queue(u)) /\ pushed[u] \in Nat
    BY <1>1, <2>2, <2>3, <2>4, Typed, SMTT(30) DEF q
  <2>9. NotTooLong'
    <3> SUFFICES ASSUME NEW u \in Topics
                 PROVE  \E size \in SizesOf(u) : Len(Queue(u)') <= size
      BY <1>4 DEF NotTooLong
    <3>1. PICK size \in SizesOf(u) : Len(Queue(u)) <= size
      BY DEF IndInv, NotTooLong
    <3>2. size \in Nat
      BY <1>1, Typed, SizesAssumption DEF SizesAssumption, SizesOf, SizedFor
    <3> QED BY <2>8, <3>1, <3>2
  <2>10. HoldsNewest'
    <3> SUFFICES ASSUME NEW u \in Topics, NEW i \in 1..Len(Queue(u)')
                 PROVE  Queue(u)'[i] = pushed[u] - Len(Queue(u)') + i
      BY <1>2 DEF HoldsNewest
    <3>1. CASE u = t
      <4>1. Queue(u)' = rest /\ i \in 1..Len(rest)
        BY <2>3, <3>1
      <4>2. rest[i] = q[i + 1] /\ i + 1 \in 1..Len(q)
        BY <2>2, <4>1
      <4>3. q[i + 1] = pushed[t] - Len(q) + (i + 1)
        BY <2>4, <4>2
      <4>4. Queue(u)'[i] = pushed[t] - Len(q) + (i + 1)
        BY <4>1, <4>2, <4>3
      <4>5. Len(Queue(u)') = Len(q) - 1 /\ Len(q) \in Nat /\ pushed[t] \in Nat /\ i \in Nat
        BY <2>2, <2>4, <4>1
      <4> QED BY <3>1, <4>4, <4>5
    <3>2. CASE u # t
      BY <2>3, <3>2 DEF IndInv, HoldsNewest
    <3> QED BY <3>1, <3>2
  <2>11. CallingAlive'
    BY <1>2, <2>5 DEF IndInv, CallbacksAlive, CallingAlive
  <2>12. ASSUME NEW o \in Subscribers, NEW i \in 1..Len(received[o]),
                NEW u \in Topics, u = object[o].topic
         PROVE  /\ received[o][i] <= pushed[u] - Len(Queue(u)')
                /\ u = t => received[o][i] < msg
    <3>1. received[o][i] <= pushed[u] - Len(Queue(u))
      BY <2>12 DEF IndInv, SeenIsOlder
    <3>2. received[o][i] \in Nat
      BY <1>1, Typed
    <3>3. u = t => received[o][i] < msg
      BY <2>2, <2>4, <3>1, <3>2, SMTT(30) DEF q
    <3> QED BY <2>8, <3>1, <3>2, <3>3
  <2>13. \A o \in Subscribers : object[o].topic \in Topics
    BY <1>1, Typed
  <2>14. SeenIsOlder'
    BY <1>2, <2>12, <2>13 DEF SeenIsOlder
  <2>15. CalledIsOlder'
    <3> SUFFICES ASSUME NEW o \in Range(Callbacks(t))
                 PROVE  /\ msg \in 1..MaxPushes
                        /\ msg <= pushed[object[o].topic] - Len(Queue(t)')
                        /\ object[o].topic = t
                        /\ \A i \in 1..Len(received[o]) : received[o][i] < msg
      BY <1>2, <2>5 DEF CalledIsOlder
    <3>1. o \in Subscribers /\ object[o].topic = t
      BY <2>5 DEF IndInv, CallbacksAlive
    <3> QED BY <2>2, <2>3, <2>4, <2>12, <3>1
  <2>16. AllServed'
    <3> SUFFICES ASSUME NEW o \in Subscribers, object[o].stage = "alive", ~object[o].disturbed
                 PROVE  Served(o)'
      BY <1>2 DEF AllServed
    <3>1. Served(o)
      BY DEF IndInv, AllServed
    <3>2. CASE object[o].topic = t
      <4>1. pushed[t] \in Range(Queue(t)) => pushed[t] \in Range(Queue(t)') \/ pushed[t] = msg
        BY <2>2, <2>3 DEF q
      <4>2. o \in Range(calling'.to)
        BY <2>5, <3>1, <3>2 DEF Served
      <4> QED BY <1>2, <1>3, <1>4, <2>5, <3>1, <3>2, <4>1, <4>2 DEF Served, Reaches
    <3>3. CASE object[o].topic # t
      BY <1>2, <1>3, <1>4, <2>3, <3>1, <3>3 DEF Served, Reaches
    <3> QED BY <3>2, <3>3
  <2> QED BY <1>5, <2>6, <2>7, <2>9, <2>10, <2>11, <2>14, <2>15, <2>16 DEF IndInv
<1> QED BY <1>6, <1>7

(* The next callback is called with a message newer than all it has seen,  *)
(* and it is not called with it again.                                     *)
LEMMA CallNextKeeps ==
  ASSUME IndInv, CallNext
  PROVE  IndInv'
<1> DEFINE s    == Head(calling.to)
           msg  == calling.msg
           rest == Tail(calling.to)
           seen == Append(received[s], msg)
<1>1. TypeOK /\ calling.to # <<>> /\ calling \in [msg : 0..MaxPushes, to : Seq(Subscribers)]
  BY DEF CallNext, IndInv, TypeOK
<1>2. /\ rest \in Seq(Subscribers) /\ s \in Subscribers
      /\ Range(calling.to) = Range(rest) \cup {s}
      /\ NoRepeats(rest) /\ s \notin Range(rest)
      /\ Range(rest) \subseteq Subscribers
  <2>1. calling.to \in Seq(Subscribers) /\ NoRepeats(calling.to)
    BY <1>1 DEF IndInv, CallingAlive
  <2>2. /\ rest \in Seq(Subscribers) /\ s \in Subscribers
        /\ Range(calling.to) = Range(rest) \cup {s}
        /\ NoRepeats(rest) /\ s \notin Range(rest)
    BY <1>1, <2>1, TailList
  <2> QED BY <2>2, RangeOfList
<1>3. /\ received' = [received EXCEPT ![s] = seen]
      /\ calling' = [calling EXCEPT !.to = rest]
      /\ registered_topics_' = registered_topics_
      /\ topic_max_queue_sizes_' = topic_max_queue_sizes_
      /\ subscribers_' = subscribers_ /\ message_queue_' = message_queue_
      /\ locked' = locked /\ toVisit' = toVisit
      /\ object' = object /\ pushed' = pushed
  BY DEF CallNext, queueVars
<1> HIDE DEF s, rest
<1>4. /\ calling'.to = rest /\ calling'.msg = msg
      /\ calling' \in [msg : 0..MaxPushes, to : Seq(Subscribers)]
  BY <1>1, <1>2, <1>3
<1>5. /\ msg \in 1..MaxPushes /\ msg \in Nat
      /\ msg <= pushed[object[s].topic] - Len(Queue(object[s].topic))
      /\ \A i \in 1..Len(received[s]) : received[s][i] < msg
  <2>1. /\ msg \in 1..MaxPushes
        /\ msg <= pushed[object[s].topic] - Len(Queue(object[s].topic))
        /\ \A i \in 1..Len(received[s]) : received[s][i] < msg
    BY <1>2 DEF IndInv, CalledIsOlder
  <2> QED BY <2>1, PushesAssumption DEF PushesAssumption
<1> HIDE DEF msg
<1>6. /\ seen \in Seq(1..MaxPushes) /\ Len(seen) = Len(received[s]) + 1
      /\ Len(received[s]) \in Nat
      /\ \A i \in 1..Len(received[s]) : seen[i] = received[s][i]
      /\ seen[Len(received[s]) + 1] = msg
      /\ Range(seen) = Range(received[s]) \cup {msg}
  <2> DEFINE Messages == 1..MaxPushes
  <2>1. received[s] \in Seq(Messages) /\ msg \in Messages /\ Len(received[s]) \in Nat
    BY <1>1, <1>2, <1>5, Typed
  <2> HIDE DEF Messages
  <2>2. /\ seen \in Seq(Messages) /\ Len(seen) = Len(received[s]) + 1
        /\ \A i \in 1..Len(received[s]) : seen[i] = received[s][i]
        /\ seen[Len(received[s]) + 1] = msg
        /\ Range(seen) = Range(received[s]) \cup {msg}
    BY <2>1, AppendList
  <2> QED BY <2>1, <2>2 DEF Messages
<1> HIDE DEF seen
<1>7. /\ received' \in [Subscribers -> Seq(1..MaxPushes)]
      /\ received'[s] = seen
      /\ \A o \in Subscribers : o # s => received'[o] = received[o]
  BY <1>1, <1>2, <1>3, <1>6 DEF TypeOK
<1>8. /\ \A u : Queue(u)' = Queue(u) /\ Callbacks(u)' = Callbacks(u)
      /\ \A u : MaxSize(u)' = MaxSize(u) /\ SizesOf(u)' = SizesOf(u)
  BY <1>3 DEF Queue, Callbacks, MaxSize, SizesOf, SizedFor
<1>9. TypeOK'
  BY <1>1, <1>3, <1>4, <1>7 DEF TypeOK
<1>10. AtRest'
  BY <1>1, <1>3 DEF IndInv, AtRest, Silent
<1>11. /\ QueuesRegistered' /\ SizesAsked' /\ NotTooLong' /\ HoldsNewest'
       /\ CallbacksAlive' /\ MadeRegistered'
  BY <1>3, <1>8 DEF IndInv, QueuesRegistered, SizesAsked, NotTooLong, HoldsNewest,
                    CallbacksAlive, MadeRegistered
<1>12. CallingAlive'
  BY <1>2, <1>3, <1>4 DEF IndInv, CallingAlive
<1>13. \A i \in 1..Len(seen) : i \in 1..Len(received[s]) \/ i = Len(received[s]) + 1
  BY <1>6
<1>14. SeenIsOlder'
  <2> SUFFICES ASSUME NEW o \in Subscribers, NEW i \in 1..Len(received'[o])
               PROVE  received'[o][i] <= pushed[object[o].topic] - Len(Queue(object[o].topic))
    BY <1>3, <1>8 DEF SeenIsOlder
  <2>1. CASE o = s
    BY <1>5, <1>6, <1>7, <1>13, <2>1 DEF IndInv, SeenIsOlder
  <2>2. CASE o # s
    BY <1>7, <2>2 DEF IndInv, SeenIsOlder
  <2> QED BY <2>1, <2>2
<1>15. CalledIsOlder'
  <2> SUFFICES ASSUME NEW o \in Range(rest)
               PROVE  /\ msg \in 1..MaxPushes
                      /\ msg <= pushed[object[o].topic] - Len(Queue(object[o].topic))
                      /\ \A i \in 1..Len(received'[o]) : received'[o][i] < msg
    BY <1>3, <1>4, <1>8 DEF CalledIsOlder
  <2>1. o \in Range(calling.to) /\ received'[o] = received[o]
    BY <1>2, <1>7
  <2> QED BY <1>5, <2>1 DEF IndInv, CalledIsOlder, msg
<1>16. ReceivedInOrder'
  <2> SUFFICES ASSUME NEW o \in Subscribers, NEW i \in 1..(Len(received'[o]) - 1)
               PROVE  received'[o][i] < received'[o][i + 1]
    BY DEF ReceivedInOrder
  <2>1. CASE o = s
    <3>1. i \in 1..Len(received[s]) /\ received'[o] = seen /\ seen[i] = received[s][i]
      BY <1>6, <1>7, <2>1
    <3>2. CASE i = Len(received[s])
      BY <1>5, <1>6, <3>1, <3>2
    <3>3. CASE i # Len(received[s])
      <4>1. i \in 1..(Len(received[s]) - 1) /\ i + 1 \in 1..Len(received[s])
        BY <1>6, <3>1, <3>3
      <4>2. received[s][i] < received[s][i + 1]
        BY <1>2, <4>1 DEF IndInv, ReceivedInOrder
      <4> QED BY <1>6, <3>1, <4>1, <4>2
    <3> QED BY <3>2, <3>3
  <2>2. CASE o # s
    BY <1>7, <2>2 DEF IndInv, ReceivedInOrder
  <2> QED BY <2>1, <2>2
<1>17. AllServed'
  <2> SUFFICES ASSUME NEW o \in Subscribers, object[o].stage = "alive", ~object[o].disturbed
               PROVE  Served(o)'
    BY <1>3 DEF AllServed
  <2>1. Served(o)
    BY DEF IndInv, AllServed
  <2>2. \A m : m \in Range(received[o]) => m \in Range(received'[o])
    BY <1>6, <1>7
  <2>3. \A m : msg = m /\ o \in Range(calling.to) =>
               m \in Range(received'[o]) \/ o \in Range(rest)
    BY <1>2, <1>6, <1>7
  <2> QED BY <1>3, <1>4, <1>8, <2>1, <2>2, <2>3 DEF Served, Reaches, msg
<1> QED BY <1>9, <1>10, <1>11, <1>12, <1>14, <1>15, <1>16, <1>17 DEF IndInv

-----------------------------------------------------------------------------
(* The theorems.                                                           *)

(* In every state the queues, the callbacks and the objects are related as *)
(* IndInv says: this is what the four properties below follow from.        *)
LEMMA InductiveInvariant == Spec => []IndInv
<1>1. Init => IndInv
  BY InitInductive
<1>2. IndInv /\ [Next]_vars => IndInv'
  <2> SUFFICES ASSUME IndInv, [Next]_vars PROVE IndInv'
    OBVIOUS
  <2>1. ASSUME NEW s \in Subscribers, RegisterTopic(s) PROVE IndInv'
    BY <2>1, RegisterTopicKeeps
  <2>2. ASSUME NEW s \in Subscribers, SetTopicMaxQueueSize(s) PROVE IndInv'
    BY <2>2, SetSizeKeeps
  <2>3. ASSUME NEW s \in Subscribers, AddSubscriber(s) PROVE IndInv'
    BY <2>3, AddSubscriberKeeps
  <2>4. ASSUME NEW s \in Subscribers, RemoveSubscriber(s) PROVE IndInv'
    BY <2>4, RemoveSubscriberKeeps
  <2>5. ASSUME NEW t \in Topics, Push(t) PROVE IndInv'
    BY <2>5, PushKeeps
  <2>6. ASSUME NEW t \in Topics, VisitTopic(t) PROVE IndInv'
    BY <2>6, VisitTopicKeeps
  <2>7. CASE CallNext
    BY <2>7, CallNextKeeps
  <2>8. CASE ProcessCallbacks \/ ProcessCallbacksEnd \/ UNCHANGED vars
    BY <2>8, SpinKeeps
  <2> QED BY <2>1, <2>2, <2>3, <2>4, <2>5, <2>6, <2>7, <2>8 DEF Next, Spin
<1> QED BY <1>1, <1>2, PTL DEF Spec

(* Sizes, callbacks and messages are kept under topics, and the loop of    *)
(* processCallbacks holds no topic that was erased under it.               *)
THEOREM TypeCorrect == Spec => []TypeOK
<1>1. IndInv => TypeOK
  BY DEF IndInv
<1> QED BY <1>1, InductiveInvariant, PTL

(* Whatever overflow, removals and unregistered topics lose, a queue holds *)
(* the newest messages of its topic, and no more than a size once asked.   *)
THEOREM QueuesHoldNewest == Spec => []QueueHoldsNewest
<1>1. IndInv => QueueHoldsNewest
  <2> SUFFICES ASSUME IndInv, NEW t \in DOMAIN message_queue_
               PROVE  /\ \A i \in DOMAIN message_queue_[t] :
                           message_queue_[t][i] = pushed[t] - Len(message_queue_[t]) + i
                      /\ \E size \in SizesOf(t) : Len(message_queue_[t]) <= size
    BY DEF QueueHoldsNewest, SizesOf, SizedFor
  <2>1. t \in Topics /\ Queue(t) = message_queue_[t] /\ Queue(t) \in Seq(1..MaxPushes)
    BY Typed DEF IndInv, TypeOK, IsMap, Queue, ListAt
  <2>2. DOMAIN Queue(t) = 1..Len(Queue(t))
    BY <2>1, LenProperties
  <2> QED BY <2>1, <2>2 DEF IndInv, HoldsNewest, NotTooLong
<1> QED BY <1>1, InductiveInvariant, PTL

(* A callback sees the messages of its topic in the order of their pushes, *)
(* none of them twice, whatever is removed and registered under way.       *)
THEOREM ReceivedOnceInOrder == Spec => []ReceivedInOrder
<1>1. IndInv => ReceivedInOrder
  BY DEF IndInv
<1> QED BY <1>1, InductiveInvariant, PTL

(* No callback of a Subscriber whose destructor has returned is called.    *)
THEOREM OnlyTheLivingAreCalled == Spec => []CallsOnlyTheLiving
<1>1. IndInv => CallsOnlyTheLiving
  BY DEF IndInv, CallingAlive, CallsOnlyTheLiving
<1> QED BY <1>1, InductiveInvariant, PTL

(* A Subscriber that no other one's destructor disturbed stays registered  *)
(* and is called with the newest message, or is about to be.               *)
THEOREM LeftAloneIsServed == Spec => []UndisturbedIsServed
<1>1. IndInv => UndisturbedIsServed
  <2> SUFFICES ASSUME IndInv, NEW s \in Subscribers, object[s].stage = "alive",
                      ~object[s].disturbed
               PROVE  Served(s)
    BY DEF UndisturbedIsServed, Served, Reaches, Queue, Callbacks
  <2> QED BY DEF IndInv, AllServed
<1> QED BY <1>1, InductiveInvariant, PTL

-----------------------------------------------------------------------------
(* The queue implements the feed.                                          *)

LEMMA FeedState ==
  ASSUME TypeOK
  PROVE  /\ FollowersOf = [t \in Topics |-> Range(Callbacks(t))]
         /\ WaitingCount = [t \in Topics |-> Len(Queue(t))]
         /\ calling.to = <<>> => DueCalls = {}
BY EmptyList DEF FollowersOf, WaitingCount, DueCalls, Callbacks, Queue

(* Whoever finds the mutex free finds nothing due. *)
LEMMA NothingDue ==
  ASSUME IndInv, ~locked
  PROVE  DueCalls = {} /\ (calling' = calling => DueCalls' = {})
<1>1. TypeOK /\ calling.to = <<>>
  BY DEF IndInv, AtRest, Silent
<1> QED BY <1>1, EmptyList DEF DueCalls

LEMMA RegisterOpens ==
  ASSUME IndInv, NEW s \in Subscribers, RegisterTopic(s)
  PROVE  Feed!Next
<1>1. object[s].topic \in Topics
  BY Typed DEF IndInv
<1>2. DueCalls = {} /\ DueCalls' = {}
  BY NothingDue DEF RegisterTopic, spinVars
<1>3. UNCHANGED <<FollowersOf, WaitingCount>>
  BY DEF RegisterTopic, FollowersOf, WaitingCount
<1>4. Feed!Open(object[s].topic)
  BY <1>2, <1>3 DEF RegisterTopic, Feed!Open
<1> QED BY <1>1, <1>4 DEF Feed!Next

LEMMA AddFollows ==
  ASSUME IndInv, NEW s \in Subscribers, AddSubscriber(s)
  PROVE  Feed!Next
<1> DEFINE t   == object[s].topic
           new == Append(Callbacks(t), s)
<1>1. TypeOK /\ t \in Topics /\ Callbacks(t) \in Seq(Subscribers)
  BY Typed DEF IndInv
<1>2. DueCalls = {} /\ DueCalls' = {}
  BY NothingDue DEF AddSubscriber, spinVars
<1>3. /\ subscribers_' = Put(subscribers_, t, new)
      /\ Range(new) = Range(Callbacks(t)) \cup {s}
  BY <1>1, AppendList DEF AddSubscriber, Callbacks
<1> HIDE DEF t, new
<1>4. FollowersOf' = [FollowersOf EXCEPT ![t] = @ \cup {s}]
  <2>1. \A u : Callbacks(u)' = IF u = t THEN new ELSE Callbacks(u)
    BY <1>3, PutListAt DEF Callbacks
  <2>2. FollowersOf' = [u \in Topics |-> Range(Callbacks(u)')]
    BY DEF FollowersOf, Callbacks
  <2> QED BY <1>1, <1>3, <2>1, <2>2, FeedState
<1>5. \A u \in Topics : s \notin FollowersOf[u]
  <2>1. object[s].stage # "alive"
    BY DEF AddSubscriber
  <2> QED BY <1>1, <2>1, FeedState DEF IndInv, CallbacksAlive
<1>6. Feed!Follow(s, t)
  <2>1. UNCHANGED <<registered_topics_, pushed, WaitingCount, received>>
    BY DEF AddSubscriber, WaitingCount
  <2> QED BY <1>2, <1>4, <1>5, <2>1 DEF Feed!Follow
<1> QED BY <1>1, <1>6 DEF Feed!Next

LEMMA RemoveCloses ==
  ASSUME IndInv, NEW s \in Subscribers, RemoveSubscriber(s)
  PROVE  Feed!Next
<1> DEFINE t == object[s].topic
<1>1. TypeOK /\ t \in Topics
  BY Typed DEF IndInv
<1>2. DueCalls = {} /\ DueCalls' = {}
  BY NothingDue DEF RemoveSubscriber, spinVars
<1>3. /\ registered_topics_' = registered_topics_ \ {t}
      /\ subscribers_' = Erase(subscribers_, t)
      /\ message_queue_' = Erase(message_queue_, t)
      /\ UNCHANGED <<pushed, received>>
  BY DEF RemoveSubscriber
<1> HIDE DEF t
<1>4. /\ \A u : Queue(u)' = IF u = t THEN <<>> ELSE Queue(u)
      /\ \A u : Callbacks(u)' = IF u = t THEN <<>> ELSE Callbacks(u)
  BY <1>3, EraseListAt DEF Queue, Callbacks
<1>5. /\ FollowersOf' = [u \in Topics |-> Range(Callbacks(u)')]
      /\ WaitingCount' = [u \in Topics |-> Len(Queue(u)')]
  BY DEF FollowersOf, WaitingCount, Queue, Callbacks
<1>6. /\ FollowersOf' = [FollowersOf EXCEPT ![t] = {}]
      /\ WaitingCount' = [WaitingCount EXCEPT ![t] = 0]
  BY <1>1, <1>4, <1>5, FeedState, EmptyList
<1>7. Feed!Close(t)
  BY <1>2, <1>3, <1>6 DEF Feed!Close
<1> QED BY <1>1, <1>7 DEF Feed!Next

LEMMA PushPublishes ==
  ASSUME IndInv, NEW t \in Topics, Push(t)
  PROVE  Feed!Next
<1> DEFINE new == Append(Room(Queue(t), MaxSize(t)), pushed'[t])
<1>1. /\ TypeOK /\ Queue(t) \in Seq(1..MaxPushes) /\ Len(Queue(t)) \in Nat
      /\ MaxSize(t) \in Nat \ {0} /\ pushed[t] \in Nat
  BY Typed DEF IndInv
<1>2. DueCalls = {} /\ DueCalls' = {}
  BY NothingDue DEF Push, spinVars
<1>3. /\ pushed' = [pushed EXCEPT ![t] = @ + 1]
      /\ UNCHANGED <<registered_topics_, received, FollowersOf>>
  BY DEF Push, FollowersOf
<1>4. CASE t \notin registered_topics_
  <2>1. UNCHANGED WaitingCount
    BY <1>4 DEF Push, WaitingCount
  <2>2. Feed!Publish(t)
    BY <1>2, <1>3, <1>4, <2>1 DEF Feed!Publish
  <2> QED BY <2>2 DEF Feed!Next
<1>5. CASE t \in registered_topics_
  <2>1. message_queue_' = Put(message_queue_, t, new)
    BY <1>5 DEF Push, Queue
  <2>2. Len(new) = IF Len(Queue(t)) >= MaxSize(t) THEN Len(Queue(t)) ELSE Len(Queue(t)) + 1
    <3>1. pushed'[t] \in Nat
      BY <1>1, <1>3 DEF TypeOK
    <3>2. Queue(t) \in Seq(Nat)
      BY <1>1, PushesAssumption, RangeOfList DEF PushesAssumption
    <3>3. /\ Room(Queue(t), MaxSize(t)) \in Seq(Nat)
          /\ Len(Room(Queue(t), MaxSize(t))) =
               IF Len(Queue(t)) >= MaxSize(t) THEN Len(Queue(t)) - 1 ELSE Len(Queue(t))
      BY <1>1, <3>2, RoomInQueue
    <3>4. Len(new) = Len(Room(Queue(t), MaxSize(t))) + 1
      BY <3>1, <3>3, AppendList
    <3> QED BY <1>1, <3>3, <3>4
  <2> HIDE DEF new
  <2>3. \A u : Queue(u)' = IF u = t THEN new ELSE Queue(u)
    BY <2>1, PutListAt DEF Queue
  <2>4. WaitingCount' = [u \in Topics |-> Len(Queue(u)')]
    BY DEF WaitingCount, Queue
  <2>5. WaitingCount' = [WaitingCount EXCEPT ![t] = IF @ >= MaxSize(t) THEN @ ELSE @ + 1]
    BY <1>1, <2>2, <2>3, <2>4, FeedState
  <2>6. MaxSize(t) \in Sizes \cup {DefaultSize}
    BY <1>1 DEF TypeOK, IsMap, MaxSize
  <2>7. Feed!Publish(t)
    BY <1>2, <1>3, <1>5, <2>5, <2>6 DEF Feed!Publish
  <2> QED BY <2>7 DEF Feed!Next
<1> QED BY <1>4, <1>5

LEMMA VisitTakes ==
  ASSUME IndInv, NEW t \in Topics, VisitTopic(t)
  PROVE  Feed!Next \/ UNCHANGED <<registered_topics_, FollowersOf, pushed, WaitingCount,
                                  DueCalls, received>>
<1> DEFINE q == Queue(t)
<1>1. /\ TypeOK /\ q \in Seq(1..MaxPushes) /\ Len(q) \in Nat
      /\ message_queue_[t] = q /\ t \in DOMAIN message_queue_ /\ pushed[t] \in Nat
  BY Typed DEF IndInv, TypeOK, VisitTopic, Queue, ListAt
<1>2. UNCHANGED <<registered_topics_, FollowersOf, pushed, received>>
  BY DEF VisitTopic, FollowersOf
<1>3. DueCalls = {}
  BY <1>1, FeedState DEF VisitTopic
<1>4. CASE q = <<>>
  BY <1>1, <1>2, <1>4 DEF VisitTopic, WaitingCount, DueCalls
<1>5. CASE q # <<>>
  <2>1. /\ message_queue_' = [message_queue_ EXCEPT ![t] = Tail(q)]
        /\ calling' = [msg |-> Head(q), to |-> Callbacks(t)]
    BY <1>1, <1>5 DEF VisitTopic, Callbacks
  <2>2. Len(Tail(q)) = Len(q) - 1 /\ Head(q) = q[1] /\ Len(q) \in Nat \ {0}
    BY <1>1, <1>5, TailList
  <2>3. Head(q) = pushed[t] - Len(q) + 1
    <3>1. 1 \in 1..Len(q)
      BY <2>2
    <3> QED BY <2>2, <3>1 DEF IndInv, HoldsNewest
  <2>4. WaitingCount' = [WaitingCount EXCEPT ![t] = @ - 1]
    <3>1. \A u : Queue(u)' = IF u = t THEN Tail(q) ELSE Queue(u)
      BY <1>1, <2>1 DEF Queue, ListAt
    <3>2. WaitingCount' = [u \in Topics |-> Len(Queue(u)')]
      BY DEF WaitingCount, Queue
    <3> HIDE DEF q
    <3>3. WaitingCount[t] = Len(q) /\ WaitingCount = [u \in Topics |-> Len(Queue(u))]
      BY <1>1, FeedState DEF q
    <3> QED BY <2>2, <3>1, <3>2, <3>3
  <2>5. DueCalls' = FollowersOf[t] \X {pushed[t] - WaitingCount[t] + 1}
    <3>1. DueCalls' = {<<s, Head(q)>> : s \in Range(Callbacks(t))}
      BY <2>1 DEF DueCalls
    <3>2. FollowersOf[t] = Range(Callbacks(t)) /\ WaitingCount[t] = Len(q)
      BY <1>1, FeedState
    <3> QED BY <2>3, <3>1, <3>2
  <2>6. WaitingCount[t] > 0
    BY <1>1, <2>2, FeedState
  <2>7. Feed!Take(t)
    BY <1>2, <1>3, <2>4, <2>5, <2>6 DEF Feed!Take
  <2> QED BY <2>7 DEF Feed!Next
<1> QED BY <1>4, <1>5

LEMMA CallHands ==
  ASSUME IndInv, CallNext
  PROVE  Feed!Next
<1> DEFINE s == Head(calling.to)
           n == calling.msg
           rest == Tail(calling.to)
<1>1. /\ Range(calling.to) = Range(rest) \cup {s} /\ s \notin Range(rest)
  <2>1. calling.to \in Seq(Subscribers) /\ calling.to # <<>> /\ NoRepeats(calling.to)
    BY DEF IndInv, TypeOK, CallingAlive, CallNext
  <2> QED BY <2>1, TailList
<1>2. /\ calling'.to = rest /\ calling'.msg = n
      /\ received' = [received EXCEPT ![s] = Append(@, n)]
  BY DEF IndInv, TypeOK, CallNext
<1>3. UNCHANGED <<registered_topics_, FollowersOf, pushed, WaitingCount>>
  BY DEF CallNext, queueVars, FollowersOf, WaitingCount
<1> HIDE DEF s, rest
<1>4. DueCalls = {<<o, n>> : o \in Range(calling.to)} /\ DueCalls' = {<<o, n>> : o \in Range(rest)}
  BY <1>2 DEF DueCalls
<1>5. <<s, n>> \in DueCalls /\ DueCalls' = DueCalls \ {<<s, n>>}
  BY <1>1, <1>4
<1>6. Feed!Hand(s, n)
  BY <1>2, <1>3, <1>5 DEF Feed!Hand
<1> QED BY <1>5, <1>6 DEF Feed!Next

(* Every behaviour of the queue, of its Subscribers and of the thread that *)
(* spins is one of the feed: a message is taken once, the oldest first,    *)
(* for all who follow its topic at that moment, and nothing is pushed,     *)
(* added or removed until the last of them has been called with it.        *)
THEOREM ImplementsTheFeed == Spec => ImplementsFeed
<1>1. Init => Feed!Init
  <2> SUFFICES ASSUME Init PROVE Feed!Init
    OBVIOUS
  <2>1. TypeOK
    BY InitInductive DEF IndInv
  <2>2. \A t : Queue(t) = <<>> /\ Callbacks(t) = <<>>
    BY DEF Init, EmptyMap, Queue, Callbacks, ListAt
  <2>3. /\ FollowersOf = [t \in Topics |-> {}]
        /\ WaitingCount = [t \in Topics |-> 0]
        /\ DueCalls = {}
    BY <2>1, <2>2, FeedState, EmptyList DEF Init, Silent
  <2> QED BY <2>3 DEF Init, Feed!Init
<1>2. IndInv /\ [Next]_vars => [Feed!Next]_(Feed!vars)
  <2> SUFFICES ASSUME IndInv, [Next]_vars
               PROVE  Feed!Next \/ UNCHANGED <<registered_topics_, FollowersOf, pushed,
                                               WaitingCount, DueCalls, received>>
    BY DEF Feed!vars
  <2>1. ASSUME NEW s \in Subscribers, RegisterTopic(s) PROVE Feed!Next
    BY <2>1, RegisterOpens
  <2>2. ASSUME NEW s \in Subscribers, AddSubscriber(s) PROVE Feed!Next
    BY <2>2, AddFollows
  <2>3. ASSUME NEW s \in Subscribers, RemoveSubscriber(s) PROVE Feed!Next
    BY <2>3, RemoveCloses
  <2>4. ASSUME NEW t \in Topics, Push(t) PROVE Feed!Next
    BY <2>4, PushPublishes
  <2>5. CASE CallNext
    BY <2>5, CallHands
  <2>6. ASSUME \/ \E s \in Subscribers : SetTopicMaxQueueSize(s)
               \/ ProcessCallbacks \/ ProcessCallbacksEnd \/ UNCHANGED vars
        PROVE  UNCHANGED <<registered_topics_, FollowersOf, pushed, WaitingCount,
                           DueCalls, received>>
    <3>1. /\ registered_topics_' = registered_topics_ /\ subscribers_' = subscribers_
          /\ message_queue_' = message_queue_ /\ pushed' = pushed /\ received' = received
      BY <2>6 DEF SetTopicMaxQueueSize, ProcessCallbacks, ProcessCallbacksEnd, vars, queueVars
    <3>2. DueCalls' = DueCalls
      <4>1. calling' = calling \/ (calling.to = <<>> /\ calling'.to = <<>>)
        BY <2>6 DEF SetTopicMaxQueueSize, ProcessCallbacks, ProcessCallbacksEnd, vars,
                    spinVars, Silent
      <4>2. Range(<<>>) = {}
        BY EmptyList
      <4> QED BY <4>1, <4>2 DEF DueCalls
    <3> QED BY <3>1, <3>2 DEF FollowersOf, WaitingCount
  <2> QED BY <2>1, <2>2, <2>3, <2>4, <2>5, <2>6, VisitTakes DEF Next, Spin
<1> QED BY <1>1, <1>2, InductiveInvariant, PTL DEF Spec, ImplementsFeed, Feed!Spec
=============================================================================
