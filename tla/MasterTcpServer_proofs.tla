----------------------- MODULE MasterTcpServer_proofs -----------------------
(***************************************************************************)
(* Proofs about the delivery of updates, for every set of peers and any    *)
(* number of updates and stops: its maps are well typed, it leaks no       *)
(* connection, and it implements the outbox of TargetsOutbox.  The first   *)
(* part says what the loop's functor queue holds after a step.             *)
(***************************************************************************)
EXTENDS MasterTcpServer, FiniteSetTheorems, FunctionTheorems, SequenceTheorems, TLAPS

What == {"SendUpdateToNode", "OnWriteComplete", "forceClose"}

Functor == What \X Nat

(* The updates that wait in a queue, which is served in their order. *)
WaitingIn(q) == {u \in Nat : <<"SendUpdateToNode", u>> \in Range(q)}

InOrder(q) ==
  \A i, j \in 1..Len(q) :
    i < j /\ q[i][1] = "SendUpdateToNode" /\ q[j][1] = "SendUpdateToNode"
      => q[i][2] < q[j][2]

-----------------------------------------------------------------------------
(* A functor queued at the end (queueInLoop) is added to what was queued,  *)
(* and the order is kept if it is none of an update or of a later one.     *)
LEMMA AppendToQueue ==
  ASSUME NEW q \in Seq(Functor), NEW f \in Functor
  PROVE  /\ Append(q, f) \in Seq(Functor)
         /\ Range(Append(q, f)) = Range(q) \cup {f}
         /\ InOrder(q) /\ (f[1] # "SendUpdateToNode" \/ \A u \in WaitingIn(q) : u < f[2])
              => InOrder(Append(q, f))
<1> DEFINE r == Append(q, f)
<1>1. /\ r \in Seq(Functor)
      /\ Len(r) = Len(q) + 1
      /\ \A i \in 1..Len(q) : r[i] = q[i]
      /\ r[Len(q) + 1] = f
      /\ Len(q) \in Nat
  BY AppendProperties, LenProperties
<1>2. Range(r) = Range(q) \cup {f}
  <2>1. Range(r) = {r[i] : i \in 1..Len(r)} /\ Range(q) = {q[i] : i \in 1..Len(q)}
    BY <1>1, RangeEquality
  <2>2. 1..Len(r) = 1..Len(q) \cup {Len(q) + 1}
    BY <1>1
  <2> HIDE DEF r
  <2> QED BY <1>1, <2>1, <2>2
<1>3. ASSUME InOrder(q), f[1] # "SendUpdateToNode" \/ \A u \in WaitingIn(q) : u < f[2]
      PROVE  InOrder(r)
  <2> SUFFICES ASSUME NEW i \in 1..Len(r), NEW j \in 1..Len(r), i < j,
                      r[i][1] = "SendUpdateToNode", r[j][1] = "SendUpdateToNode"
               PROVE  r[i][2] < r[j][2]
    BY DEF InOrder
  <2>1. i \in 1..Len(q) /\ r[i] = q[i]
    BY <1>1
  <2>2. CASE j \in 1..Len(q)
    BY <1>1, <1>3, <2>1, <2>2 DEF InOrder
  <2>3. CASE j = Len(q) + 1
    <3>1. r[j] = f
      BY <1>1, <2>3
    <3>2. q[i] \in Functor /\ q[i] \in Range(q)
      BY <2>1, ElementOfSeq, RangeEquality
    <3>3. q[i] = <<"SendUpdateToNode", q[i][2]>> /\ q[i][2] \in Nat
      BY <2>1, <3>2 DEF Functor
    <3>4. q[i][2] \in WaitingIn(q)
      BY <3>2, <3>3 DEF WaitingIn
    <3> QED BY <1>3, <2>1, <3>1, <3>4
  <2> QED BY <1>1, <2>2, <2>3
<1> QED BY <1>1, <1>2, <1>3

(* Functors of other kinds queued at the end are added and no update is    *)
(* moved.                                                                  *)
LEMMA ConcatToQueue ==
  ASSUME NEW q \in Seq(Functor), NEW t \in Seq(Functor),
         \A f \in Range(t) : f[1] # "SendUpdateToNode"
  PROVE  /\ q \o t \in Seq(Functor)
         /\ Range(q \o t) = Range(q) \cup Range(t)
         /\ InOrder(q) => InOrder(q \o t)
<1> DEFINE r == q \o t
<1>1. /\ r \in Seq(Functor)
      /\ Len(r) = Len(q) + Len(t)
      /\ \A i \in 1..Len(r) : r[i] = IF i <= Len(q) THEN q[i] ELSE t[i - Len(q)]
      /\ Len(q) \in Nat /\ Len(t) \in Nat
  BY ConcatProperties, LenProperties
<1>2. Range(r) = Range(q) \cup Range(t)
  BY RangeConcatenation
<1>3. ASSUME InOrder(q) PROVE InOrder(r)
  <2> SUFFICES ASSUME NEW i \in 1..Len(r), NEW j \in 1..Len(r), i < j,
                      r[i][1] = "SendUpdateToNode", r[j][1] = "SendUpdateToNode"
               PROVE  r[i][2] < r[j][2]
    BY DEF InOrder
  <2> HIDE DEF r
  <2>1. ASSUME NEW k \in 1..Len(r), k > Len(q) PROVE r[k][1] # "SendUpdateToNode"
    <3>1. k - Len(q) \in 1..Len(t) /\ r[k] = t[k - Len(q)]
      BY <1>1, <2>1
    <3>2. r[k] \in Range(t)
      BY <3>1, RangeEquality
    <3> QED BY <3>2
  <2>2. i <= Len(q) /\ j <= Len(q)
    BY <1>1, <2>1
  <2>3. i \in 1..Len(q) /\ j \in 1..Len(q) /\ r[i] = q[i] /\ r[j] = q[j]
    BY <1>1, <2>2
  <2> QED BY <1>3, <2>3 DEF InOrder
<1> QED BY <1>1, <1>2, <1>3

(* The functor at the head is run: what is left is in order, and an update *)
(* at the head waits no more.                                              *)
LEMMA TailOfQueue ==
  ASSUME NEW q \in Seq(Functor), q # <<>>
  PROVE  /\ Tail(q) \in Seq(Functor)
         /\ Head(q) \in Functor
         /\ Range(q) = Range(Tail(q)) \cup {Head(q)}
         /\ InOrder(q) => InOrder(Tail(q))
         /\ InOrder(q) /\ Head(q)[1] = "SendUpdateToNode"
              => \A u \in WaitingIn(Tail(q)) : Head(q)[2] < u
<1> DEFINE r == Tail(q)
<1>1. /\ r \in Seq(Functor)
      /\ Head(q) \in Functor /\ Head(q) = q[1]
      /\ Len(r) = Len(q) - 1
      /\ \A i \in 1..Len(r) : r[i] = q[i + 1]
      /\ Len(q) \in Nat \ {0}
  BY HeadTailProperties, EmptySeq
<1>2. Range(q) = Range(r) \cup {Head(q)}
  <2>1. Range(r) = {r[i] : i \in 1..Len(r)} /\ Range(q) = {q[i] : i \in 1..Len(q)}
    BY <1>1, RangeEquality, ZenonT(40)
  <2> HIDE DEF r
  <2>2. ASSUME NEW i \in 1..Len(q) PROVE q[i] \in Range(r) \cup {Head(q)}
    <3>1. CASE i = 1
      BY <1>1, <3>1
    <3>2. CASE i # 1
      <4>1. i - 1 \in 1..Len(r) /\ r[i - 1] = q[i]
        BY <1>1, <3>2
      <4> QED BY <2>1, <4>1
    <3> QED BY <3>1, <3>2
  <2>3. ASSUME NEW i \in 1..Len(r) PROVE r[i] \in Range(q)
    <3>1. i + 1 \in 1..Len(q) /\ r[i] = q[i + 1]
      BY <1>1
    <3> QED BY <2>1, <3>1
  <2>4. Head(q) \in Range(q)
    BY <1>1, <2>1
  <2> QED BY <2>1, <2>2, <2>3, <2>4
<1>3. ASSUME InOrder(q), NEW i \in 1..Len(r), NEW j \in 1..Len(r), i < j,
             r[i][1] = "SendUpdateToNode", r[j][1] = "SendUpdateToNode"
      PROVE  r[i][2] < r[j][2]
  <2>1. /\ i + 1 \in 1..Len(q) /\ j + 1 \in 1..Len(q) /\ i + 1 < j + 1
        /\ r[i] = q[i + 1] /\ r[j] = q[j + 1]
    BY <1>1, <1>3
  <2> HIDE DEF r
  <2> QED BY <1>3, <2>1 DEF InOrder
<1>4. ASSUME InOrder(q), Head(q)[1] = "SendUpdateToNode", NEW u \in WaitingIn(r)
      PROVE  Head(q)[2] < u
  <2>1. Range(r) = {r[i] : i \in 1..Len(r)}
    BY <1>1, RangeEquality
  <2> HIDE DEF r
  <2>2. PICK i \in 1..Len(r) : r[i] = <<"SendUpdateToNode", u>>
    BY <1>4, <2>1 DEF WaitingIn
  <2>3. /\ 1 \in 1..Len(q) /\ i + 1 \in 1..Len(q) /\ 1 < i + 1
        /\ q[i + 1] = <<"SendUpdateToNode", u>>
    BY <1>1, <2>2
  <2>4. q[1][1] = "SendUpdateToNode"
    BY <1>1, <1>4
  <2>5. q[i + 1][1] = "SendUpdateToNode" /\ q[i + 1][2] = u
    BY <2>3
  <2>6. q[1][2] < q[i + 1][2]
    BY <1>4, <2>3, <2>4, <2>5 DEF InOrder
  <2> QED BY <1>1, <2>5, <2>6
<1> QED BY <1>1, <1>2, <1>3, <1>4 DEF InOrder

(* A finite set is listed in some order (the clients a map holds when it   *)
(* is cleared).                                                            *)
LEMMA SetToSeqOfFinite ==
  ASSUME NEW S, IsFiniteSet(S)
  PROVE  SetToSeq(S) \in Seq(S) /\ Range(SetToSeq(S)) = S
<1> DEFINE n == Cardinality(S)
           D == 1..n
<1>1. n \in Nat /\ ExistsBijection(D, S)
  BY FS_CardinalityType
<1>2. IsFiniteSet(D) /\ Cardinality(D) = n
  BY <1>1, FS_Interval
<1>3. PICK b : b \in Bijection(D, S)
  BY <1>1, Fun_ExistsBij
<1>4. b \in [D -> S] /\ \A x, y \in D : b[x] = b[y] => x = y
  BY <1>3, Fun_BijectionProperties
<1>5. b \in [D -> S] /\ IsInjective(b)
  <2> HIDE DEF D
  <2> QED BY <1>4 DEF IsInjective
<1>6. SetToSeq(S) \in [D -> S] /\ IsInjective(SetToSeq(S))
  BY <1>5 DEF SetToSeq
<1>7. SetToSeq(S) \in Injection(D, S)
  BY <1>6 DEF Injection
<1>8. SetToSeq(S) \in Surjection(D, S)
  BY <1>2, <1>7, FS_Injection
<1>9. Range(SetToSeq(S)) = S
  BY <1>8, Fun_SurjectionProperties
<1>10. SetToSeq(S) \in Seq(S)
  BY <1>1, <1>6, SeqDef
<1> QED BY <1>9, <1>10

-----------------------------------------------------------------------------
(* The clients whose connections get a forceClose when they are destroyed. *)
Halfway(clients) == {c \in clients : conn[c] \in {"idle", "shut"}}

(* Destroying clients queues a forceClose for each of their connections    *)
(* that is open with nothing left to write, and moves no update.           *)
LEMMA ClosingQueue ==
  ASSUME NEW m \in Nat, NEW clients \in SUBSET (1..m), NEW q \in Seq(Functor)
  PROVE  /\ q \o Closing(clients) \in Seq(Functor)
         /\ Range(q \o Closing(clients)) =
              Range(q) \cup {<<"forceClose", c>> : c \in Halfway(clients)}
         /\ InOrder(q) => InOrder(q \o Closing(clients))
         /\ WaitingIn(q \o Closing(clients)) = WaitingIn(q)
<1> DEFINE K == Halfway(clients)
           T == {<<"forceClose", c>> : c \in K}
           f == [c \in K |-> <<"forceClose", c>>]
<1>1. K \subseteq 1..m
  BY DEF Halfway
<1>2. IsFiniteSet(K)
  <2>1. IsFiniteSet(1..m)
    BY FS_Interval
  <2> HIDE DEF K
  <2> QED BY <1>1, <2>1, FS_Subset
<1>3. IsFiniteSet(T)
  <2>1. f \in [K -> T] /\ \A t \in T : \E c \in K : f[c] = t
    OBVIOUS
  <2> HIDE DEF f, K, T
  <2>2. f \in Surjection(K, T)
    BY <2>1, Fun_IsSurj
  <2> QED BY <1>2, <2>2, FS_Surjection
<1>4. Closing(clients) = SetToSeq(T)
  BY DEF Closing, Halfway
<1>5. T \subseteq Functor /\ \A t \in T : t[1] # "SendUpdateToNode"
  BY <1>1 DEF Functor, What
<1> HIDE DEF T, K
<1>6. SetToSeq(T) \in Seq(T) /\ Range(SetToSeq(T)) = T
  BY <1>3, SetToSeqOfFinite
<1>7. SetToSeq(T) \in Seq(Functor)
  BY <1>5, <1>6, SeqMonotonic
<1>8. /\ q \o SetToSeq(T) \in Seq(Functor)
      /\ Range(q \o SetToSeq(T)) = Range(q) \cup T
      /\ InOrder(q) => InOrder(q \o SetToSeq(T))
  BY <1>5, <1>6, <1>7, ConcatToQueue
<1>9. WaitingIn(q \o SetToSeq(T)) = WaitingIn(q)
  <2>1. \A u : <<"SendUpdateToNode", u>> \notin T
    BY <1>5
  <2> QED BY <1>8, <2>1 DEF WaitingIn
<1> QED BY <1>4, <1>8, <1>9 DEF T, K

-----------------------------------------------------------------------------
(* The inductive invariant. *)

(* The maps are well typed; a client is stored under the key of its own    *)
(* update, and only an update with an address is given a client.           *)
Typed ==
  /\ TypeOK
  /\ functors \in Seq(Functor)
  /\ Len(peerOf) <= MaxUpdates
  /\ storing # 0 => peerOf[storing] \in Peers
  /\ \A p \in DOMAIN active_clients_ : peerOf[active_clients_[p]] = p

(* The updates that wait are in order, and are the last that were posted.  *)
LastWait ==
  /\ InOrder(functors)
  /\ \A u \in WaitingIn(functors) : \A v \in Updates :
       u < v => v \in WaitingIn(functors)

(* One update is the newest that was handled for a peer. *)
IsNewest(p, u) ==
  u \in HandledFor(p) \cup {0} /\ \A v \in HandledFor(p) \cup {0} : v <= u

NewestExists == \A p \in Peers : \E u \in Nat : IsNewest(p, u)

Owned(c) == c \in OwnerOf(peerOf[c])

(* Who will release a connection, in each of its states. *)
Attended ==
  \A c \in Updates :
    /\ conn[c] \in {"connecting", "writing"} => Owned(c)
    /\ conn[c] \in {"writing", "orphan"} => <<"OnWriteComplete", c>> \in Range(functors)
    /\ conn[c] \in {"idle", "shut"} => Owned(c) \/ <<"forceClose", c>> \in Range(functors)

IndInv == Typed /\ LastWait /\ NewestExists /\ Attended

(* Updates are the numbers from 1 to the last that was posted.             *)
LEMMA UpdatesAreNumbers ==
  ASSUME IndInv
  PROVE  /\ Len(peerOf) \in Nat
         /\ Updates = 1..Len(peerOf)
         /\ Range(functors) \subseteq What \X Updates
         /\ WaitingIn(functors) = {u \in Updates : <<"SendUpdateToNode", u>> \in Range(functors)}
<1>1. peerOf \in Seq(Peers \cup {NoPeer})
  BY DEF IndInv, Typed, TypeOK
<1>2. Len(peerOf) \in Nat /\ Updates = 1..Len(peerOf)
  BY <1>1, LenProperties DEF Updates
<1>3. Range(functors) \subseteq What \X Updates
  BY DEF IndInv, Typed, TypeOK, What
<1>4. WaitingIn(functors) = {u \in Updates : <<"SendUpdateToNode", u>> \in Range(functors)}
  BY <1>2, <1>3 DEF WaitingIn
<1> QED BY <1>2, <1>3, <1>4

(* What the queue holds once its head is taken to be run.                  *)
LEMMA Running ==
  ASSUME IndInv, NEW w \in What, NEW c \in Updates, Runs(w, c)
  PROVE  /\ storing = 0
         /\ Tail(functors) \in Seq(Functor)
         /\ Range(functors) = Range(Tail(functors)) \cup {<<w, c>>}
         /\ InOrder(Tail(functors))
         /\ WaitingIn(functors) = IF w = "SendUpdateToNode"
                                  THEN WaitingIn(Tail(functors)) \cup {c}
                                  ELSE WaitingIn(Tail(functors))
         /\ w = "SendUpdateToNode" => \A u \in WaitingIn(Tail(functors)) : c < u
<1>1. /\ storing = 0 /\ functors # <<>> /\ Head(functors) = <<w, c>>
      /\ functors \in Seq(Functor) /\ InOrder(functors)
  BY DEF IndInv, Typed, LastWait, Runs
<1>2. /\ Tail(functors) \in Seq(Functor)
      /\ Range(functors) = Range(Tail(functors)) \cup {<<w, c>>}
      /\ InOrder(Tail(functors))
      /\ Head(functors)[1] = "SendUpdateToNode"
           => \A u \in WaitingIn(Tail(functors)) : Head(functors)[2] < u
  BY <1>1, TailOfQueue
<1>3. Head(functors)[1] = w /\ Head(functors)[2] = c
  BY <1>1
<1>4. c \in Nat
  BY UpdatesAreNumbers
<1>5. WaitingIn(functors) = IF w = "SendUpdateToNode"
                            THEN WaitingIn(Tail(functors)) \cup {c}
                            ELSE WaitingIn(Tail(functors))
  BY <1>2, <1>4 DEF WaitingIn
<1> QED BY <1>1, <1>2, <1>3, <1>5

(* A step that posts nothing and leaves what waits as it is leaves the     *)
(* newest handled update of every peer as it is.                           *)
LEMMA SameWaiting ==
  ASSUME IndInv, UNCHANGED peerOf, InOrder(functors'),
         WaitingIn(functors') = WaitingIn(functors)
  PROVE  LastWait' /\ NewestExists' /\ \A p : HandledFor(p)' = HandledFor(p)
<1>1. Updates' = Updates
  BY DEF Updates
<1>2. Updates \subseteq Nat
  BY UpdatesAreNumbers
<1>3. LastWait'
  BY <1>1 DEF IndInv, LastWait
<1>4. ASSUME NEW p PROVE HandledFor(p)' = HandledFor(p)
  <2>1. \A u \in Updates : <<"SendUpdateToNode", u>> \in Range(functors')
                             <=> <<"SendUpdateToNode", u>> \in Range(functors)
    BY <1>2 DEF WaitingIn
  <2> QED BY <1>1, <2>1 DEF HandledFor
<1>5. NewestExists'
  BY <1>4 DEF IndInv, NewestExists, IsNewest
<1> QED BY <1>3, <1>4, <1>5

-----------------------------------------------------------------------------
(* Init and the steps that only move updates. *)

LEMMA InitInvariant == Init => IndInv
<1> SUFFICES ASSUME Init PROVE IndInv
  OBVIOUS
<1>1. /\ Updates = {} /\ Len(peerOf) = 0 /\ Range(functors) = {} /\ Len(functors) = 0
      /\ functors = <<>>
  BY DEF Init, Updates, Range
<1>2. Typed
  <2>1. TypeOK
    BY <1>1, BoundsAssumption DEF BoundsAssumption, Init, TypeOK, IsMap, EmptyMap
  <2> QED BY <1>1, <2>1, BoundsAssumption DEF BoundsAssumption, Init, Typed, EmptyMap
<1>3. LastWait
  BY <1>1 DEF LastWait, InOrder
<1>4. NewestExists
  <2> SUFFICES ASSUME NEW p \in Peers PROVE IsNewest(p, 0)
    BY DEF NewestExists
  <2>1. HandledFor(p) = {}
    BY <1>1 DEF HandledFor
  <2> QED BY <2>1 DEF IsNewest
<1>5. Attended
  BY <1>1 DEF Attended
<1> QED BY <1>2, <1>3, <1>4, <1>5 DEF IndInv

(* A posted update waits behind the others and touches no client.          *)
LEMMA SendUpdatePreserves ==
  ASSUME IndInv, NEW p \in Peers \cup {NoPeer}, SendUpdate(p)
  PROVE  IndInv' /\ \A q \in Peers : HandledFor(q)' = HandledFor(q)
<1> DEFINE u == Len(peerOf) + 1
<1>1. /\ TypeOK /\ peerOf \in Seq(Peers \cup {NoPeer}) /\ functors \in Seq(Functor)
      /\ u <= MaxUpdates
      /\ peerOf' = Append(peerOf, p)
      /\ conn' = Append(conn, "none")
      /\ functors' = Append(functors, <<"SendUpdateToNode", u>>)
      /\ UNCHANGED <<storing, pending_updates_, active_clients_, sent, stops>>
  BY DEF IndInv, Typed, TypeOK, SendUpdate
<1>2. Len(peerOf) \in Nat /\ Updates = 1..Len(peerOf)
  BY UpdatesAreNumbers
<1>3. /\ peerOf' \in Seq(Peers \cup {NoPeer}) /\ Len(peerOf') = u
      /\ \A c \in Updates : peerOf'[c] = peerOf[c]
      /\ peerOf'[u] = p
  BY <1>1, <1>2, AppendProperties
<1>4. Updates' = 1..u /\ Updates' = Updates \cup {u} /\ u \notin Updates /\ u \in Nat
  <2>1. Updates' = 1..u
    BY <1>3, LenProperties DEF Updates
  <2> QED BY <1>2, <2>1
<1>5. /\ conn' \in [Updates' -> States]
      /\ \A c \in Updates : conn'[c] = conn[c]
      /\ conn'[u] = "none"
  <2>1. conn \in [1..Len(peerOf) -> States]
    BY <1>1, <1>2 DEF TypeOK
  <2>2. conn \in Seq(States) /\ Len(conn) = Len(peerOf)
    BY <1>2, <2>1, SeqDef
  <2>3. "none" \in States
    BY DEF States
  <2>4. /\ conn' \in Seq(States) /\ Len(conn') = u
        /\ \A c \in 1..Len(peerOf) : conn'[c] = conn[c]
        /\ conn'[u] = "none"
    BY <1>1, <2>2, <2>3, AppendProperties
  <2> QED BY <1>2, <1>4, <2>4, LenProperties
<1>6. /\ functors' \in Seq(Functor)
      /\ Range(functors') = Range(functors) \cup {<<"SendUpdateToNode", u>>}
      /\ InOrder(functors')
  <2>1. <<"SendUpdateToNode", u>> \in Functor
    BY <1>4 DEF Functor, What
  <2>2. \A v \in WaitingIn(functors) : v < u
    <3>1. WaitingIn(functors) \subseteq Updates
      BY UpdatesAreNumbers
    <3> QED BY <1>2, <3>1
  <2>3. \A v \in WaitingIn(functors) : v < <<"SendUpdateToNode", u>>[2]
    BY <2>2
  <2> HIDE DEF u
  <2>4. InOrder(functors)
    BY DEF IndInv, LastWait
  <2> QED BY <1>1, <2>1, <2>3, <2>4, AppendToQueue
<1>7. WaitingIn(functors') = WaitingIn(functors) \cup {u}
  BY <1>4, <1>6 DEF WaitingIn
<1> HIDE DEF u
<1>8. Typed'
  <2>1. TypeOK'
    <3>1. \A f \in Range(functors') : f \in What \X Updates'
      <4>1. Range(functors) \subseteq What \X Updates'
        BY <1>4, UpdatesAreNumbers
      <4>2. <<"SendUpdateToNode", u>> \in What \X Updates'
        BY <1>4 DEF What
      <4> QED BY <1>6, <4>1, <4>2
    <3>2. sent' \in [Peers -> Seq(Updates')]
      <4>1. \A q \in Peers : sent[q] \in Seq(Updates)
        BY <1>1 DEF TypeOK
      <4>2. \A q \in Peers : sent[q] \in Seq(Updates')
        BY <1>4, <4>1, SeqMonotonic
      <4> QED BY <1>1, <4>2 DEF TypeOK
    <3>3. storing' \in Updates' \cup {0} /\ stops' \in 0..MaxStops
      BY <1>1, <1>4 DEF TypeOK
    <3>4. IsMap(pending_updates_, Peers, Updates)' /\ IsMap(active_clients_, Peers, Updates)'
      BY <1>1, <1>4 DEF TypeOK, IsMap
    <3> QED BY <1>3, <1>5, <3>1, <3>2, <3>3, <3>4 DEF TypeOK, What
  <2>2. storing' # 0 => peerOf'[storing'] \in Peers
    BY <1>1, <1>3 DEF IndInv, Typed, TypeOK
  <2>3. \A q \in DOMAIN active_clients_ : active_clients_[q] \in Updates
    BY <1>1 DEF TypeOK, IsMap
  <2>4. \A q \in DOMAIN active_clients_' : peerOf'[active_clients_'[q]] = q
    BY <1>1, <1>3, <2>3 DEF IndInv, Typed
  <2> QED BY <1>1, <1>3, <1>6, <2>1, <2>2, <2>4 DEF Typed
<1>9. LastWait'
  <2> SUFFICES ASSUME NEW v \in WaitingIn(functors'), NEW w \in Updates', v < w
               PROVE  w \in WaitingIn(functors')
    BY <1>6 DEF LastWait
  <2>1. CASE w = u
    BY <1>7, <2>1
  <2>2. CASE w \in Updates
    <3>1. v # u
      BY <1>2, <2>2 DEF u
    <3> QED BY <1>7, <2>2, <3>1 DEF IndInv, LastWait
  <2> QED BY <1>4, <2>1, <2>2
<1>10. \A q \in Peers : HandledFor(q)' = HandledFor(q)
  BY <1>3, <1>4, <1>6 DEF HandledFor
<1>11. NewestExists'
  BY <1>10 DEF IndInv, NewestExists, IsNewest
<1>12. Attended'
  BY <1>1, <1>3, <1>4, <1>5, <1>6 DEF IndInv, Attended, Owned, OwnerOf
<1> QED BY <1>8, <1>9, <1>10, <1>11, <1>12 DEF IndInv

(* SendUpdateToNode handles an update newer than those handled before: it  *)
(* takes the place in the cache, and touches no client yet.                *)
LEMMA SendUpdateToNodePreserves ==
  ASSUME IndInv, NEW u \in Updates, SendUpdateToNode(u)
  PROVE  /\ IndInv'
         /\ \A q \in Peers : HandledFor(q)' = IF q = peerOf[u] THEN HandledFor(q) \cup {u}
                                             ELSE HandledFor(q)
         /\ \A q \in Peers : q = peerOf[u] => \A v \in HandledFor(q) \cup {0} : v < u
<1>1. /\ TypeOK /\ functors' = Tail(functors) /\ Runs("SendUpdateToNode", u)
      /\ UNCHANGED <<peerOf, active_clients_, conn, sent, stops>>
      /\ \/ peerOf[u] = NoPeer /\ UNCHANGED <<storing, pending_updates_>>
         \/ /\ peerOf[u] \in Peers
            /\ pending_updates_' = Put(pending_updates_, peerOf[u], u)
            /\ storing' = u
  <2>1. peerOf[u] \in Peers \cup {NoPeer}
    BY UpdatesAreNumbers, ElementOfSeq DEF IndInv, Typed, TypeOK
  <2> QED BY <2>1 DEF IndInv, Typed, SendUpdateToNode
<1>2. /\ functors' \in Seq(Functor)
      /\ Range(functors) = Range(functors') \cup {<<"SendUpdateToNode", u>>}
      /\ InOrder(functors')
      /\ WaitingIn(functors) = WaitingIn(functors') \cup {u}
      /\ \A v \in WaitingIn(functors') : u < v
  BY <1>1, Running DEF What
<1>3. Updates' = Updates /\ Updates \subseteq Nat /\ 0 \notin Updates
  BY <1>1, UpdatesAreNumbers DEF Updates
<1>4. u \notin WaitingIn(functors') /\ <<"SendUpdateToNode", u>> \notin Range(functors')
  BY <1>2, <1>3 DEF WaitingIn
<1>5. Typed'
  <2>1. TypeOK'
    <3>1. \A f \in Range(functors') : f \in What \X Updates'
      BY <1>2, <1>3, UpdatesAreNumbers
    <3>2. IsMap(pending_updates_, Peers, Updates)'
      BY <1>1, <1>3 DEF TypeOK, IsMap, Put
    <3>3. storing' \in Updates' \cup {0}
      BY <1>1, <1>3 DEF TypeOK
    <3> QED BY <1>1, <1>3, <3>1, <3>2, <3>3 DEF TypeOK, IsMap, What
  <2>2. storing' # 0 => peerOf'[storing'] \in Peers
    BY <1>1 DEF IndInv, Typed
  <2> QED BY <1>1, <1>2, <2>1, <2>2 DEF IndInv, Typed
<1>6. LastWait'
  <2> SUFFICES ASSUME NEW v \in WaitingIn(functors'), NEW w \in Updates, v < w
               PROVE  w \in WaitingIn(functors')
    BY <1>2, <1>3 DEF LastWait
  <2>1. w \in WaitingIn(functors)
    BY <1>2 DEF IndInv, LastWait
  <2>2. u < v /\ u \in Nat /\ v \in Nat /\ w \in Nat
    BY <1>2, <1>3 DEF WaitingIn
  <2> QED BY <1>2, <2>1, <2>2
<1>7. \A q : HandledFor(q)' = IF q = peerOf[u] THEN HandledFor(q) \cup {u} ELSE HandledFor(q)
  <2>1. \A v \in Updates : <<"SendUpdateToNode", v>> \in Range(functors)
                             <=> v = u \/ <<"SendUpdateToNode", v>> \in Range(functors')
    BY <1>2
  <2> QED BY <1>1, <1>3, <1>4, <2>1 DEF HandledFor
<1>8. \A q : \A v \in HandledFor(q) \cup {0} : v < u
  <2> SUFFICES ASSUME NEW q, NEW v \in HandledFor(q), ~ v < u PROVE FALSE
    BY <1>3
  <2>1. v \in Updates /\ v \in Nat /\ u \in Nat /\ v \notin WaitingIn(functors)
    BY <1>3 DEF HandledFor, WaitingIn
  <2>2. u \in WaitingIn(functors)
    BY <1>2
  <2>3. v = u \/ u < v
    BY <2>1
  <2> QED BY <2>1, <2>2, <2>3 DEF IndInv, LastWait
<1>9. NewestExists'
  <2> SUFFICES ASSUME NEW q \in Peers PROVE \E v \in Nat : IsNewest(q, v)'
    BY DEF NewestExists
  <2>1. PICK m \in Nat : IsNewest(q, m)
    BY DEF IndInv, NewestExists
  <2>2. CASE q = peerOf[u]
    <3>1. \A v \in HandledFor(q)' \cup {0} : v <= u
      BY <1>3, <1>7, <1>8, <2>2 DEF HandledFor
    <3>2. u \in HandledFor(q)' /\ u \in Nat
      BY <1>3, <1>7, <2>2
    <3> QED BY <3>1, <3>2 DEF IsNewest
  <2>3. CASE q # peerOf[u]
    BY <1>7, <2>1, <2>3 DEF IsNewest
  <2> QED BY <2>2, <2>3
<1>10. Attended'
  BY <1>1, <1>2, <1>3 DEF IndInv, Attended, Owned, OwnerOf
<1> QED BY <1>5, <1>6, <1>7, <1>8, <1>9, <1>10 DEF IndInv

(* OnWriteComplete releases an orphan, and leaves a connection that it     *)
(* shuts with the owner it has.                                            *)
LEMMA OnWriteCompletePreserves ==
  ASSUME IndInv, NEW c \in Updates, OnWriteComplete(c)
  PROVE  IndInv' /\ \A q : HandledFor(q)' = HandledFor(q)
<1>1. /\ TypeOK /\ functors' = Tail(functors) /\ Runs("OnWriteComplete", c)
      /\ conn' = [conn EXCEPT ![c] = CASE @ = "writing" -> "shut"
                                       [] @ = "orphan"  -> "lost"
                                       [] OTHER         -> @]
      /\ UNCHANGED <<peerOf, storing, pending_updates_, active_clients_, sent, stops>>
  BY DEF IndInv, Typed, OnWriteComplete
<1>2. /\ functors' \in Seq(Functor)
      /\ Range(functors) = Range(functors') \cup {<<"OnWriteComplete", c>>}
      /\ InOrder(functors')
      /\ WaitingIn(functors') = WaitingIn(functors)
  BY <1>1, Running DEF What
<1>3. Updates' = Updates
  BY <1>1 DEF Updates
<1>4. LastWait' /\ NewestExists' /\ \A q : HandledFor(q)' = HandledFor(q)
  BY <1>1, <1>2, SameWaiting
<1>5. conn' \in [Updates -> States]
  BY <1>1 DEF TypeOK, States
<1>6. Typed'
  <2>1. \A f \in Range(functors') : f \in What \X Updates'
    BY <1>2, <1>3, UpdatesAreNumbers
  <2>2. TypeOK'
    BY <1>1, <1>3, <1>5, <2>1 DEF TypeOK, IsMap, What
  <2> QED BY <1>1, <1>2, <2>2 DEF IndInv, Typed
<1>7. Attended'
  <2> SUFFICES ASSUME NEW d \in Updates
               PROVE  /\ conn'[d] \in {"connecting", "writing"} => Owned(d)
                      /\ conn'[d] \in {"writing", "orphan"}
                           => <<"OnWriteComplete", d>> \in Range(functors')
                      /\ conn'[d] \in {"idle", "shut"}
                           => Owned(d) \/ <<"forceClose", d>> \in Range(functors')
    BY <1>1, <1>3 DEF Attended, Owned, OwnerOf
  <2>1. conn'[d] = IF d = c THEN CASE conn[c] = "writing" -> "shut"
                                   [] conn[c] = "orphan"  -> "lost"
                                   [] OTHER               -> conn[c]
                   ELSE conn[d]
    BY <1>1 DEF TypeOK
  <2>2. <<"forceClose", d>> \in Range(functors) => <<"forceClose", d>> \in Range(functors')
    BY <1>2
  <2>3. d # c => (<<"OnWriteComplete", d>> \in Range(functors)
                    => <<"OnWriteComplete", d>> \in Range(functors'))
    BY <1>2
  <2>4. /\ conn[d] \in {"connecting", "writing"} => Owned(d)
        /\ conn[d] \in {"writing", "orphan"} => <<"OnWriteComplete", d>> \in Range(functors)
        /\ conn[d] \in {"idle", "shut"} => Owned(d) \/ <<"forceClose", d>> \in Range(functors)
    BY DEF IndInv, Attended
  <2>5. CASE d = c
    BY <2>1, <2>2, <2>4, <2>5
  <2>6. CASE d # c
    BY <2>1, <2>2, <2>3, <2>4, <2>6
  <2> QED BY <2>5, <2>6
<1> QED BY <1>4, <1>6, <1>7 DEF IndInv

-----------------------------------------------------------------------------
(* The steps that destroy clients. *)

(* Destroyed clients leave each of their connections to a functor of the   *)
(* queue, or close it at once; x are connections whose state the step sets *)
(* itself.                                                                 *)
LEMMA DestroyedAreAttended ==
  ASSUME IndInv, UNCHANGED peerOf, NEW D \in SUBSET Updates, NEW X \in SUBSET Updates,
         \A d \in Updates \ X : conn'[d] = IF d \in D THEN Destroyed(conn[d]) ELSE conn[d],
         \A d \in X : conn'[d] = "down" \/ (conn'[d] = "connecting" /\ Owned(d)'),
         \A d \in Updates \ X : \A w \in {"OnWriteComplete", "forceClose"} :
           <<w, d>> \in Range(functors) => <<w, d>> \in Range(functors'),
         \A d \in Halfway(D) : <<"forceClose", d>> \in Range(functors'),
         \A d \in Updates \ (D \cup X) : Owned(d) => Owned(d)'
  PROVE  Attended'
<1> SUFFICES ASSUME NEW d \in Updates
             PROVE  /\ conn'[d] \in {"connecting", "writing"} => Owned(d)'
                    /\ conn'[d] \in {"writing", "orphan"}
                         => <<"OnWriteComplete", d>> \in Range(functors')
                    /\ conn'[d] \in {"idle", "shut"}
                         => Owned(d)' \/ <<"forceClose", d>> \in Range(functors')
  BY DEF Attended, Updates
<1>1. /\ conn[d] \in {"connecting", "writing"} => Owned(d)
      /\ conn[d] \in {"writing", "orphan"} => <<"OnWriteComplete", d>> \in Range(functors)
      /\ conn[d] \in {"idle", "shut"} => Owned(d) \/ <<"forceClose", d>> \in Range(functors)
  BY DEF IndInv, Attended
<1>2. CASE d \in X
  BY <1>2
<1>3. CASE d \in D \ X
  <2>1. conn'[d] = Destroyed(conn[d])
    BY <1>3
  <2>2. conn[d] \in {"idle", "shut"} => <<"forceClose", d>> \in Range(functors')
    BY <1>3 DEF Halfway
  <2>3. <<"OnWriteComplete", d>> \in Range(functors)
          => <<"OnWriteComplete", d>> \in Range(functors')
    BY <1>3
  <2> QED BY <1>1, <2>1, <2>2, <2>3 DEF Destroyed
<1>4. CASE d \notin D \cup X
  <2>1. conn'[d] = conn[d] /\ (Owned(d) => Owned(d)')
    BY <1>4
  <2>2. \A w \in {"OnWriteComplete", "forceClose"} :
          <<w, d>> \in Range(functors) => <<w, d>> \in Range(functors')
    BY <1>4
  <2> QED BY <1>1, <2>1, <2>2
<1> QED BY <1>2, <1>3, <1>4

(* The connections after their clients were destroyed. *)
LEMMA ConnectionsAfter ==
  ASSUME IndInv, NEW D \in SUBSET Updates
  PROVE  /\ ConnAfter(D) \in [Updates -> States]
         /\ \A d \in Updates : ConnAfter(D)[d] = IF d \in D THEN Destroyed(conn[d])
                                                 ELSE conn[d]
<1>1. conn \in [Updates -> States]
  BY DEF IndInv, Typed, TypeOK
<1>2. \A s \in States : Destroyed(s) \in States
  BY DEF Destroyed, States
<1> QED BY <1>1, <1>2 DEF ConnAfter

(* The queue after clients were destroyed, when `q` was left of it.        *)
LEMMA QueueAfter ==
  ASSUME IndInv, NEW D \in SUBSET Updates, NEW q \in Seq(Functor), InOrder(q),
         WaitingIn(q) = WaitingIn(functors), Range(q) \subseteq Range(functors),
         functors' = q \o Closing(D)
  PROVE  /\ functors' \in Seq(Functor)
         /\ InOrder(functors')
         /\ WaitingIn(functors') = WaitingIn(functors)
         /\ Range(functors') = Range(q) \cup {<<"forceClose", d>> : d \in Halfway(D)}
         /\ \A f \in Range(functors') : f \in What \X Updates
<1>1. Len(peerOf) \in Nat /\ D \in SUBSET (1..Len(peerOf))
  BY UpdatesAreNumbers
<1>2. /\ functors' \in Seq(Functor)
      /\ InOrder(functors')
      /\ WaitingIn(functors') = WaitingIn(functors)
      /\ Range(functors') = Range(q) \cup {<<"forceClose", d>> : d \in Halfway(D)}
  BY <1>1, ClosingQueue
<1>3. \A d \in Halfway(D) : <<"forceClose", d>> \in What \X Updates
  BY DEF Halfway, What
<1>4. Range(q) \subseteq What \X Updates
  BY UpdatesAreNumbers
<1> QED BY <1>2, <1>3, <1>4

(* A client that loses its key to the new one is destroyed, and the new    *)
(* one is owned while it connects.                                         *)
LEMMA StoreClientPreserves ==
  ASSUME IndInv, StoreClient
  PROVE  IndInv' /\ \A q : HandledFor(q)' = HandledFor(q)
<1>0. PICK u \in Updates, p \in Peers : u = storing /\ p = peerOf[u]
  BY DEF IndInv, Typed, TypeOK, StoreClient
<1> DEFINE old == OwnerOf(p)
<1>1. /\ TypeOK /\ functors \in Seq(Functor) /\ InOrder(functors)
      /\ active_clients_' = Put(active_clients_, p, u)
      /\ conn' = [ConnAfter(old) EXCEPT ![u] = "connecting"]
      /\ functors' = functors \o Closing(old)
      /\ storing' = 0
      /\ UNCHANGED <<peerOf, pending_updates_, sent, stops>>
  BY <1>0 DEF IndInv, Typed, TypeOK, LastWait, StoreClient
<1>2. Updates' = Updates
  BY <1>1 DEF Updates
<1>3. \A q \in DOMAIN active_clients_ :
        q \in Peers /\ active_clients_[q] \in Updates /\ peerOf[active_clients_[q]] = q
  BY DEF IndInv, Typed, TypeOK, IsMap
<1>4. old \in SUBSET Updates /\ \A d \in old : peerOf[d] = p
  BY <1>3 DEF OwnerOf
<1> HIDE DEF old
<1>5. /\ functors' \in Seq(Functor) /\ InOrder(functors')
      /\ WaitingIn(functors') = WaitingIn(functors)
      /\ Range(functors') = Range(functors) \cup {<<"forceClose", d>> : d \in Halfway(old)}
      /\ \A f \in Range(functors') : f \in What \X Updates
  BY <1>1, <1>4, QueueAfter
<1>6. LastWait' /\ NewestExists' /\ \A q : HandledFor(q)' = HandledFor(q)
  BY <1>1, <1>5, SameWaiting
<1>7. /\ conn' \in [Updates -> States] /\ conn'[u] = "connecting"
      /\ \A d \in Updates \ {u} :
           conn'[d] = IF d \in old THEN Destroyed(conn[d]) ELSE conn[d]
  <2>1. "connecting" \in States
    BY DEF States
  <2> QED BY <1>1, <1>4, <2>1, ConnectionsAfter
<1>8. /\ DOMAIN active_clients_' = DOMAIN active_clients_ \cup {p}
      /\ \A q \in DOMAIN active_clients_' :
           active_clients_'[q] = IF q = p THEN u ELSE active_clients_[q]
      /\ active_clients_' = [q \in DOMAIN active_clients_' |-> active_clients_'[q]]
  BY <1>1 DEF Put
<1>9. Typed'
  <2>1. IsMap(active_clients_, Peers, Updates)'
    BY <1>2, <1>3, <1>8 DEF IsMap
  <2>2. TypeOK'
    BY <1>1, <1>2, <1>5, <1>7, <2>1 DEF TypeOK, IsMap, What
  <2>3. \A q \in DOMAIN active_clients_' : peerOf'[active_clients_'[q]] = q
    BY <1>0, <1>1, <1>3, <1>8
  <2> QED BY <1>1, <1>5, <2>2, <2>3 DEF IndInv, Typed
<1>10. Attended'
  <2>1. u \in OwnerOf(p)'
    BY <1>8 DEF OwnerOf
  <2>2. Owned(u)'
    BY <1>0, <1>1, <2>1 DEF Owned
  <2>3. ASSUME NEW d \in Updates \ (old \cup {u}), Owned(d) PROVE Owned(d)'
    <3>1. peerOf[d] # p
      BY <2>3 DEF Owned, old
    <3> QED BY <1>1, <1>8, <2>3, <3>1 DEF Owned, OwnerOf
  <2>4. \A d \in Halfway(old) : <<"forceClose", d>> \in Range(functors')
    BY <1>5
  <2> DEFINE X == {u}
  <2>5. X \in SUBSET Updates /\ \A d \in X : conn'[d] = "connecting" /\ Owned(d)'
    BY <1>7, <2>2
  <2>6. \A d \in Updates \ X : conn'[d] = IF d \in old THEN Destroyed(conn[d]) ELSE conn[d]
    BY <1>7
  <2>7. \A d \in Updates \ (old \cup X) : Owned(d) => Owned(d)'
    BY <2>3
  <2> HIDE DEF X
  <2> QED BY <1>1, <1>4, <1>5, <2>4, <2>5, <2>6, <2>7, DestroyedAreAttended
<1> QED BY <1>6, <1>9, <1>10 DEF IndInv

(* A connection that is lost takes whatever client is stored under its key *)
(* with it; `q` is what is left of the queue.                              *)
LEMMA OnConnectionDownPreserves ==
  ASSUME IndInv, NEW c \in Updates, NEW q \in Seq(Functor), OnConnectionDown(c, q),
         InOrder(q), WaitingIn(q) = WaitingIn(functors),
         Range(functors) = Range(q) \/ Range(functors) = Range(q) \cup {<<"forceClose", c>>}
  PROVE  IndInv' /\ \A r : HandledFor(r)' = HandledFor(r)
<1> DEFINE p      == peerOf[c]
           others == OwnerOf(p) \ {c}
<1>1. /\ TypeOK
      /\ active_clients_' = Erase(active_clients_, p)
      /\ conn' = [ConnAfter(others) EXCEPT ![c] = "down"]
      /\ functors' = q \o Closing(others)
      /\ UNCHANGED <<peerOf, storing, pending_updates_, sent, stops>>
  BY DEF IndInv, Typed, OnConnectionDown
<1>2. Updates' = Updates
  BY <1>1 DEF Updates
<1>3. \A r \in DOMAIN active_clients_ :
        r \in Peers /\ active_clients_[r] \in Updates /\ peerOf[active_clients_[r]] = r
  BY DEF IndInv, Typed, TypeOK, IsMap
<1>4. others \in SUBSET Updates
  BY <1>3 DEF OwnerOf
<1>5. \A d \in Updates : Owned(d) /\ d \notin others /\ d # c => peerOf[d] # p
  BY DEF Owned
<1> HIDE DEF others
<1>6. /\ functors' \in Seq(Functor) /\ InOrder(functors')
      /\ WaitingIn(functors') = WaitingIn(functors)
      /\ Range(functors') = Range(q) \cup {<<"forceClose", d>> : d \in Halfway(others)}
      /\ \A f \in Range(functors') : f \in What \X Updates
  BY <1>1, <1>4, QueueAfter
<1>7. LastWait' /\ NewestExists' /\ \A r : HandledFor(r)' = HandledFor(r)
  BY <1>1, <1>6, SameWaiting
<1>8. /\ conn' \in [Updates -> States] /\ conn'[c] = "down"
      /\ \A d \in Updates \ {c} :
           conn'[d] = IF d \in others THEN Destroyed(conn[d]) ELSE conn[d]
  <2>1. "down" \in States
    BY DEF States
  <2> QED BY <1>1, <1>4, <2>1, ConnectionsAfter
<1>9. /\ DOMAIN active_clients_' = DOMAIN active_clients_ \ {p}
      /\ \A r \in DOMAIN active_clients_' : active_clients_'[r] = active_clients_[r]
      /\ active_clients_' = [r \in DOMAIN active_clients_' |-> active_clients_'[r]]
  BY <1>1 DEF Erase, Restrict
<1>10. Typed'
  <2>1. IsMap(active_clients_, Peers, Updates)'
    BY <1>2, <1>3, <1>9 DEF IsMap
  <2>2. TypeOK'
    BY <1>1, <1>2, <1>6, <1>8, <2>1 DEF TypeOK, IsMap, What
  <2>3. \A r \in DOMAIN active_clients_' : peerOf'[active_clients_'[r]] = r
    BY <1>1, <1>3, <1>9
  <2> QED BY <1>1, <1>6, <2>2, <2>3 DEF IndInv, Typed
<1>11. Attended'
  <2> DEFINE X == {c}
  <2>1. ASSUME NEW d \in Updates \ (others \cup X), Owned(d) PROVE Owned(d)'
    <3>1. peerOf[d] # p
      BY <1>5, <2>1
    <3> QED BY <1>1, <1>9, <2>1, <3>1 DEF Owned, OwnerOf
  <2>2. \A d \in Halfway(others) : <<"forceClose", d>> \in Range(functors')
    BY <1>6
  <2>3. X \in SUBSET Updates /\ \A d \in X : conn'[d] = "down"
    BY <1>8
  <2>4. \A d \in Updates \ X : conn'[d] = IF d \in others THEN Destroyed(conn[d]) ELSE conn[d]
    BY <1>8
  <2>5. \A d \in Updates \ (others \cup X) : Owned(d) => Owned(d)'
    BY <2>1
  <2>6. \A d \in Updates \ X : \A w \in {"OnWriteComplete", "forceClose"} :
          <<w, d>> \in Range(functors) => <<w, d>> \in Range(functors')
    BY <1>6
  <2> HIDE DEF X
  <2> QED BY <1>1, <1>4, <2>2, <2>3, <2>4, <2>5, <2>6, DestroyedAreAttended
<1> QED BY <1>7, <1>10, <1>11 DEF IndInv

LEMMA PeerClosesPreserves ==
  ASSUME IndInv, NEW c \in Updates, PeerCloses(c)
  PROVE  IndInv' /\ \A r : HandledFor(r)' = HandledFor(r)
<1>1. functors \in Seq(Functor) /\ InOrder(functors) /\ OnConnectionDown(c, functors)
  BY DEF IndInv, Typed, LastWait, PeerCloses
<1> QED BY <1>1, OnConnectionDownPreserves

(* The functor of a destroyed client closes its connection, or finds it    *)
(* closed.                                                                 *)
LEMMA ForceClosePreserves ==
  ASSUME IndInv, NEW c \in Updates, ForceClose(c)
  PROVE  IndInv' /\ \A r : HandledFor(r)' = HandledFor(r)
<1> DEFINE q == Tail(functors)
<1>1. Runs("forceClose", c)
  BY DEF ForceClose
<1>2. /\ q \in Seq(Functor) /\ InOrder(q)
      /\ Range(functors) = Range(q) \cup {<<"forceClose", c>>}
      /\ WaitingIn(q) = WaitingIn(functors)
  BY <1>1, Running DEF What
<1>3. CASE conn[c] \in Open
  <2>1. OnConnectionDown(c, q)
    BY <1>3 DEF ForceClose
  <2> QED BY <1>2, <2>1, OnConnectionDownPreserves
<1>4. CASE conn[c] \notin Open
  <2>1. /\ functors' = q
        /\ UNCHANGED <<peerOf, storing, pending_updates_, active_clients_, conn, sent, stops>>
    BY <1>4 DEF ForceClose
  <2> HIDE DEF q
  <2>2. Updates' = Updates
    BY <2>1 DEF Updates
  <2>3. LastWait' /\ NewestExists' /\ \A r : HandledFor(r)' = HandledFor(r)
    BY <1>2, <2>1, SameWaiting
  <2>4. Typed'
    <3>1. \A f \in Range(functors') : f \in What \X Updates'
      BY <1>2, <2>1, <2>2, UpdatesAreNumbers
    <3>2. TypeOK'
      BY <2>1, <2>2, <3>1 DEF IndInv, Typed, TypeOK, IsMap, What
    <3> QED BY <1>2, <2>1, <3>2 DEF IndInv, Typed
  <2>5. Attended'
    <3> SUFFICES ASSUME NEW d \in Updates
                 PROVE  /\ conn[d] \in {"connecting", "writing"} => Owned(d)
                        /\ conn[d] \in {"writing", "orphan"}
                             => <<"OnWriteComplete", d>> \in Range(functors')
                        /\ conn[d] \in {"idle", "shut"}
                             => Owned(d) \/ <<"forceClose", d>> \in Range(functors')
      BY <2>1, <2>2 DEF Attended, Owned, OwnerOf
    <3>1. conn[d] \in {"idle", "shut"} => d # c
      BY <1>4 DEF Open
    <3>2. \A w : <<w, d>> \in Range(functors)
                   => <<w, d>> \in Range(functors') \/ (w = "forceClose" /\ d = c)
      BY <1>2, <2>1
    <3> QED BY <3>1, <3>2 DEF IndInv, Attended
  <2> QED BY <2>3, <2>4, <2>5 DEF IndInv
<1> QED BY <1>3, <1>4

(* A connection that comes up is owned, by the client that made it; what   *)
(* it sends queues its OnWriteComplete.                                    *)
LEMMA OnConnectionUpPreserves ==
  ASSUME IndInv, NEW c \in Updates, OnConnectionUp(c)
  PROVE  IndInv' /\ \A r : HandledFor(r)' = HandledFor(r)
<1> DEFINE p == peerOf[c]
<1>1. /\ TypeOK /\ functors \in Seq(Functor) /\ InOrder(functors)
      /\ conn[c] = "connecting"
      /\ UNCHANGED <<peerOf, storing, active_clients_, stops>>
  BY DEF IndInv, Typed, LastWait, OnConnectionUp
<1>2. Updates' = Updates /\ c \in Nat
  BY <1>1, UpdatesAreNumbers DEF Updates
<1>3. Owned(c)
  BY <1>1 DEF IndInv, Attended
<1>4. \A d \in Updates : Owned(d)' <=> Owned(d)
  BY <1>1 DEF Owned, OwnerOf
<1>5. CASE p \in DOMAIN pending_updates_
  <2>1. /\ sent' = [sent EXCEPT ![p] = Append(@, pending_updates_[p])]
        /\ pending_updates_' = Erase(pending_updates_, p)
        /\ conn' = [conn EXCEPT ![c] = "writing"]
        /\ functors' = Append(functors, <<"OnWriteComplete", c>>)
    BY <1>5 DEF OnConnectionUp
  <2>2. /\ functors' \in Seq(Functor) /\ InOrder(functors')
        /\ Range(functors') = Range(functors) \cup {<<"OnWriteComplete", c>>}
    <3>1. <<"OnWriteComplete", c>> \in Functor
      BY <1>2 DEF Functor, What
    <3>2. <<"OnWriteComplete", c>>[1] # "SendUpdateToNode"
      OBVIOUS
    <3> QED BY <1>1, <2>1, <3>1, <3>2, AppendToQueue
  <2>3. WaitingIn(functors') = WaitingIn(functors)
    BY <2>2 DEF WaitingIn
  <2>4. LastWait' /\ NewestExists' /\ \A r : HandledFor(r)' = HandledFor(r)
    BY <1>1, <2>2, <2>3, SameWaiting
  <2>5. Typed'
    <3>1. \A f \in Range(functors') : f \in What \X Updates'
      <4>1. <<"OnWriteComplete", c>> \in What \X Updates
        BY DEF What
      <4> QED BY <1>2, <2>2, <4>1, UpdatesAreNumbers
    <3>2. conn' \in [Updates' -> States]
      <4>1. "writing" \in States
        BY DEF States
      <4> QED BY <1>1, <1>2, <2>1, <4>1 DEF TypeOK
    <3>3. sent' \in [Peers -> Seq(Updates')]
      <4>1. p \in Peers /\ pending_updates_[p] \in Updates /\ sent[p] \in Seq(Updates)
        BY <1>1, <1>5 DEF TypeOK, IsMap
      <4>2. Append(sent[p], pending_updates_[p]) \in Seq(Updates)
        BY <4>1, AppendProperties
      <4> QED BY <1>1, <1>2, <2>1, <4>2 DEF TypeOK
    <3>4. IsMap(pending_updates_, Peers, Updates)'
      BY <1>1, <1>2, <2>1 DEF TypeOK, IsMap, Erase, Restrict
    <3>5. TypeOK'
      BY <1>1, <1>2, <3>1, <3>2, <3>3, <3>4 DEF TypeOK, IsMap, What
    <3> QED BY <1>1, <2>2, <3>5 DEF IndInv, Typed
  <2>6. Attended'
    <3> SUFFICES ASSUME NEW d \in Updates
                 PROVE  /\ conn'[d] \in {"connecting", "writing"} => Owned(d)
                        /\ conn'[d] \in {"writing", "orphan"}
                             => <<"OnWriteComplete", d>> \in Range(functors')
                        /\ conn'[d] \in {"idle", "shut"}
                             => Owned(d) \/ <<"forceClose", d>> \in Range(functors')
      BY <1>2, <1>4 DEF Attended
    <3>1. conn'[d] = IF d = c THEN "writing" ELSE conn[d]
      BY <1>1, <2>1 DEF TypeOK
    <3> QED BY <1>3, <2>2, <3>1 DEF IndInv, Attended
  <2> QED BY <2>4, <2>5, <2>6 DEF IndInv
<1>6. CASE p \notin DOMAIN pending_updates_
  <2>1. /\ conn' = [conn EXCEPT ![c] = "idle"]
        /\ UNCHANGED <<sent, pending_updates_, functors>>
    BY <1>6 DEF OnConnectionUp
  <2>2. LastWait' /\ NewestExists' /\ \A r : HandledFor(r)' = HandledFor(r)
    BY <1>1, <2>1, SameWaiting
  <2>3. Typed'
    <3>1. conn' \in [Updates' -> States]
      <4>1. "idle" \in States
        BY DEF States
      <4> QED BY <1>1, <1>2, <2>1, <4>1 DEF TypeOK
    <3>2. TypeOK'
      BY <1>1, <1>2, <2>1, <3>1 DEF TypeOK, IsMap
    <3> QED BY <1>1, <2>1, <3>2 DEF IndInv, Typed
  <2>4. Attended'
    <3>1. \A d \in Updates : conn'[d] = IF d = c THEN "idle" ELSE conn[d]
      BY <1>1, <2>1 DEF TypeOK
    <3>2. ASSUME NEW d \in Updates
          PROVE  /\ conn'[d] \in {"connecting", "writing"} => Owned(d)
                 /\ conn'[d] \in {"writing", "orphan"}
                      => <<"OnWriteComplete", d>> \in Range(functors)
                 /\ conn'[d] \in {"idle", "shut"}
                      => Owned(d) \/ <<"forceClose", d>> \in Range(functors)
      BY <1>3, <3>1 DEF IndInv, Attended
    <3> QED BY <1>2, <1>4, <2>1, <3>2 DEF Attended
  <2> QED BY <2>2, <2>3, <2>4 DEF IndInv
<1> QED BY <1>5, <1>6

(* Stop destroys every stored client, and drops what was cached.           *)
LEMMA StopPreserves ==
  ASSUME IndInv, Stop
  PROVE  IndInv' /\ \A r : HandledFor(r)' = HandledFor(r)
<1> DEFINE D == Range(active_clients_)
<1>1. /\ TypeOK /\ functors \in Seq(Functor) /\ InOrder(functors)
      /\ stops < MaxStops /\ stops' = stops + 1
      /\ active_clients_' = EmptyMap
      /\ pending_updates_' = EmptyMap
      /\ conn' = ConnAfter(D)
      /\ functors' = functors \o Closing(D)
      /\ UNCHANGED <<peerOf, storing, sent>>
  BY DEF IndInv, Typed, LastWait, Stop
<1>2. Updates' = Updates
  BY <1>1 DEF Updates
<1>3. D \in SUBSET Updates /\ \A d : Owned(d) => d \in D
  BY <1>1 DEF TypeOK, IsMap, Owned, OwnerOf, Range
<1> HIDE DEF D
<1>4. /\ functors' \in Seq(Functor) /\ InOrder(functors')
      /\ WaitingIn(functors') = WaitingIn(functors)
      /\ Range(functors') = Range(functors) \cup {<<"forceClose", d>> : d \in Halfway(D)}
      /\ \A f \in Range(functors') : f \in What \X Updates
  BY <1>1, <1>3, QueueAfter
<1>5. LastWait' /\ NewestExists' /\ \A r : HandledFor(r)' = HandledFor(r)
  BY <1>1, <1>4, SameWaiting
<1>6. /\ conn' \in [Updates -> States]
      /\ \A d \in Updates : conn'[d] = IF d \in D THEN Destroyed(conn[d]) ELSE conn[d]
  BY <1>1, <1>3, ConnectionsAfter
<1>7. Typed'
  <2>1. stops' \in 0..MaxStops
    BY <1>1, BoundsAssumption DEF BoundsAssumption, TypeOK
  <2>2. IsMap(active_clients_, Peers, Updates)' /\ IsMap(pending_updates_, Peers, Updates)'
    BY <1>1 DEF IsMap, EmptyMap
  <2>3. TypeOK'
    BY <1>1, <1>2, <1>4, <1>6, <2>1, <2>2 DEF TypeOK, What
  <2> QED BY <1>1, <1>4, <2>3 DEF IndInv, Typed, EmptyMap
<1>8. Attended'
  <2>1. \A d \in Halfway(D) : <<"forceClose", d>> \in Range(functors')
    BY <1>4
  <2> DEFINE X == {}
  <2>2. X \in SUBSET Updates /\ \A d \in X : conn'[d] = "down"
    OBVIOUS
  <2>3. \A d \in Updates \ X : conn'[d] = IF d \in D THEN Destroyed(conn[d]) ELSE conn[d]
    BY <1>6
  <2>4. \A d \in Updates \ (D \cup X) : Owned(d) => Owned(d)'
    BY <1>3
  <2> HIDE DEF X
  <2> QED BY <1>1, <1>3, <1>4, <2>1, <2>2, <2>3, <2>4, DestroyedAreAttended
<1> QED BY <1>5, <1>7, <1>8 DEF IndInv

LEMMA StutterPreserves ==
  ASSUME IndInv, UNCHANGED vars
  PROVE  IndInv'
<1>1. /\ Updates' = Updates /\ functors' = functors
      /\ UNCHANGED <<peerOf, storing, pending_updates_, active_clients_, conn, sent, stops>>
  BY DEF vars, Updates
<1>2. LastWait' /\ NewestExists'
  BY <1>1, SameWaiting DEF IndInv, LastWait
<1>3. Typed'
  BY <1>1 DEF IndInv, Typed, TypeOK, IsMap
<1>4. Attended'
  BY <1>1 DEF IndInv, Attended, Owned, OwnerOf
<1> QED BY <1>2, <1>3, <1>4 DEF IndInv

(* The invariant holds in every state of every behaviour. *)
LEMMA Inductive == Spec => []IndInv
<1>1. IndInv /\ [Next]_vars => IndInv'
  <2> SUFFICES ASSUME IndInv, [Next]_vars PROVE IndInv'
    OBVIOUS
  <2>1. CASE Next
    BY <2>1, SendUpdatePreserves, SendUpdateToNodePreserves, OnWriteCompletePreserves,
       ForceClosePreserves, StoreClientPreserves, OnConnectionUpPreserves,
       PeerClosesPreserves, StopPreserves DEF Next, RunFunctor
  <2> QED BY <2>1, StutterPreserves
<1> QED BY <1>1, InitInvariant, PTL DEF Spec

-----------------------------------------------------------------------------
(* Whatever is posted, connected, closed and stopped, the maps, the        *)
(* connections and the queue refer to updates that were posted (the type   *)
(* invariant of master_tcp_server.cpp's state).                            *)
THEOREM TypeCorrect == Spec => []TypeOK
<1>1. IndInv => TypeOK
  BY DEF IndInv, Typed
<1> QED BY <1>1, Inductive, PTL

(* No connection is left open without an owner or a queued functor that    *)
(* will release it, though clients are replaced, dropped by a late DOWN    *)
(* and destroyed by Stop (SendUpdateToNode, OnConnection, Stop).           *)
THEOREM NoConnectionIsLeaked == Spec => []NoLeakedConnection
<1>1. IndInv => NoLeakedConnection
  BY DEF IndInv, Attended, Owned, NoLeakedConnection, Open
<1> QED BY <1>1, Inductive, PTL

-----------------------------------------------------------------------------
(* The refinement: what the outbox sees of this state. *)

(* Max chooses the only number of a set that is its greatest. *)
LEMMA MaxIsGreatest ==
  ASSUME NEW S \in SUBSET Nat, NEW u \in S, \A v \in S : v <= u
  PROVE  Max(S) = u
<1>1. u \in S /\ \A v \in S : u >= v
  OBVIOUS
<1> DEFINE m == Max(S)
<1>2. m \in S /\ \A v \in S : m >= v
  BY <1>1 DEF Max
<1> HIDE DEF m
<1>3. m \in Nat /\ u \in Nat /\ m >= u /\ u >= m
  BY <1>1, <1>2
<1>4. m = u
  BY <1>3
<1> QED BY <1>4 DEF m

(* A step that handles no update leaves the newest ones. *)
LEMMA NewestUnchanged ==
  ASSUME \A p \in Peers : HandledFor(p)' = HandledFor(p)
  PROVE  NewestFor' = NewestFor
BY DEF NewestFor

(* SendUpdateToNode accepts the update, unless the node was not found.     *)
LEMMA HandledIsAccepted ==
  ASSUME IndInv, NEW u \in Updates, SendUpdateToNode(u)
  PROVE  Outbox!Next \/ UNCHANGED <<WaitingFor, NewestFor, sent>>
<1>1. /\ \A q \in Peers : HandledFor(q)' = IF q = peerOf[u] THEN HandledFor(q) \cup {u}
                                          ELSE HandledFor(q)
      /\ \A q \in Peers : q = peerOf[u] => \A v \in HandledFor(q) \cup {0} : v < u
      /\ IndInv'
  BY SendUpdateToNodePreserves
<1>2. u \in 1..MaxUpdates /\ u \in Nat /\ u # 0
  BY UpdatesAreNumbers, BoundsAssumption DEF BoundsAssumption, IndInv, Typed
<1>3. peerOf[u] \in Peers \cup {NoPeer}
  BY UpdatesAreNumbers, ElementOfSeq DEF IndInv, Typed, TypeOK
<1>4. CASE peerOf[u] = NoPeer
  <2>1. UNCHANGED <<pending_updates_, sent>>
    BY <1>4 DEF SendUpdateToNode
  <2>2. \A q \in Peers : HandledFor(q)' = HandledFor(q)
    BY <1>1, <1>4, PeersAssumption DEF PeersAssumption
  <2> QED BY <2>1, <2>2, NewestUnchanged DEF WaitingFor
<1>5. CASE peerOf[u] \in Peers
  <2>1. PICK p \in Peers : p = peerOf[u]
    BY <1>5
  <2>2. pending_updates_' = Put(pending_updates_, p, u) /\ UNCHANGED <<sent, peerOf>>
    BY <2>1, PeersAssumption DEF PeersAssumption, SendUpdateToNode
  <2>3. /\ HandledFor(p)' = HandledFor(p) \cup {u}
        /\ \A q \in Peers \ {p} : HandledFor(q)' = HandledFor(q)
        /\ \A v \in HandledFor(p) \cup {0} : v < u
    BY <1>1, <2>1
  <2>4. HandledFor(p) \cup {0} \in SUBSET Nat
    BY UpdatesAreNumbers DEF HandledFor
  <2>5. NewestFor[p] < u
    <3>1. PICK m \in Nat : IsNewest(p, m)
      BY DEF IndInv, NewestExists
    <3>2. Max(HandledFor(p) \cup {0}) = m
      BY <2>4, <3>1, MaxIsGreatest DEF IsNewest
    <3> QED BY <2>3, <3>1, <3>2 DEF IsNewest, NewestFor
  <2>6. Max(HandledFor(p)' \cup {0}) = u
    <3> DEFINE S == HandledFor(p) \cup {0} \cup {u}
    <3>1. S \in SUBSET Nat /\ u \in S /\ \A v \in S : v <= u
      BY <1>2, <2>3, <2>4
    <3>2. HandledFor(p)' \cup {0} = S
      BY <2>3
    <3> HIDE DEF S
    <3> QED BY <3>1, <3>2, MaxIsGreatest
  <2>7. NewestFor' = [NewestFor EXCEPT ![p] = u]
    BY <2>3, <2>6 DEF NewestFor
  <2>8. WaitingFor' = [WaitingFor EXCEPT ![p] = u]
    BY <2>2 DEF WaitingFor, Put
  <2>9. Outbox!Accept(p, u)
    BY <1>2, <2>2, <2>5, <2>7, <2>8 DEF Outbox!Accept, WaitingFor, NewestFor
  <2> QED BY <1>2, <2>9 DEF Outbox!Next
<1> QED BY <1>3, <1>4, <1>5

(* A connection that comes up sends what waits, or finds nothing. *)
LEMMA UpIsSent ==
  ASSUME IndInv, NEW c \in Updates, OnConnectionUp(c)
  PROVE  Outbox!Next \/ UNCHANGED <<WaitingFor, NewestFor, sent>>
<1>1. NewestFor' = NewestFor
  BY OnConnectionUpPreserves, NewestUnchanged
<1>2. CASE peerOf[c] \in DOMAIN pending_updates_
  <2>1. /\ IsMap(pending_updates_, Peers, Updates) /\ sent \in [Peers -> Seq(Updates)]
        /\ 0 \notin Updates
    BY UpdatesAreNumbers DEF IndInv, Typed, TypeOK
  <2>2. PICK p \in Peers : p = peerOf[c] /\ p \in DOMAIN pending_updates_
    BY <1>2, <2>1 DEF IsMap
  <2>3. /\ sent' = [sent EXCEPT ![p] = Append(@, pending_updates_[p])]
        /\ pending_updates_' = Erase(pending_updates_, p)
    BY <2>2 DEF OnConnectionUp
  <2>4. WaitingFor[p] = pending_updates_[p] /\ WaitingFor[p] # 0
    BY <2>1, <2>2 DEF WaitingFor, IsMap
  <2>5. WaitingFor' = [WaitingFor EXCEPT ![p] = 0]
    BY <2>3 DEF WaitingFor, Erase, Restrict
  <2>6. Outbox!Send(p)
    BY <1>1, <2>3, <2>4, <2>5 DEF Outbox!Send, WaitingFor, NewestFor
  <2> QED BY <2>6 DEF Outbox!Next
<1>3. CASE peerOf[c] \notin DOMAIN pending_updates_
  BY <1>1, <1>3 DEF OnConnectionUp, WaitingFor
<1> QED BY <1>2, <1>3

(* Stop drops what waits. *)
LEMMA StopIsStop ==
  ASSUME IndInv, Stop
  PROVE  Outbox!Next
<1>1. NewestFor' = NewestFor
  BY StopPreserves, NewestUnchanged
<1>2. WaitingFor' = [p \in Peers |-> 0] /\ sent' = sent
  BY DEF Stop, WaitingFor, EmptyMap
<1>3. Outbox!Stop
  BY <1>1, <1>2 DEF Outbox!Stop, WaitingFor, NewestFor
<1> QED BY <1>3 DEF Outbox!Next

(* The cache, the temporary clients and their callbacks implement the      *)
(* outbox, for every number of peers, updates and stops: an update is sent *)
(* at most once, in the order of posting, and the newest handled one waits *)
(* or was sent unless the server was stopped (SendUpdateToNode,            *)
(* OnConnection and Stop).                                                 *)
THEOREM ImplementsTheOutbox == Spec => ImplementsOutbox
<1>1. Init => Outbox!Init
  <2> SUFFICES ASSUME Init PROVE Outbox!Init
    OBVIOUS
  <2>1. \A p \in Peers : HandledFor(p) \cup {0} = {0}
    BY DEF Init, HandledFor, Updates
  <2>2. \A p \in Peers : Max(HandledFor(p) \cup {0}) = 0
    <3>1. Max({0}) = 0
      BY MaxIsGreatest
    <3> QED BY <2>1, <3>1
  <2> QED BY <2>2 DEF Init, EmptyMap, Outbox!Init, WaitingFor, NewestFor
<1>2. IndInv /\ [Next]_vars => [Outbox!Next]_(Outbox!vars)
  <2> SUFFICES ASSUME IndInv, [Next]_vars
               PROVE  Outbox!Next \/ UNCHANGED <<WaitingFor, NewestFor, sent>>
    BY DEF Outbox!vars, WaitingFor, NewestFor
  <2>1. ASSUME NEW p \in Peers \cup {NoPeer}, SendUpdate(p)
        PROVE  UNCHANGED <<WaitingFor, NewestFor, sent>>
    BY <2>1, SendUpdatePreserves, NewestUnchanged DEF SendUpdate, WaitingFor
  <2>2. ASSUME NEW c \in Updates, OnWriteComplete(c)
        PROVE  UNCHANGED <<WaitingFor, NewestFor, sent>>
    BY <2>2, OnWriteCompletePreserves, NewestUnchanged DEF OnWriteComplete, WaitingFor
  <2>3. ASSUME NEW c \in Updates, ForceClose(c)
        PROVE  UNCHANGED <<WaitingFor, NewestFor, sent>>
    BY <2>3, ForceClosePreserves, NewestUnchanged
       DEF ForceClose, OnConnectionDown, WaitingFor
  <2>4. ASSUME StoreClient
        PROVE  UNCHANGED <<WaitingFor, NewestFor, sent>>
    BY <2>4, StoreClientPreserves, NewestUnchanged DEF StoreClient, WaitingFor
  <2>5. ASSUME NEW c \in Updates, PeerCloses(c)
        PROVE  UNCHANGED <<WaitingFor, NewestFor, sent>>
    BY <2>5, PeerClosesPreserves, NewestUnchanged
       DEF PeerCloses, OnConnectionDown, WaitingFor
  <2>6. CASE UNCHANGED vars
    <3>1. \A p \in Peers : HandledFor(p)' = HandledFor(p)
      BY <2>6 DEF vars, HandledFor, Updates
    <3> QED BY <2>6, <3>1, NewestUnchanged DEF vars, WaitingFor
  <2> QED BY <2>1, <2>2, <2>3, <2>4, <2>5, <2>6, HandledIsAccepted, UpIsSent, StopIsStop
      DEF Next, RunFunctor
<1> QED BY <1>1, <1>2, Inductive, PTL DEF Spec, ImplementsOutbox, Outbox!Spec

-----------------------------------------------------------------------------
(* Until the first Stop, the cache holds the update that is being given a  *)
(* client, and for every other key the update whose client connects.       *)
CacheInStep ==
  stops = 0 =>
    /\ storing # 0 => /\ peerOf[storing] \in DOMAIN pending_updates_
                      /\ pending_updates_[peerOf[storing]] = storing
    /\ \A c \in Updates :
         conn[c] = "connecting" /\ ~ (storing # 0 /\ peerOf[storing] = peerOf[c])
           => peerOf[c] \in DOMAIN pending_updates_ /\ pending_updates_[peerOf[c]] = c

LEMMA CacheStaysInStep ==
  ASSUME IndInv, CacheInStep, [Next]_vars
  PROVE  CacheInStep'
<1> SUFFICES ASSUME stops' = 0
             PROVE  /\ storing' # 0 => /\ peerOf'[storing'] \in DOMAIN pending_updates_'
                                       /\ pending_updates_'[peerOf'[storing']] = storing'
                    /\ \A c \in Updates' :
                         conn'[c] = "connecting"
                           /\ ~ (storing' # 0 /\ peerOf'[storing'] = peerOf'[c])
                           => /\ peerOf'[c] \in DOMAIN pending_updates_'
                              /\ pending_updates_'[peerOf'[c]] = c
  BY DEF CacheInStep
<1>1. /\ stops \in Nat /\ peerOf \in Seq(Peers \cup {NoPeer})
      /\ storing \in Updates \cup {0} /\ conn \in [Updates -> States]
      /\ Updates = 1..Len(peerOf) /\ Len(peerOf) \in Nat
  BY UpdatesAreNumbers DEF IndInv, Typed, TypeOK
<1>2. stops = 0
  <2>1. CASE Stop
    <3>1. stops' = stops + 1
      BY <2>1 DEF Stop
    <3> QED BY <1>1, <3>1
  <2>2. CASE StoreClient \/ \E p \in Peers \cup {NoPeer} : SendUpdate(p)
    BY <2>2 DEF StoreClient, SendUpdate
  <2>3. ASSUME NEW c \in Updates,
               SendUpdateToNode(c) \/ OnWriteComplete(c) \/ OnConnectionUp(c)
        PROVE  stops' = stops
    BY <2>3 DEF SendUpdateToNode, OnWriteComplete, OnConnectionUp
  <2>4. ASSUME NEW c \in Updates, ForceClose(c) \/ PeerCloses(c)
        PROVE  stops' = stops
    BY <2>4 DEF ForceClose, PeerCloses, OnConnectionDown
  <2>5. CASE UNCHANGED vars
    BY <2>5 DEF vars
  <2> QED BY <2>1, <2>2, <2>3, <2>4, <2>5 DEF Next, RunFunctor
<1>3. /\ storing # 0 => /\ peerOf[storing] \in DOMAIN pending_updates_
                        /\ pending_updates_[peerOf[storing]] = storing
      /\ \A c \in Updates :
           conn[c] = "connecting" /\ ~ (storing # 0 /\ peerOf[storing] = peerOf[c])
             => peerOf[c] \in DOMAIN pending_updates_ /\ pending_updates_[peerOf[c]] = c
  BY <1>2 DEF CacheInStep
<1>4. \A D \in SUBSET Updates, c \in Updates :
        ConnAfter(D)[c] = "connecting" => conn[c] = "connecting" /\ c \notin D
  BY ConnectionsAfter DEF Destroyed
<1>5. \A p : OwnerOf(p) \in SUBSET Updates
  BY DEF IndInv, Typed, TypeOK, IsMap, OwnerOf
<1>6. \A c \in Updates : conn[c] = "connecting" => OwnerOf(peerOf[c]) = {c}
  BY DEF IndInv, Attended, Owned, OwnerOf
<1>7. ASSUME NEW p \in Peers \cup {NoPeer}, SendUpdate(p)
      PROVE  CacheInStep'
  <2> DEFINE u == Len(peerOf) + 1
  <2>1. /\ peerOf' = Append(peerOf, p) /\ conn' = Append(conn, "none")
        /\ UNCHANGED <<storing, pending_updates_>>
    BY <1>7 DEF SendUpdate
  <2>2. /\ Updates' = Updates \cup {u} /\ 0 \notin Updates
        /\ \A c \in Updates : peerOf'[c] = peerOf[c]
    <3>1. /\ peerOf' \in Seq(Peers \cup {NoPeer}) /\ Len(peerOf') = u
          /\ \A c \in 1..Len(peerOf) : peerOf'[c] = peerOf[c]
      BY <1>1, <2>1, AppendProperties
    <3>2. Updates' = 1..u
      BY <3>1, LenProperties DEF Updates
    <3> QED BY <1>1, <3>1, <3>2
  <2>3. conn'[u] = "none" /\ \A c \in Updates : conn'[c] = conn[c]
    <3>1. conn \in Seq(States) /\ Len(conn) = Len(peerOf) /\ "none" \in States
      <4>1. conn \in [1..Len(peerOf) -> States]
        BY <1>1
      <4> QED BY <1>1, <4>1, SeqDef DEF States
    <3> QED BY <1>1, <2>1, <3>1, AppendProperties
  <2> HIDE DEF u
  <2> QED BY <1>1, <1>3, <2>1, <2>2, <2>3, ZenonT(40) DEF CacheInStep
<1>8. ASSUME NEW u \in Updates, SendUpdateToNode(u)
      PROVE  CacheInStep'
  <2>1. /\ storing = 0 /\ UNCHANGED <<peerOf, conn, active_clients_>> /\ Updates' = Updates
        /\ \/ UNCHANGED <<storing, pending_updates_>>
           \/ pending_updates_' = Put(pending_updates_, peerOf[u], u) /\ storing' = u
    BY <1>8 DEF SendUpdateToNode, Runs, Updates
  <2>2. 0 \notin Updates
    BY <1>1
  <2> QED BY <1>3, <2>1, <2>2 DEF CacheInStep, Put
<1>9. ASSUME NEW c \in Updates, OnWriteComplete(c)
      PROVE  CacheInStep'
  <2>1. /\ UNCHANGED <<peerOf, storing, pending_updates_>> /\ Updates' = Updates
        /\ \A d \in Updates : conn'[d] = "connecting" => conn[d] = "connecting"
    BY <1>1, <1>9 DEF OnWriteComplete, Updates
  <2> QED BY <1>3, <2>1 DEF CacheInStep
<1>10. ASSUME NEW c \in Updates, NEW q, OnConnectionDown(c, q)
       PROVE  CacheInStep'
  <2>1. /\ UNCHANGED <<peerOf, storing, pending_updates_>> /\ Updates' = Updates
        /\ \A d \in Updates : conn'[d] = "connecting" => conn[d] = "connecting"
    BY <1>1, <1>4, <1>5, <1>10, ConnectionsAfter DEF OnConnectionDown, Updates
  <2> QED BY <1>3, <2>1 DEF CacheInStep
<1>11. ASSUME NEW c \in Updates, ForceClose(c)
       PROVE  CacheInStep'
  <2>1. CASE UNCHANGED <<peerOf, storing, pending_updates_, conn>>
    BY <1>3, <2>1 DEF CacheInStep, Updates
  <2> QED BY <1>10, <1>11, <2>1 DEF ForceClose
<1>12. ASSUME StoreClient
       PROVE  CacheInStep'
  <2>1. PICK u \in Updates : u = storing /\ peerOf[u] \in Peers
    BY <1>1, <1>12 DEF IndInv, Typed, StoreClient
  <2>2. /\ storing' = 0 /\ UNCHANGED <<peerOf, pending_updates_>> /\ Updates' = Updates
        /\ conn' = [ConnAfter(OwnerOf(peerOf[u])) EXCEPT ![u] = "connecting"]
        /\ storing # 0
    BY <1>12, <2>1 DEF StoreClient, Updates
  <2>3. ASSUME NEW d \in Updates, d # u, conn'[d] = "connecting"
        PROVE  conn[d] = "connecting" /\ peerOf[d] # peerOf[u]
    <3>1. ConnAfter(OwnerOf(peerOf[u]))[d] = "connecting"
      BY <1>5, <2>2, <2>3, ConnectionsAfter
    <3>2. conn[d] = "connecting" /\ d \notin OwnerOf(peerOf[u])
      BY <1>4, <1>5, <3>1
    <3> QED BY <1>6, <3>2
  <2> QED BY <1>3, <2>1, <2>2, <2>3 DEF CacheInStep
<1>13. ASSUME NEW c \in Updates, OnConnectionUp(c)
       PROVE  CacheInStep'
  <2>1. /\ storing = 0 /\ conn[c] = "connecting"
        /\ UNCHANGED <<peerOf, storing>> /\ Updates' = Updates
        /\ \A d \in Updates : conn'[d] = "connecting" => conn[d] = "connecting" /\ d # c
        /\ \A p \in DOMAIN pending_updates_ : p # peerOf[c] =>
             p \in DOMAIN pending_updates_' /\ pending_updates_'[p] = pending_updates_[p]
    BY <1>1, <1>13 DEF OnConnectionUp, Updates, Erase, Restrict
  <2>2. \A d \in Updates : conn[d] = "connecting" /\ d # c => peerOf[d] # peerOf[c]
    BY <1>6, <2>1
  <2> QED BY <1>3, <2>1, <2>2 DEF CacheInStep
<1>14. CASE UNCHANGED vars
  BY <1>3, <1>14 DEF vars, Updates
<1>15. ASSUME Stop PROVE FALSE
  BY <1>2, <1>15 DEF Stop
<1> QED BY <1>7, <1>8, <1>9, <1>10, <1>11, <1>12, <1>13, <1>14, <1>15
        DEF CacheInStep, Next, RunFunctor, PeerCloses

(* A client that comes up before any Stop sends the very update it was     *)
(* made for (SendUpdateToNode caches it first, OnConnection takes it).     *)
THEOREM UpAlwaysSendsOwnUpdate == Spec => UpSendsOwnUpdate
<1>1. Init => CacheInStep
  BY DEF Init, CacheInStep, Updates
<1>2. IndInv /\ CacheInStep /\ [Next]_vars => CacheInStep'
  BY CacheStaysInStep
<1>3. ASSUME IndInv, CacheInStep, NEW c \in Updates, stops = 0, OnConnectionUp(c)
      PROVE  c \in Range(sent'[peerOf[c]])
  <2>1. /\ peerOf[c] \in DOMAIN pending_updates_ /\ pending_updates_[peerOf[c]] = c
        /\ peerOf[c] \in Peers
    BY <1>3 DEF CacheInStep, OnConnectionUp, IndInv, Typed, TypeOK, IsMap
  <2>2. sent[peerOf[c]] \in Seq(Updates) /\ sent'[peerOf[c]] = Append(sent[peerOf[c]], c)
    BY <1>3, <2>1 DEF OnConnectionUp, IndInv, Typed, TypeOK
  <2>3. /\ Append(sent[peerOf[c]], c) \in Seq(Updates)
        /\ Len(sent[peerOf[c]]) + 1 \in 1..Len(Append(sent[peerOf[c]], c))
        /\ Append(sent[peerOf[c]], c)[Len(sent[peerOf[c]]) + 1] = c
    BY <2>2, AppendProperties, LenProperties
  <2> QED BY <2>2, <2>3, RangeEquality
<1>4. IndInv /\ CacheInStep /\ [Next]_vars
        => [\A c \in Updates :
              (stops = 0 /\ OnConnectionUp(c)) => c \in Range(sent'[peerOf[c]])]_vars
  BY <1>3
<1> QED BY <1>1, <1>2, <1>4, Inductive, PTL DEF Spec, UpSendsOwnUpdate

-----------------------------------------------------------------------------
(* The promise of the outbox follows from its actions. *)

(* What waits is the newest update accepted and newer than all that was    *)
(* sent.                                                                   *)
WaitingIsNewest ==
  \A p \in Peers :
    /\ WaitingFor[p] \in {0, NewestFor[p]}
    /\ \A i \in 1..Len(sent[p]) :
         /\ sent[p][i] <= NewestFor[p]
         /\ WaitingFor[p] # 0 => sent[p][i] < WaitingFor[p]

OutboxInv == Outbox!TypeOK /\ WaitingIsNewest /\ Outbox!SentInOrder

(* The parts of a peer are numbers. *)
LEMMA OutboxNumbers ==
  ASSUME Outbox!TypeOK, NEW p \in Peers
  PROVE  /\ WaitingFor[p] \in Nat /\ NewestFor[p] \in Nat
         /\ sent[p] \in Seq(1..MaxUpdates)
         /\ \A i \in 1..Len(sent[p]) : sent[p][i] \in 1..MaxUpdates /\ sent[p][i] \in Nat
<1>1. WaitingFor[p] \in 1..MaxUpdates \cup {0} /\ NewestFor[p] \in 1..MaxUpdates \cup {0}
  BY DEF Outbox!TypeOK
<1>2. sent[p] \in Seq(1..MaxUpdates)
  BY DEF Outbox!TypeOK
<1>3. \A i \in 1..Len(sent[p]) : sent[p][i] \in 1..MaxUpdates
  BY <1>2, ElementOfSeq
<1>4. \A u \in 1..MaxUpdates : u \in Nat
  OBVIOUS
<1>5. WaitingFor[p] \in Nat /\ NewestFor[p] \in Nat
  <2>1. 0 \in Nat
    OBVIOUS
  <2> QED BY <1>1, <1>4, <2>1, Zenon
<1> QED BY <1>2, <1>3, <1>4, <1>5

(* What is accepted is newer than all there was. *)
LEMMA OutboxAccepts ==
  ASSUME OutboxInv, NEW p \in Peers, NEW u \in 1..MaxUpdates, Outbox!Accept(p, u)
  PROVE  OutboxInv'
<1>1. Outbox!TypeOK'
  BY DEF OutboxInv, Outbox!TypeOK, Outbox!Accept
<1>2. WaitingIsNewest'
  <2> SUFFICES ASSUME NEW q \in Peers
               PROVE  (/\ WaitingFor[q] \in {0, NewestFor[q]}
                       /\ \A i \in 1..Len(sent[q]) :
                            /\ sent[q][i] <= NewestFor[q]
                            /\ WaitingFor[q] # 0 => sent[q][i] < WaitingFor[q])'
    BY DEF WaitingIsNewest
  <2>1. sent' = sent /\ sent[q] \in Seq(1..MaxUpdates) /\ NewestFor[q] \in Nat
    BY OutboxNumbers DEF OutboxInv, Outbox!Accept
  <2>2. CASE q = p
    <3>1. NewestFor'[q] = u /\ WaitingFor'[q] = u /\ u > NewestFor[q]
      BY <2>2 DEF OutboxInv, Outbox!TypeOK, Outbox!Accept
    <3>2. ASSUME NEW i \in 1..Len(sent[q])
          PROVE  sent[q][i] <= NewestFor[q] /\ sent[q][i] \in Nat
      BY OutboxNumbers DEF OutboxInv, WaitingIsNewest
    <3> QED BY <2>1, <3>1, <3>2
  <2>3. CASE q # p
    <3>1. NewestFor'[q] = NewestFor[q] /\ WaitingFor'[q] = WaitingFor[q]
      BY <2>3 DEF OutboxInv, Outbox!TypeOK, Outbox!Accept
    <3> QED BY <2>1, <3>1 DEF OutboxInv, WaitingIsNewest
  <2> QED BY <2>2, <2>3
<1>3. Outbox!SentInOrder'
  BY DEF OutboxInv, Outbox!SentInOrder, Outbox!Accept
<1> QED BY <1>1, <1>2, <1>3 DEF OutboxInv

(* What is sent is newer than all that was sent before. *)
LEMMA OutboxSends ==
  ASSUME OutboxInv, NEW p \in Peers, Outbox!Send(p)
  PROVE  OutboxInv'
<1> DEFINE u == WaitingFor[p]
<1>1. u \in 1..MaxUpdates /\ u = NewestFor[p] /\ u \in Nat
  BY DEF OutboxInv, Outbox!TypeOK, WaitingIsNewest, Outbox!Send
<1>2. sent'[p] = Append(sent[p], u) /\ \A q \in Peers \ {p} : sent'[q] = sent[q]
  BY DEF OutboxInv, Outbox!TypeOK, Outbox!Send
<1>3. /\ NewestFor' = NewestFor
      /\ WaitingFor'[p] = 0
      /\ \A q \in Peers \ {p} : WaitingFor'[q] = WaitingFor[q]
  BY DEF OutboxInv, Outbox!TypeOK, Outbox!Send
<1>4. Outbox!TypeOK'
  BY <1>1 DEF OutboxInv, Outbox!TypeOK, Outbox!Send
<1>5. \A q \in Peers : sent[q] \in Seq(1..MaxUpdates)
  BY DEF OutboxInv, Outbox!TypeOK
<1>6. /\ Len(sent'[p]) = Len(sent[p]) + 1
      /\ sent'[p][Len(sent[p]) + 1] = u
      /\ \A i \in 1..Len(sent[p]) : sent'[p][i] = sent[p][i]
      /\ Len(sent[p]) \in Nat
  BY <1>1, <1>2, <1>5
<1>7. \A i \in 1..Len(sent[p]) : sent[p][i] < u /\ sent[p][i] \in Nat
  BY OutboxNumbers DEF OutboxInv, WaitingIsNewest, Outbox!Send
<1>8. WaitingIsNewest'
  <2> SUFFICES ASSUME NEW q \in Peers
               PROVE  (/\ WaitingFor[q] \in {0, NewestFor[q]}
                       /\ \A i \in 1..Len(sent[q]) :
                            /\ sent[q][i] <= NewestFor[q]
                            /\ WaitingFor[q] # 0 => sent[q][i] < WaitingFor[q])'
    BY DEF WaitingIsNewest
  <2>1. CASE q = p
    <3>1. ASSUME NEW i \in 1..Len(sent'[p])
          PROVE  sent'[p][i] <= u
      <4>1. i \in 1..Len(sent[p]) \/ i = Len(sent[p]) + 1
        BY <1>6
      <4> QED BY <1>1, <1>6, <1>7, <4>1
    <3> QED BY <1>1, <1>3, <2>1, <3>1
  <2>2. CASE q # p
    BY <1>2, <1>3, <2>2 DEF OutboxInv, WaitingIsNewest
  <2> QED BY <2>1, <2>2
<1>9. Outbox!SentInOrder'
  <2> SUFFICES ASSUME NEW q \in Peers,
                      NEW i \in 1..Len(sent'[q]), NEW j \in 1..Len(sent'[q]), i < j
               PROVE  sent'[q][i] < sent'[q][j]
    BY DEF Outbox!SentInOrder
  <2>1. CASE q = p
    <3>1. i \in 1..Len(sent[p]) /\ (j \in 1..Len(sent[p]) \/ j = Len(sent[p]) + 1)
      BY <1>6, <2>1
    <3> QED BY <1>6, <1>7, <2>1, <3>1 DEF OutboxInv, Outbox!SentInOrder
  <2>2. CASE q # p
    BY <1>2, <2>2 DEF OutboxInv, Outbox!SentInOrder
  <2> QED BY <2>1, <2>2
<1> QED BY <1>4, <1>8, <1>9 DEF OutboxInv

(* A stop sends nothing. *)
LEMMA OutboxStops ==
  ASSUME OutboxInv, Outbox!Stop
  PROVE  OutboxInv'
<1>1. Outbox!TypeOK' /\ Outbox!SentInOrder'
  BY DEF OutboxInv, Outbox!TypeOK, Outbox!SentInOrder, Outbox!Stop
<1>2. WaitingIsNewest'
  BY DEF OutboxInv, WaitingIsNewest, Outbox!Stop
<1> QED BY <1>1, <1>2 DEF OutboxInv

(* What the outbox promises holds of the server: the updates of a peer go  *)
(* out in the order they were posted, each at most once (the cache is      *)
(* emptied when it is sent, master_tcp_server.cpp:113).                    *)
THEOREM AlwaysSentInOrder == Spec => []Outbox!SentInOrder
<1>1. Outbox!Init => OutboxInv
  BY DEF Outbox!Init, OutboxInv, Outbox!TypeOK, WaitingIsNewest, Outbox!SentInOrder
<1>2. OutboxInv /\ [Outbox!Next]_(Outbox!vars) => OutboxInv'
  <2> SUFFICES ASSUME OutboxInv, [Outbox!Next]_(Outbox!vars) PROVE OutboxInv'
    OBVIOUS
  <2>1. CASE UNCHANGED Outbox!vars
    BY <2>1 DEF Outbox!vars, OutboxInv, Outbox!TypeOK, WaitingIsNewest, Outbox!SentInOrder
  <2> QED BY <2>1, OutboxAccepts, OutboxSends, OutboxStops DEF Outbox!Next
<1>3. OutboxInv => Outbox!SentInOrder
  BY DEF OutboxInv
<1> QED BY <1>1, <1>2, <1>3, ImplementsTheOutbox, PTL DEF ImplementsOutbox, Outbox!Spec
=============================================================================
