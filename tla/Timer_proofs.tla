---------------------------- MODULE Timer_proofs ----------------------------
(***************************************************************************)
(* Proofs about the Timer, for any number of starts: it is well typed, a   *)
(* running Timer is armed, and no timer strays unnoticed, whatever         *)
(* operations, callbacks and functors of whichever thread came in whatever *)
(* order.                                                                  *)
(***************************************************************************)
EXTENDS Timer, SequenceTheorems, TLAPS

Kinds == {"add", "cancel"}

Holds(q, what, id) == \E i \in 1..Len(q) : q[i] = <<what, id>>

(* A record of the loop whose timers are among the first n. *)
LoopUpTo(n) == [active : SUBSET (1..n), canceling : SUBSET (1..n),
                functors : Seq(Kinds \X (1..n))]

-----------------------------------------------------------------------------
(* What a queue holds after queueInLoop, and after its head was taken.     *)

LEMMA HoldsAfterAppend ==
  ASSUME NEW S, NEW q \in Seq(S), NEW f \in S
  PROVE  /\ Append(q, f) \in Seq(S)
         /\ \A what, id : Holds(Append(q, f), what, id)
                            <=> Holds(q, what, id) \/ f = <<what, id>>
<1>1. /\ Append(q, f) \in Seq(S) /\ Len(Append(q, f)) = Len(q) + 1
      /\ \A i \in 1..Len(q) : Append(q, f)[i] = q[i]
      /\ Append(q, f)[Len(q) + 1] = f
      /\ Len(q) \in Nat
  BY AppendProperties, LenProperties
<1> DEFINE r == Append(q, f)
<1> HIDE DEF r
<1>2. 1..Len(r) = 1..Len(q) \cup {Len(q) + 1}
  BY <1>1 DEF r
<1>3. \A what, id : Holds(r, what, id) <=> Holds(q, what, id) \/ f = <<what, id>>
  BY <1>1, <1>2 DEF Holds, r
<1> QED BY <1>1, <1>3 DEF r

LEMMA HoldsBeforeTail ==
  ASSUME NEW S, NEW q \in Seq(S), q # <<>>
  PROVE  /\ Tail(q) \in Seq(S) /\ Head(q) \in S
         /\ \A what, id : Holds(q, what, id)
                            <=> Holds(Tail(q), what, id) \/ Head(q) = <<what, id>>
<1> DEFINE r == Tail(q)
<1>1. /\ r \in Seq(S) /\ Head(q) \in S /\ Head(q) = q[1]
      /\ Len(r) = Len(q) - 1
      /\ \A i \in 1..Len(r) : r[i] = q[i + 1]
      /\ Len(q) \in Nat \ {0}
  BY HeadTailProperties, EmptySeq
<1> HIDE DEF r
<1>2. ASSUME NEW what, NEW id, Holds(r, what, id) PROVE Holds(q, what, id)
  <2>1. PICK i \in 1..Len(r) : r[i] = <<what, id>>
    BY <1>2 DEF Holds
  <2>2. i + 1 \in 1..Len(q) /\ q[i + 1] = <<what, id>>
    BY <1>1, <2>1
  <2> QED BY <2>2 DEF Holds
<1>3. ASSUME NEW what, NEW id, Head(q) = <<what, id>> PROVE Holds(q, what, id)
  BY <1>1, <1>3 DEF Holds
<1>4. ASSUME NEW what, NEW id, Holds(q, what, id)
      PROVE  Holds(r, what, id) \/ Head(q) = <<what, id>>
  <2>1. PICK i \in 1..Len(q) : q[i] = <<what, id>>
    BY <1>4 DEF Holds
  <2>2. CASE i = 1
    BY <1>1, <2>1, <2>2
  <2>3. CASE i # 1
    <3>1. i - 1 \in 1..Len(r) /\ r[i - 1] = <<what, id>>
      BY <1>1, <2>1, <2>3, SMTT(30)
    <3> QED BY <3>1 DEF Holds
  <2> QED BY <2>2, <2>3
<1> QED BY <1>1, <1>2, <1>3, <1>4 DEF r

-----------------------------------------------------------------------------
(* The inductive invariant. *)

Typed == /\ isRunning_ \in BOOLEAN /\ isPaused_ \in BOOLEAN /\ isOneShot_ \in BOOLEAN
         /\ strayed \in BOOLEAN
         /\ ~(isRunning_ /\ isPaused_)
         /\ timerId_ \in 0..MaxTimers
         /\ repeating \subseteq 1..timerId_
         /\ batch \subseteq 1..timerId_ /\ pending \subseteq batch
         /\ calling \in {0} \cup (batch \ pending)
         /\ Loop \in LoopUpTo(timerId_)

(* A running Timer's timer is not to be cancelled; it repeats if it should; *)
(* and it is armed, about to be, or taken out by the expiry and not         *)
(* cancelled, to be armed again if its callback is over.                    *)
Armed == isRunning_ =>
           /\ timerId_ # 0
           /\ isOneShot_ \/ timerId_ \in repeating
           /\ ~Holds(functors, "cancel", timerId_)
           /\ \/ timerId_ \in active
              \/ Holds(functors, "add", timerId_)
              \/ /\ timerId_ \in batch \ canceling
                 /\ timerId_ \in repeating \cup pending \cup {calling}

IndInv == Typed /\ Armed

-----------------------------------------------------------------------------
(* A new timer is armed, or queued to be, and nothing is to cancel it. *)
LEMMA ArmArms ==
  ASSUME Typed, NEW l \in LoopUpTo(timerId_), NEW thread \in Threads,
         NEW oneshot \in BOOLEAN, Arm(l, thread, oneshot)
  PROVE  /\ timerId_' \in 0..MaxTimers /\ timerId_' # 0 /\ timerId_' = timerId_ + 1
         /\ repeating' \subseteq 1..timerId_' /\ (oneshot \/ timerId_' \in repeating')
         /\ Loop' \in LoopUpTo(timerId_')
         /\ ~Holds(functors', "cancel", timerId_')
         /\ timerId_' \in active' \/ Holds(functors', "add", timerId_')
<1> DEFINE n == timerId_ + 1
<1>1. /\ timerId_ \in Nat /\ timerId_ < MaxTimers /\ MaxTimers \in Nat /\ timerId_' = n
      /\ repeating' = IF oneshot THEN repeating ELSE repeating \cup {n}
      /\ repeating \subseteq 1..timerId_
      /\ active' = Add(l, thread, n).active
      /\ canceling' = Add(l, thread, n).canceling
      /\ functors' = Add(l, thread, n).functors
  BY MaxTimersAssumption DEF MaxTimersAssumption, Typed, Arm, Becomes
<1>2. /\ l = [active |-> l.active, canceling |-> l.canceling, functors |-> l.functors]
      /\ l.active \subseteq 1..timerId_ /\ l.canceling \subseteq 1..timerId_
      /\ l.functors \in Seq(Kinds \X (1..timerId_))
  BY DEF LoopUpTo
<1>3. /\ 1..timerId_ \subseteq 1..n /\ n \in 1..n /\ n \notin 1..timerId_
      /\ Kinds \X (1..timerId_) \subseteq Kinds \X (1..n)
  BY <1>1
<1>4. l.functors \in Seq(Kinds \X (1..n))
  BY <1>2, <1>3, SeqMonotonic
<1>5. \A what : ~Holds(l.functors, what, n)
  <2>1. \A i \in 1..Len(l.functors) : l.functors[i] \in Kinds \X (1..timerId_)
    BY <1>2, ElementOfSeq
  <2> QED BY <1>3, <2>1 DEF Holds
<1>6. /\ timerId_' \in 0..MaxTimers /\ timerId_' # 0
      /\ repeating' \subseteq 1..n /\ (oneshot \/ n \in repeating')
  BY <1>1, <1>3
<1> HIDE DEF n
<1>7. CASE thread = "loop"
  <2>1. active' = l.active \cup {n} /\ canceling' = l.canceling /\ functors' = l.functors
    BY <1>1, <1>2, <1>7 DEF Add
  <2>2. Loop' \in LoopUpTo(n)
    BY <1>2, <1>3, <1>4, <2>1 DEF Loop, LoopUpTo
  <2> QED BY <1>1, <1>5, <1>6, <2>1, <2>2 DEF n
<1>8. CASE thread = "other"
  <2>1. /\ active' = l.active /\ canceling' = l.canceling
        /\ functors' = Append(l.functors, <<"add", n>>)
    BY <1>1, <1>2, <1>8 DEF Add
  <2>2. <<"add", n>> \in Kinds \X (1..n)
    BY <1>3 DEF Kinds
  <2>3. /\ functors' \in Seq(Kinds \X (1..n))
        /\ \A what, id : Holds(functors', what, id)
                           <=> Holds(l.functors, what, id) \/ <<"add", n>> = <<what, id>>
    BY <1>4, <2>1, <2>2, HoldsAfterAppend
  <2>4. ~Holds(functors', "cancel", n) /\ Holds(functors', "add", n)
    BY <1>5, <2>3
  <2>5. Loop' \in LoopUpTo(n)
    BY <1>2, <1>3, <2>1, <2>3 DEF Loop, LoopUpTo
  <2> QED BY <1>1, <1>6, <2>4, <2>5 DEF n
<1> QED BY <1>7, <1>8 DEF Threads

(* Cancelling leaves a loop of the same timers. *)
LEMMA CancelTyped ==
  ASSUME Typed, timerId_ # 0, NEW thread \in Threads
  PROVE  Cancel(Loop, thread, timerId_) \in LoopUpTo(timerId_)
<1> DEFINE n == timerId_
<1>1. n \in 1..n /\ Loop \in LoopUpTo(n)
  BY DEF Typed
<1>2. /\ active \subseteq 1..n /\ canceling \subseteq 1..n
      /\ functors \in Seq(Kinds \X (1..n))
  BY <1>1 DEF Loop, LoopUpTo
<1>3. <<"cancel", n>> \in Kinds \X (1..n)
  BY <1>1 DEF Kinds
<1>4. Append(functors, <<"cancel", n>>) \in Seq(Kinds \X (1..n))
  BY <1>2, <1>3, AppendProperties
<1>5. /\ [Loop EXCEPT !.active = @ \ {n}] \in LoopUpTo(n)
      /\ [Loop EXCEPT !.canceling = @ \cup {n}] \in LoopUpTo(n)
      /\ [Loop EXCEPT !.functors = Append(@, <<"cancel", n>>)] \in LoopUpTo(n)
  BY <1>1, <1>2, <1>4 DEF Loop, LoopUpTo
<1> QED BY <1>1, <1>5 DEF Cancel, CancelInLoop

LEMMA InitInvariant == Init => IndInv
<1> SUFFICES ASSUME Init PROVE IndInv
  OBVIOUS
<1>1. functors \in Seq(Kinds \X (1..0))
  BY EmptySeq DEF Init
<1>2. Loop \in LoopUpTo(timerId_)
  BY <1>1 DEF Init, Loop, LoopUpTo
<1>3. /\ timerId_ \in 0..MaxTimers /\ repeating \subseteq 1..timerId_
      /\ batch \subseteq 1..timerId_ /\ pending \subseteq batch
      /\ calling \in {0} \cup (batch \ pending)
  <2>1. /\ MaxTimers \in Nat /\ timerId_ = 0 /\ calling = 0 /\ repeating = {}
        /\ batch = {} /\ pending = {}
    BY MaxTimersAssumption DEF MaxTimersAssumption, Init
  <2> QED BY <2>1
<1>4. /\ isRunning_ = FALSE /\ isPaused_ \in BOOLEAN /\ isOneShot_ \in BOOLEAN
      /\ strayed \in BOOLEAN
  BY DEF Init
<1>5. Typed
  BY <1>2, <1>3, <1>4 DEF Typed
<1> QED BY <1>4, <1>5 DEF IndInv, Armed

(* An operation that arms a new timer, after cancelling or not. *)
LEMMA ArmPreserves ==
  ASSUME IndInv, NEW l \in LoopUpTo(timerId_), NEW thread \in Threads,
         Arm(l, thread, isOneShot_'), isOneShot_' \in BOOLEAN, isPaused_' \in BOOLEAN,
         isRunning_' = TRUE, ~isPaused_', UNCHANGED expiry, strayed' \in BOOLEAN
  PROVE  IndInv'
<1>1. /\ timerId_' \in 0..MaxTimers /\ timerId_' # 0 /\ timerId_' = timerId_ + 1
      /\ repeating' \subseteq 1..timerId_' /\ (isOneShot_' \/ timerId_' \in repeating')
      /\ Loop' \in LoopUpTo(timerId_')
      /\ ~Holds(functors', "cancel", timerId_')
      /\ timerId_' \in active' \/ Holds(functors', "add", timerId_')
  BY ArmArms DEF IndInv
<1>2. /\ batch' \subseteq 1..timerId_' /\ pending' \subseteq batch'
      /\ calling' \in {0} \cup (batch' \ pending')
  <2>1. /\ batch \subseteq 1..timerId_ /\ pending \subseteq batch
        /\ calling \in {0} \cup (batch \ pending) /\ timerId_ \in Nat
    BY DEF IndInv, Typed
  <2>2. 1..timerId_ \subseteq 1..timerId_'
    BY <1>1, <2>1
  <2> QED BY <2>1, <2>2 DEF expiry
<1>3. Typed'
  BY <1>1, <1>2 DEF Typed
<1>4. Armed'
  BY <1>1 DEF Armed
<1> QED BY <1>3, <1>4 DEF IndInv

(* An operation that stops the Timer, its timer cancelled or not running.  *)
LEMMA StopPreserves ==
  ASSUME IndInv, NEW l \in LoopUpTo(timerId_), Becomes(l) \/ UNCHANGED loop,
         isRunning_' = FALSE, isPaused_' \in BOOLEAN, isOneShot_' \in BOOLEAN,
         strayed' \in BOOLEAN, UNCHANGED <<timerId_, repeating, expiry>>
  PROVE  IndInv'
<1>1. Loop' \in LoopUpTo(timerId_')
  <2>1. CASE Becomes(l)
    BY <2>1 DEF Becomes, Loop, LoopUpTo
  <2>2. CASE UNCHANGED loop
    BY <2>2 DEF loop, Loop, IndInv, Typed
  <2> QED BY <2>1, <2>2
<1>2. Typed'
  BY <1>1 DEF IndInv, Typed, expiry
<1>3. Armed'
  BY DEF Armed
<1> QED BY <1>2, <1>3 DEF IndInv

LEMMA OperationPreserves ==
  ASSUME IndInv, Operation
  PROVE  IndInv'
<1>1. PICK thread \in Threads : \/ Start(thread)
                                \/ Stop(thread)
                                \/ Pause(thread)
                                \/ Resume(thread)
                                \/ \E oneshot \in BOOLEAN : SetOneShot(thread, oneshot)
                                \/ SetPeriod(thread)
  BY DEF Operation
<1>2. Loop \in LoopUpTo(timerId_)
  BY DEF IndInv, Typed
<1>3. isRunning_ => Cancel(Loop, thread, timerId_) \in LoopUpTo(timerId_)
  BY CancelTyped DEF IndInv, Armed
<1>4. /\ isRunning_ \in BOOLEAN /\ isPaused_ \in BOOLEAN /\ isOneShot_ \in BOOLEAN
      /\ strayed \in BOOLEAN /\ (isRunning_ => ~isPaused_)
      /\ (strayed \/ TooEarly(thread)) \in BOOLEAN
  BY DEF IndInv, Typed
<1>5. CASE Start(thread)
  <2>1. /\ Arm(Loop, thread, isOneShot_') /\ isRunning_' = TRUE /\ ~isPaused_'
        /\ isOneShot_' \in BOOLEAN /\ isPaused_' \in BOOLEAN
        /\ UNCHANGED expiry /\ strayed' \in BOOLEAN
    BY <1>4, <1>5 DEF Start
  <2> QED BY <1>2, <2>1, ArmPreserves
<1>6. CASE Stop(thread)
  <2>1. /\ isRunning_' = FALSE /\ isPaused_' \in BOOLEAN /\ isOneShot_' \in BOOLEAN
        /\ strayed' \in BOOLEAN /\ UNCHANGED <<timerId_, repeating, expiry>>
    BY <1>4, <1>6 DEF Stop
  <2>2. CASE isRunning_
    <3>1. Becomes(Cancel(Loop, thread, timerId_))
      BY <1>6, <2>2 DEF Stop
    <3> QED BY <1>3, <2>1, <2>2, <3>1, StopPreserves
  <2>3. CASE ~isRunning_
    <3>1. UNCHANGED loop
      BY <1>6, <2>3 DEF Stop
    <3> QED BY <1>2, <2>1, <3>1, StopPreserves
  <2> QED BY <2>2, <2>3
<1>7. CASE Pause(thread)
  <2>1. /\ isRunning_' = FALSE /\ isPaused_' \in BOOLEAN /\ isOneShot_' \in BOOLEAN
        /\ strayed' \in BOOLEAN /\ UNCHANGED <<timerId_, repeating, expiry>>
    BY <1>4, <1>7 DEF Pause
  <2>2. isRunning_ /\ Becomes(Cancel(Loop, thread, timerId_))
    BY <1>7 DEF Pause
  <2> QED BY <1>3, <2>1, <2>2, StopPreserves
<1>8. CASE Resume(thread)
  <2>1. /\ Arm(Loop, thread, isOneShot_') /\ isRunning_' = TRUE /\ ~isPaused_'
        /\ isOneShot_' \in BOOLEAN /\ isPaused_' \in BOOLEAN
        /\ UNCHANGED expiry /\ strayed' \in BOOLEAN
    BY <1>4, <1>8 DEF Resume, flags
  <2> QED BY <1>2, <2>1, ArmPreserves
<1>9. ASSUME NEW oneshot \in BOOLEAN, SetOneShot(thread, oneshot)
      PROVE  IndInv'
  <2>1. /\ isOneShot_' = oneshot /\ isOneShot_' \in BOOLEAN
        /\ isRunning_' = isRunning_ /\ isPaused_' = isPaused_
        /\ UNCHANGED expiry /\ strayed' \in BOOLEAN
    BY <1>4, <1>9 DEF SetOneShot
  <2>2. CASE isRunning_
    <3>1. Arm(Cancel(Loop, thread, timerId_), thread, isOneShot_')
      BY <1>9, <2>1, <2>2 DEF SetOneShot, Restarted
    <3>2. isRunning_' = TRUE /\ ~isPaused_' /\ isPaused_' \in BOOLEAN
      BY <1>4, <2>1, <2>2
    <3> QED BY <1>3, <2>1, <2>2, <3>1, <3>2, ArmPreserves
  <2>3. CASE ~isRunning_
    <3>1. UNCHANGED loop /\ UNCHANGED <<timerId_, repeating, expiry>>
      BY <1>9, <2>3 DEF SetOneShot
    <3>2. isRunning_' = FALSE /\ isPaused_' \in BOOLEAN
      BY <1>4, <2>1, <2>3
    <3> QED BY <1>2, <2>1, <3>1, <3>2, StopPreserves
  <2> QED BY <2>2, <2>3
<1>10. CASE SetPeriod(thread)
  <2>1. /\ isOneShot_' = isOneShot_ /\ isRunning_' = isRunning_ /\ isPaused_' = isPaused_
        /\ UNCHANGED expiry /\ strayed' \in BOOLEAN
    BY <1>4, <1>10 DEF SetPeriod, flags
  <2>2. CASE isRunning_
    <3>1. Arm(Cancel(Loop, thread, timerId_), thread, isOneShot_')
      BY <1>10, <2>1, <2>2 DEF SetPeriod, Restarted
    <3>2. /\ isRunning_' = TRUE /\ ~isPaused_' /\ isPaused_' \in BOOLEAN
          /\ isOneShot_' \in BOOLEAN
      BY <1>4, <2>1, <2>2
    <3> QED BY <1>3, <2>1, <2>2, <3>1, <3>2, ArmPreserves
  <2>3. CASE ~isRunning_
    <3>1. UNCHANGED loop /\ UNCHANGED <<timerId_, repeating, expiry>>
      BY <1>10, <2>3 DEF SetPeriod
    <3>2. isRunning_' = FALSE /\ isPaused_' \in BOOLEAN /\ isOneShot_' \in BOOLEAN
      BY <1>4, <2>1, <2>3
    <3> QED BY <1>2, <2>1, <3>1, <3>2, StopPreserves
  <2> QED BY <2>2, <2>3
<1> QED BY <1>1, <1>5, <1>6, <1>7, <1>8, <1>9, <1>10

-----------------------------------------------------------------------------
(* The loop's thread. *)

(* Timers that are due leave the armed ones for the batch. *)
LEMMA ExpirePreserves ==
  ASSUME IndInv, NEW due \in SUBSET active, Expire(due)
  PROVE  IndInv'
<1>1. /\ active' = active \ due /\ batch' = due /\ pending' = due
      /\ batch = {} /\ calling' = calling /\ canceling' = {} /\ functors' = functors
      /\ UNCHANGED <<isRunning_, isPaused_, isOneShot_, timerId_, repeating, strayed>>
  BY DEF Expire, flags
<1>2. /\ active \subseteq 1..timerId_ /\ functors \in Seq(Kinds \X (1..timerId_))
  BY DEF IndInv, Typed, Loop, LoopUpTo
<1>3. Loop' \in LoopUpTo(timerId_')
  BY <1>1, <1>2 DEF Loop, LoopUpTo
<1>4. calling' = 0
  BY <1>1 DEF IndInv, Typed
<1>5. Typed'
  BY <1>1, <1>2, <1>3, <1>4 DEF IndInv, Typed
<1>6. Armed'
  BY <1>1 DEF IndInv, Armed, Holds
<1> QED BY <1>5, <1>6 DEF IndInv

(* One of the batch is called. *)
LEMMA CallbackBeginsPreserves ==
  ASSUME IndInv, NEW id \in Timers, CallbackBegins(id)
  PROVE  IndInv'
<1>1. /\ calling = 0 /\ id \in pending /\ pending' = pending \ {id} /\ calling' = id
      /\ UNCHANGED <<isRunning_, isPaused_, isOneShot_, timerId_, repeating, strayed,
                     active, canceling, functors, batch>>
  BY DEF CallbackBegins, flags, loop
<1>2. Loop' = Loop
  BY <1>1 DEF Loop
<1>3. Typed'
  BY <1>1, <1>2 DEF IndInv, Typed
<1>4. Armed'
  BY <1>1 DEF IndInv, Armed, Holds
<1> QED BY <1>3, <1>4 DEF IndInv

(* After its callback a one-shot Timer is stopped. *)
LEMMA CallbackEndsPreserves ==
  ASSUME IndInv, CallbackEnds
  PROVE  IndInv'
<1>1. /\ calling' = 0
      /\ UNCHANGED <<isPaused_, isOneShot_, timerId_, repeating, active, canceling,
                     functors, batch, pending>>
  BY DEF CallbackEnds, loop
<1>2. isRunning_' \in BOOLEAN /\ strayed' \in BOOLEAN /\ (isRunning_' => isRunning_ /\ ~isOneShot_)
  BY DEF CallbackEnds, IndInv, Typed
<1>3. Loop' = Loop
  BY <1>1 DEF Loop
<1>4. isPaused_' \in BOOLEAN /\ isOneShot_' \in BOOLEAN /\ ~(isRunning_' /\ isPaused_')
  BY <1>1, <1>2 DEF IndInv, Typed
<1>5. Typed'
  BY <1>1, <1>2, <1>3, <1>4 DEF IndInv, Typed
<1>6. Armed'
  BY <1>1, <1>2 DEF IndInv, Armed, Holds
<1> QED BY <1>5, <1>6 DEF IndInv

(* The repeating timers of the batch are armed again, unless they were     *)
(* cancelled under way.                                                    *)
LEMMA RearmPreserves ==
  ASSUME IndInv, Rearm
  PROVE  IndInv'
<1>1. /\ pending = {} /\ calling = 0
      /\ active' = active \cup ((batch \cap repeating) \ canceling)
      /\ batch' = {} /\ pending' = {} /\ calling' = 0 /\ canceling' = {}
      /\ UNCHANGED <<isRunning_, isPaused_, isOneShot_, timerId_, repeating, functors, strayed>>
  BY DEF Rearm, flags
<1>2. /\ active \subseteq 1..timerId_ /\ functors \in Seq(Kinds \X (1..timerId_))
      /\ repeating \subseteq 1..timerId_
  BY DEF IndInv, Typed, Loop, LoopUpTo
<1>3. Loop' \in LoopUpTo(timerId_')
  BY <1>1, <1>2 DEF Loop, LoopUpTo
<1>4. Typed'
  BY <1>1, <1>3 DEF IndInv, Typed
<1>5. Armed'
  <2> SUFFICES ASSUME isRunning_
               PROVE  /\ timerId_ # 0
                      /\ isOneShot_ \/ timerId_ \in repeating
                      /\ ~Holds(functors, "cancel", timerId_)
                      /\ timerId_ \in active' \/ Holds(functors, "add", timerId_)
    BY <1>1 DEF Armed, Holds
  <2> QED BY <1>1 DEF IndInv, Armed
<1> QED BY <1>4, <1>5 DEF IndInv

(* A functor of another thread arms its timer or takes it from the armed   *)
(* ones; outside an expiry no cancellation is remembered.                  *)
LEMMA RunFunctorStep ==
  ASSUME IndInv, RunFunctor
  PROVE  \E what \in Kinds, id \in 1..timerId_ :
           /\ Head(functors) = <<what, id>>
           /\ functors' = Tail(functors) /\ canceling' = canceling
           /\ active' = IF what = "add" THEN active \cup {id} ELSE active \ {id}
<1> DEFINE q == Tail(functors)
<1>1. /\ batch = {} /\ functors # <<>>
      /\ UNCHANGED <<isRunning_, isPaused_, isOneShot_, timerId_, repeating, batch, pending,
                     calling, strayed>>
  BY DEF RunFunctor, flags, expiry
<1>2. /\ active \subseteq 1..timerId_ /\ canceling \subseteq 1..timerId_
      /\ functors \in Seq(Kinds \X (1..timerId_))
  BY DEF IndInv, Typed, Loop, LoopUpTo
<1>3. /\ q \in Seq(Kinds \X (1..timerId_)) /\ Head(functors) \in Kinds \X (1..timerId_)
      /\ \A what, id : Holds(functors, what, id)
                         <=> Holds(q, what, id) \/ Head(functors) = <<what, id>>
  BY <1>1, <1>2, HoldsBeforeTail
<1>4. PICK what \in Kinds, id \in 1..timerId_ : Head(functors) = <<what, id>>
  BY <1>3
<1> HIDE DEF q
<1>5. /\ functors' = q /\ canceling' = canceling
      /\ active' = IF what = "add" THEN active \cup {id} ELSE active \ {id}
  <2> DEFINE l == [Loop EXCEPT !.functors = Tail(@)]
  <2>1. l = [active |-> active, canceling |-> canceling, functors |-> q]
    <3>1. Loop.functors = functors
      BY DEF Loop
    <3>2. l = [Loop EXCEPT !.functors = Tail(functors)]
      BY ONLY <3>1
    <3> HIDE DEF l
    <3> QED BY <3>2 DEF Loop, q
  <2>2. Becomes(IF what = "add" THEN Add(l, "loop", id) ELSE CancelInLoop(l, id))
    BY <1>4 DEF RunFunctor
  <2> HIDE DEF l
  <2>3. CASE what = "add"
    BY <2>1, <2>2, <2>3 DEF Add, Becomes
  <2>4. CASE what # "add"
    BY <1>1, <2>1, <2>2, <2>4 DEF CancelInLoop, Becomes
  <2> QED BY <2>3, <2>4
<1> QED BY <1>4, <1>5 DEF q

(* A functor that cancels is not for a running Timer's timer, so that one  *)
(* stays armed.                                                            *)
LEMMA RunFunctorPreserves ==
  ASSUME IndInv, RunFunctor
  PROVE  IndInv'
<1> DEFINE q == Tail(functors)
<1>1. /\ batch = {} /\ functors # <<>>
      /\ UNCHANGED <<isRunning_, isPaused_, isOneShot_, timerId_, repeating, batch, pending,
                     calling, strayed>>
  BY DEF RunFunctor, flags, expiry
<1>2. /\ active \subseteq 1..timerId_ /\ canceling \subseteq 1..timerId_
      /\ functors \in Seq(Kinds \X (1..timerId_))
  BY DEF IndInv, Typed, Loop, LoopUpTo
<1>3. /\ q \in Seq(Kinds \X (1..timerId_))
      /\ \A what, id : Holds(functors, what, id)
                         <=> Holds(q, what, id) \/ Head(functors) = <<what, id>>
  BY <1>1, <1>2, HoldsBeforeTail
<1>4. PICK what \in Kinds, id \in 1..timerId_ :
        /\ Head(functors) = <<what, id>>
        /\ functors' = q /\ canceling' = canceling
        /\ active' = IF what = "add" THEN active \cup {id} ELSE active \ {id}
  BY RunFunctorStep
<1> HIDE DEF q
<1>5. /\ functors' = q /\ canceling' = canceling
      /\ active' = IF what = "add" THEN active \cup {id} ELSE active \ {id}
  BY <1>4
<1>6. Loop' \in LoopUpTo(timerId_')
  BY <1>1, <1>2, <1>3, <1>5 DEF Loop, LoopUpTo
<1>7. Typed'
  BY <1>1, <1>6 DEF IndInv, Typed
<1>8. Armed'
  <2> SUFFICES ASSUME isRunning_
               PROVE  /\ timerId_ # 0
                      /\ isOneShot_ \/ timerId_ \in repeating
                      /\ ~Holds(functors', "cancel", timerId_)
                      /\ timerId_ \in active' \/ Holds(functors', "add", timerId_)
    BY <1>1 DEF Armed
  <2>1. /\ timerId_ # 0 /\ (isOneShot_ \/ timerId_ \in repeating)
        /\ ~Holds(functors, "cancel", timerId_)
        /\ timerId_ \in active \/ Holds(functors, "add", timerId_)
    BY <1>1 DEF IndInv, Armed
  <2>2. ~Holds(functors', "cancel", timerId_)
    BY <1>3, <1>5, <2>1
  <2>3. CASE what = "cancel"
    <3>1. id # timerId_
      BY <1>3, <1>4, <2>1, <2>3
    <3>2. Holds(functors, "add", timerId_) => Holds(functors', "add", timerId_)
      BY <1>3, <1>4, <1>5, <2>3
    <3> QED BY <1>5, <2>1, <2>2, <2>3, <3>1, <3>2
  <2>4. CASE what = "add"
    <3>1. Holds(functors, "add", timerId_) => Holds(functors', "add", timerId_) \/ id = timerId_
      BY <1>3, <1>4, <1>5
    <3> QED BY <1>5, <2>1, <2>2, <2>4, <3>1
  <2> QED BY <2>3, <2>4 DEF Kinds
<1> QED BY <1>7, <1>8 DEF IndInv

LEMMA Inductive == Spec => []IndInv
<1>1. IndInv /\ [Next]_vars => IndInv'
  <2> SUFFICES ASSUME IndInv, [Next]_vars PROVE IndInv'
    OBVIOUS
  <2>1. CASE UNCHANGED vars
    <3>1. Loop' = Loop
      BY <2>1 DEF vars, loop, Loop
    <3>2. UNCHANGED <<isRunning_, isPaused_, isOneShot_, timerId_, repeating, calling, strayed,
                      active, canceling, functors, batch, pending>>
      BY <2>1 DEF vars, loop, flags, expiry
    <3>3. Typed'
      BY <3>1, <3>2 DEF IndInv, Typed
    <3>4. Armed'
      BY <3>2 DEF IndInv, Armed, Holds
    <3> QED BY <3>3, <3>4 DEF IndInv
  <2> QED BY <2>1, OperationPreserves, ExpirePreserves, CallbackBeginsPreserves,
             CallbackEndsPreserves, RearmPreserves, RunFunctorPreserves DEF Next
<1> QED BY <1>1, InitInvariant, PTL DEF Spec

-----------------------------------------------------------------------------
(* The Timer's flags, its timers and the loop's functors are well typed in *)
(* every reachable state, and a Timer never runs and pauses at once        *)
(* (timer.cpp).                                                            *)
THEOREM TypeCorrect == Spec => []TypeOK
<1>1. IndInv => TypeOK
  <2> SUFFICES ASSUME IndInv PROVE TypeOK
    OBVIOUS
  <2>1. {isRunning_, isPaused_, isOneShot_, strayed} \subseteq BOOLEAN
    BY DEF IndInv, Typed
  <2>2. /\ active \subseteq 1..timerId_ /\ canceling \subseteq 1..timerId_
        /\ functors \in Seq(Kinds \X (1..timerId_)) /\ repeating \subseteq 1..timerId_
        /\ ~(isRunning_ /\ isPaused_) /\ timerId_ \in 0..MaxTimers
        /\ batch \subseteq 1..timerId_ /\ pending \subseteq batch
        /\ calling \in {0} \cup (batch \ pending)
    BY DEF IndInv, Typed, Loop, LoopUpTo
  <2>3. \A i \in DOMAIN functors : functors[i] \in {"add", "cancel"} \X (1..timerId_)
    BY <2>2, LenProperties, ElementOfSeq DEF Kinds
  <2> QED BY <2>1, <2>2, <2>3 DEF TypeOK
<1> QED BY <1>1, Inductive, PTL

(* A running Timer is armed, will be when the loop has run its functors or *)
(* ended its expiry, or is called in this one: no operation of any thread  *)
(* loses it (start, setOneShot, setPeriod, internalCallback).       *)
THEOREM RunningIsAlwaysArmed == Spec => []RunningIsArmed
<1>1. IndInv => RunningIsArmed
  <2> SUFFICES ASSUME IndInv, isRunning_
               PROVE  timerId_ \in Live \cup
                        (((batch \cap repeating) \cup pending \cup {calling}) \ canceling)
    BY DEF RunningIsArmed
  <2>1. timerId_ \in Timers /\ functors \in Seq(Kinds \X (1..timerId_))
    BY MaxTimersAssumption DEF MaxTimersAssumption, IndInv, Typed, Armed, Loop, LoopUpTo, Timers
  <2>2. DOMAIN functors = 1..Len(functors)
    BY <2>1, LenProperties
  <2>3. \A what : timerId_ \in Queued(what) <=> Holds(functors, what, timerId_)
    BY <2>1, <2>2 DEF Queued, Holds
  <2> QED BY <2>3 DEF IndInv, Armed, Live
<1> QED BY <1>1, Inductive, PTL
-----------------------------------------------------------------------------
(* That nothing is stray.  The loop is given by its armed timers a, its    *)
(* cancelled ones c and its functors q.                                    *)

(* A timer is queued to be armed before anything else is queued for it. *)
AddIsFirst(q) ==
  \A i, j \in 1..Len(q) : i < j /\ q[j][1] = "add" => q[i][2] # q[j][2]

(* A timer is in one place: queued to be armed, armed, or taken out by the *)
(* expiry.                                                                 *)
OnePlace(a, q) ==
  /\ AddIsFirst(q)
  /\ batch \cap a = {}
  /\ \A id : Holds(q, "add", id) => id \notin a \cup batch

(* A timer that will expire once the functors are run, or was taken out by *)
(* the expiry and is not cancelled: it is to be called or to be armed.     *)
Remains(a, c, q, id) ==
  /\ \/ id \in a
     \/ Holds(q, "add", id)
     \/ id \in batch \ c /\ id \in repeating \cup pending
  /\ ~Holds(q, "cancel", id)

OnlyIn(a, c, q, S) == \A id : Remains(a, c, q, id) => id \in S

Running == IF isRunning_ THEN {timerId_} ELSE {}

Kept == /\ OnePlace(active, functors)
        /\ isRunning_ /\ isOneShot_ => timerId_ \notin repeating
        /\ ~strayed => OnlyIn(active, canceling, functors, Running)

(* The order of a timer's functors is kept by a functor queued at the end, *)
(* if it cancels or is the first of its timer.                             *)
LEMMA AddIsFirstAfterAppend ==
  ASSUME NEW n \in Nat, NEW q \in Seq(Kinds \X (1..n)), AddIsFirst(q),
         NEW what \in Kinds, NEW id \in Nat,
         what = "cancel" \/ id \notin 1..n
  PROVE  AddIsFirst(Append(q, <<what, id>>))
<1> DEFINE r == Append(q, <<what, id>>)
<1>1. /\ Len(r) = Len(q) + 1 /\ Len(q) \in Nat
      /\ \A i \in 1..Len(q) : r[i] = q[i]
      /\ r[Len(q) + 1] = <<what, id>>
  BY AppendProperties, LenProperties
<1>2. \A i \in 1..Len(q) : q[i] \in Kinds \X (1..n)
  BY ElementOfSeq
<1> HIDE DEF r
<1> SUFFICES ASSUME NEW i \in 1..Len(r), NEW j \in 1..Len(r), i < j, r[j][1] = "add"
             PROVE  r[i][2] # r[j][2]
  BY DEF AddIsFirst, r
<1>3. i \in 1..Len(q) /\ r[i] = q[i]
  BY <1>1
<1>4. CASE j \in 1..Len(q)
  <2>1. r[j] = q[j]
    BY <1>1, <1>4
  <2>2. q[j][1] = "add"
    BY <2>1
  <2>3. q[i][2] # q[j][2]
    BY <1>3, <1>4, <2>2, Zenon DEF AddIsFirst
  <2> QED BY <1>3, <2>1, <2>3, Zenon
<1>5. CASE j = Len(q) + 1
  <2>1. what = "add" /\ r[j][2] = id
    BY <1>1, <1>5
  <2>2. q[i][2] \in 1..n
    BY <1>2, <1>3
  <2> QED BY <1>3, <2>1, <2>2 DEF Kinds
<1> QED BY <1>1, <1>4, <1>5

(* It is kept when the head is taken, whose timer is then not queued to be *)
(* armed.                                                                  *)
LEMMA AddIsFirstInTail ==
  ASSUME NEW S, NEW q \in Seq(S), q # <<>>, AddIsFirst(q)
  PROVE  /\ AddIsFirst(Tail(q))
         /\ \A what, id : Head(q) = <<what, id>> => ~Holds(Tail(q), "add", id)
<1> DEFINE r == Tail(q)
<1>1. /\ Head(q) = q[1] /\ Len(r) = Len(q) - 1 /\ Len(q) \in Nat \ {0}
      /\ \A i \in 1..Len(r) : r[i] = q[i + 1]
  BY HeadTailProperties, EmptySeq
<1> HIDE DEF r
<1>2. ASSUME NEW i \in 1..Len(r), NEW j \in 1..Len(r), i < j, r[j][1] = "add"
      PROVE  r[i][2] # r[j][2]
  <2>1. i + 1 \in 1..Len(q) /\ j + 1 \in 1..Len(q) /\ i + 1 < j + 1
    BY <1>1, <1>2
  <2> QED BY <1>1, <1>2, <2>1 DEF AddIsFirst
<1>3. ASSUME NEW what, NEW id, Head(q) = <<what, id>>, Holds(r, "add", id)
      PROVE  FALSE
  <2>1. PICK j \in 1..Len(r) : r[j] = <<"add", id>>
    BY <1>3 DEF Holds
  <2>2. 1 \in 1..Len(q) /\ j + 1 \in 1..Len(q) /\ 1 < j + 1
    BY <1>1, <2>1
  <2>3. q[j + 1] = <<"add", id>> /\ q[1] = <<what, id>>
    BY <1>1, <1>3, <2>1
  <2> QED BY <2>2, <2>3 DEF AddIsFirst
<1> QED BY <1>2, <1>3 DEF AddIsFirst, r

(* Cancelling the timer of a running Timer leaves nothing of it, unless it *)
(* comes too early.                                                        *)
LEMMA CancelLeavesNothing ==
  ASSUME IndInv, Kept, isRunning_, NEW thread \in Threads
  PROVE  LET l == Cancel(Loop, thread, timerId_)
         IN  /\ OnePlace(l.active, l.functors)
             /\ ~strayed /\ ~TooEarly(thread) => OnlyIn(l.active, l.canceling, l.functors, {})
<1> DEFINE n == timerId_
           l == Cancel(Loop, thread, n)
<1>1. /\ n \in 1..n /\ n \in Nat /\ n # 0 /\ n \in Timers
      /\ functors \in Seq(Kinds \X (1..n))
  BY MaxTimersAssumption DEF MaxTimersAssumption, IndInv, Typed, Armed, Loop, LoopUpTo, Timers
<1>2. /\ OnePlace(active, functors)
      /\ ~strayed => OnlyIn(active, canceling, functors, {n})
  BY DEF Kept, Running
<1> HIDE DEF n
<1>3. CASE thread = "other"
  <2>1. /\ l.active = active /\ l.canceling = canceling
        /\ l.functors = Append(functors, <<"cancel", n>>)
    BY <1>3 DEF Cancel, Loop
  <2>2. AddIsFirst(l.functors)
    BY <1>1, <1>2, <2>1, AddIsFirstAfterAppend DEF OnePlace, Kinds
  <2>3. <<"cancel", n>> \in Kinds \X (1..n)
    BY <1>1 DEF Kinds
  <2>4. \A what, id : Holds(l.functors, what, id)
                        <=> Holds(functors, what, id) \/ <<"cancel", n>> = <<what, id>>
    <3>1. \A what, id : Holds(Append(functors, <<"cancel", n>>), what, id)
                          <=> Holds(functors, what, id) \/ <<"cancel", n>> = <<what, id>>
      BY <1>1, <2>3, HoldsAfterAppend
    <3> QED BY <2>1, <3>1, Zenon
  <2> HIDE DEF l
  <2>5. OnePlace(l.active, l.functors)
    BY <1>2, <2>1, <2>2, <2>4 DEF OnePlace
  <2>6. ASSUME ~strayed PROVE OnlyIn(l.active, l.canceling, l.functors, {})
    BY <1>2, <2>1, <2>4, <2>6 DEF OnlyIn, Remains
  <2> QED BY <2>5, <2>6 DEF l, n
<1>4. CASE thread = "loop"
  <2>1. /\ l.functors = functors /\ l.active = active \ {n}
        /\ l.canceling = IF n \notin active /\ batch # {} THEN canceling \cup {n}
                                                          ELSE canceling
    BY <1>4 DEF Cancel, CancelInLoop, Loop
  <2> HIDE DEF l
  <2>2. OnePlace(l.active, l.functors)
    BY <1>2, <2>1 DEF OnePlace
  <2>3. ASSUME ~strayed, ~TooEarly(thread)
        PROVE  OnlyIn(l.active, l.canceling, l.functors, {})
    <3>1. ~Holds(functors, "add", n)
      <4>1. n \notin Queued("add")
        BY <1>4, <2>3 DEF TooEarly, n
      <4>2. DOMAIN functors = 1..Len(functors)
        BY <1>1, LenProperties
      <4> QED BY <1>1, <4>1, <4>2 DEF Queued, Holds
    <3>2. ~Remains(l.active, l.canceling, l.functors, n)
      BY <1>1, <1>2, <2>1, <3>1 DEF Remains, OnePlace
    <3>3. \A id : id # n /\ Remains(l.active, l.canceling, l.functors, id)
                    => Remains(active, canceling, functors, id)
      BY <2>1 DEF Remains
    <3> QED BY <1>2, <2>3, <3>2, <3>3 DEF OnlyIn
  <2> QED BY <2>2, <2>3 DEF l, n
<1> QED BY <1>3, <1>4 DEF Threads

(* A new timer of a Timer that had none is its only one. *)
LEMMA ArmKeeps ==
  ASSUME Typed, NEW l \in LoopUpTo(timerId_), NEW thread \in Threads,
         OnePlace(l.active, l.functors), isRunning_' = TRUE,
         Arm(l, thread, isOneShot_'), isOneShot_' \in BOOLEAN, UNCHANGED expiry,
         ~strayed' => OnlyIn(l.active, l.canceling, l.functors, {})
  PROVE  Kept'
<1> DEFINE n == timerId_ + 1
<1>1. /\ timerId_ \in Nat /\ timerId_' = n
      /\ repeating' = IF isOneShot_' THEN repeating ELSE repeating \cup {n}
      /\ repeating \subseteq 1..timerId_ /\ batch \subseteq 1..timerId_
      /\ batch' = batch /\ pending' = pending
      /\ active' = Add(l, thread, n).active
      /\ canceling' = Add(l, thread, n).canceling
      /\ functors' = Add(l, thread, n).functors
  BY MaxTimersAssumption DEF MaxTimersAssumption, Typed, Arm, Becomes, expiry
<1>2. /\ l = [active |-> l.active, canceling |-> l.canceling, functors |-> l.functors]
      /\ l.active \subseteq 1..timerId_ /\ l.functors \in Seq(Kinds \X (1..timerId_))
  BY DEF LoopUpTo
<1>3. /\ n \notin 1..timerId_ /\ n \in 1..n /\ n \notin batch /\ n \in Nat
      /\ Kinds \X (1..timerId_) \subseteq Kinds \X (1..n)
  BY <1>1
<1>4. \A what : ~Holds(l.functors, what, n)
  <2>1. \A i \in 1..Len(l.functors) : l.functors[i] \in Kinds \X (1..timerId_)
    BY <1>2, ElementOfSeq
  <2> QED BY <1>3, <2>1 DEF Holds
<1>5. isOneShot_' => timerId_' \notin repeating'
  BY <1>1, <1>3
<1>6. /\ batch' = batch /\ pending' = pending
      /\ \A id : id \in repeating' => id \in repeating \/ id = n
  BY <1>1
<1> HIDE DEF n
<1>7. /\ OnePlace(active, functors)'
      /\ \A id : Remains(active, canceling, functors, id)'
                   => Remains(l.active, l.canceling, l.functors, id) \/ id = n
  <2>1. CASE thread = "loop"
    <3>1. active' = l.active \cup {n} /\ canceling' = l.canceling /\ functors' = l.functors
      BY <1>1, <1>2, <2>1 DEF Add
    <3> QED BY <1>3, <1>4, <1>6, <3>1 DEF OnePlace, Remains, AddIsFirst, Holds
  <2>2. CASE thread = "other"
    <3>1. /\ active' = l.active /\ canceling' = l.canceling
          /\ functors' = Append(l.functors, <<"add", n>>)
      BY <1>1, <1>2, <2>2 DEF Add
    <3>2. AddIsFirst(functors)'
      <4>1. AddIsFirst(functors')
        <5>1. AddIsFirst(l.functors)
          BY DEF OnePlace
        <5>2. timerId_ \in Nat /\ "add" \in Kinds
          BY <1>1 DEF Kinds
        <5>3. AddIsFirst(Append(l.functors, <<"add", n>>))
          BY <1>2, <1>3, <5>1, <5>2, AddIsFirstAfterAppend, Zenon
        <5> QED BY <3>1, <5>3, Zenon
      <4> QED BY <4>1 DEF AddIsFirst
    <3>3. <<"add", n>> \in Kinds \X (1..n) /\ l.functors \in Seq(Kinds \X (1..n))
      BY <1>2, <1>3, SeqMonotonic DEF Kinds
    <3>4. \A what, id : Holds(functors, what, id)'
                          <=> Holds(l.functors, what, id) \/ <<"add", n>> = <<what, id>>
      <4>1. \A what, id : Holds(functors', what, id)
                            <=> Holds(l.functors, what, id) \/ <<"add", n>> = <<what, id>>
        BY <3>1, <3>3, HoldsAfterAppend
      <4> QED BY <4>1 DEF Holds
    <3>5. n \notin l.active /\ batch' = batch
      BY <1>1, <1>2, <1>3
    <3>6. OnePlace(active, functors)'
      BY <1>3, <3>1, <3>2, <3>4, <3>5 DEF OnePlace
    <3>7. \A id : Remains(active, canceling, functors, id)'
                    => Remains(l.active, l.canceling, l.functors, id) \/ id = n
      BY <1>6, <3>1, <3>4 DEF Remains
    <3> QED BY <3>6, <3>7
  <2> QED BY <2>1, <2>2 DEF Threads
<1>8. ~strayed' => OnlyIn(active, canceling, functors, Running)'
  BY <1>1, <1>7 DEF OnlyIn, Running
<1> QED BY <1>5, <1>7, <1>8 DEF Kept

(* Stopping leaves nothing. *)
LEMMA StopKeeps ==
  ASSUME NEW l \in LoopUpTo(timerId_), Becomes(l), OnePlace(l.active, l.functors),
         isRunning_' = FALSE, UNCHANGED <<repeating, expiry>>,
         ~strayed' => OnlyIn(l.active, l.canceling, l.functors, {})
  PROVE  Kept'
<1>1. active' = l.active /\ canceling' = l.canceling /\ functors' = l.functors
  BY DEF Becomes
<1>2. OnePlace(active, functors)'
  BY <1>1 DEF OnePlace, AddIsFirst, Holds, expiry
<1>3. ~strayed' => OnlyIn(active, canceling, functors, Running)'
  BY <1>1 DEF OnlyIn, Remains, Holds, Running, expiry
<1> QED BY <1>2, <1>3 DEF Kept

(* An operation on a Timer that is not running, and does not start it. *)
LEMMA IdleKeeps ==
  ASSUME Kept, UNCHANGED <<loop, repeating, expiry, timerId_>>,
         isRunning_ = FALSE, isRunning_' = FALSE, ~strayed' => ~strayed
  PROVE  Kept'
BY DEF loop, expiry, Kept, OnePlace, AddIsFirst, OnlyIn, Remains, Holds, Running

LEMMA OperationKeeps ==
  ASSUME IndInv, Kept, Operation
  PROVE  Kept'
<1>1. PICK thread \in Threads : \/ Start(thread)
                                \/ Stop(thread)
                                \/ Pause(thread)
                                \/ Resume(thread)
                                \/ \E oneshot \in BOOLEAN : SetOneShot(thread, oneshot)
                                \/ SetPeriod(thread)
  BY DEF Operation
<1> DEFINE l == Cancel(Loop, thread, timerId_)
<1>2. /\ Loop \in LoopUpTo(timerId_) /\ Typed
      /\ Loop.active = active /\ Loop.canceling = canceling /\ Loop.functors = functors
      /\ isRunning_ \in BOOLEAN /\ isOneShot_ \in BOOLEAN
  BY DEF IndInv, Typed, Loop
<1>3. ASSUME isRunning_
      PROVE  /\ l \in LoopUpTo(timerId_) /\ OnePlace(l.active, l.functors)
             /\ ~strayed /\ ~TooEarly(thread) => OnlyIn(l.active, l.canceling, l.functors, {})
  BY <1>3, CancelTyped, CancelLeavesNothing DEF IndInv, Armed
<1> HIDE DEF l
<1>4. CASE Start(thread)
  <2>1. /\ Arm(Loop, thread, isOneShot_') /\ isRunning_' = TRUE /\ isRunning_ = FALSE
        /\ isOneShot_' \in BOOLEAN /\ UNCHANGED expiry /\ strayed' = strayed
    BY <1>2, <1>4 DEF Start
  <2>2. /\ OnePlace(Loop.active, Loop.functors)
        /\ ~strayed' => OnlyIn(Loop.active, Loop.canceling, Loop.functors, {})
    BY <1>2, <2>1 DEF Kept, Running
  <2> QED BY <1>2, <2>1, <2>2, ArmKeeps
<1>5. CASE Stop(thread)
  <2>1. /\ isRunning_' = FALSE /\ UNCHANGED <<repeating, expiry, timerId_>>
        /\ ~strayed' => ~strayed /\ ~TooEarly(thread)
    BY <1>5 DEF Stop
  <2>2. CASE isRunning_
    <3>1. Becomes(l)
      BY <1>5, <2>2 DEF Stop, l
    <3> QED BY <1>3, <2>1, <2>2, <3>1, StopKeeps
  <2>3. CASE ~isRunning_
    <3>1. UNCHANGED loop
      BY <1>5, <2>3 DEF Stop
    <3> QED BY <1>2, <2>1, <2>3, <3>1, IdleKeeps
  <2> QED BY <2>2, <2>3
<1>6. CASE Pause(thread)
  <2>1. /\ isRunning_' = FALSE /\ UNCHANGED <<repeating, expiry>>
        /\ ~strayed' => ~strayed /\ ~TooEarly(thread)
        /\ isRunning_ /\ Becomes(l)
    BY <1>6 DEF Pause, l
  <2> QED BY <1>3, <2>1, StopKeeps
<1>7. CASE Resume(thread)
  <2>1. /\ Arm(Loop, thread, isOneShot_') /\ isRunning_' = TRUE
        /\ isOneShot_' \in BOOLEAN /\ UNCHANGED expiry /\ strayed' = TRUE
    BY <1>2, <1>7 DEF Resume, flags
  <2>2. OnePlace(Loop.active, Loop.functors)
    BY <1>2 DEF Kept
  <2> QED BY <1>2, <2>1, <2>2, ArmKeeps
<1>8. ASSUME NEW oneshot \in BOOLEAN, SetOneShot(thread, oneshot)
      PROVE  Kept'
  <2>1. /\ isOneShot_' = oneshot /\ isOneShot_' \in BOOLEAN /\ isRunning_' = isRunning_
        /\ UNCHANGED expiry /\ (~strayed' => ~strayed /\ ~TooEarly(thread))
    BY <1>8 DEF SetOneShot
  <2>2. CASE isRunning_
    <3>1. Arm(l, thread, isOneShot_') /\ isRunning_' = TRUE
      BY <1>2, <1>8, <2>1, <2>2 DEF SetOneShot, Restarted, l
    <3> QED BY <1>2, <1>3, <2>1, <2>2, <3>1, ArmKeeps
  <2>3. CASE ~isRunning_
    <3>1. UNCHANGED loop /\ UNCHANGED <<timerId_, repeating>>
      BY <1>8, <2>3 DEF SetOneShot
    <3> QED BY <1>2, <2>1, <2>3, <3>1, IdleKeeps
  <2> QED BY <2>2, <2>3
<1>9. CASE SetPeriod(thread)
  <2>1. /\ isOneShot_' = isOneShot_ /\ isRunning_' = isRunning_
        /\ UNCHANGED expiry /\ (~strayed' => ~strayed /\ ~TooEarly(thread))
    BY <1>9 DEF SetPeriod, flags
  <2>2. CASE isRunning_
    <3>1. Arm(l, thread, isOneShot_') /\ isRunning_' = TRUE
      BY <1>2, <1>9, <2>1, <2>2 DEF SetPeriod, Restarted, l
    <3> QED BY <1>2, <1>3, <2>1, <2>2, <3>1, ArmKeeps
  <2>3. CASE ~isRunning_
    <3>1. UNCHANGED loop /\ UNCHANGED <<timerId_, repeating>>
      BY <1>9, <2>3 DEF SetPeriod
    <3> QED BY <1>2, <2>1, <2>3, <3>1, IdleKeeps
  <2> QED BY <2>2, <2>3
<1> QED BY <1>1, <1>4, <1>5, <1>6, <1>7, <1>8, <1>9

(* A timer that is due was armed, so it was in one place. *)
LEMMA ExpireKeeps ==
  ASSUME Kept, NEW due \in SUBSET active, Expire(due)
  PROVE  Kept'
<1>1. /\ active' = active \ due /\ batch' = due /\ pending' = due
      /\ batch = {} /\ canceling' = {} /\ functors' = functors
      /\ UNCHANGED <<isRunning_, isOneShot_, timerId_, repeating, strayed>>
  BY DEF Expire, flags
<1>2. OnePlace(active, functors)'
  BY <1>1 DEF Kept, OnePlace, AddIsFirst, Holds
<1>3. \A x : Remains(active, canceling, functors, x)' => Remains(active, canceling, functors, x)
  BY <1>1 DEF Remains, Holds
<1>4. ~strayed' => OnlyIn(active, canceling, functors, Running)'
  BY <1>1, <1>3 DEF Kept, OnlyIn, Running
<1> QED BY <1>1, <1>2, <1>4 DEF Kept

LEMMA CallbackBeginsKeeps ==
  ASSUME Kept, NEW id \in Timers, CallbackBegins(id)
  PROVE  Kept'
<1>1. /\ pending' = pending \ {id}
      /\ UNCHANGED <<isRunning_, isOneShot_, timerId_, repeating, strayed,
                     active, canceling, functors, batch>>
  BY DEF CallbackBegins, flags, loop
<1>2. OnePlace(active, functors)'
  BY <1>1 DEF Kept, OnePlace, AddIsFirst, Holds
<1>3. \A x : Remains(active, canceling, functors, x)' => Remains(active, canceling, functors, x)
  BY <1>1 DEF Remains, Holds
<1>4. ~strayed' => OnlyIn(active, canceling, functors, Running)'
  BY <1>1, <1>3 DEF Kept, OnlyIn, Running
<1> QED BY <1>1, <1>2, <1>4 DEF Kept

(* The end of a one-shot Timer's callback leaves nothing. *)
LEMMA CallbackEndsKeeps ==
  ASSUME IndInv, Kept, CallbackEnds
  PROVE  Kept'
<1>1. /\ calling # 0
      /\ UNCHANGED <<isOneShot_, timerId_, repeating, active, canceling, functors,
                     batch, pending>>
      /\ isRunning_' = (isRunning_ /\ ~isOneShot_)
      /\ ~strayed' => ~strayed /\ ~(isRunning_ /\ isOneShot_ /\ timerId_ # calling)
  BY DEF CallbackEnds, loop
<1>2. calling \in batch \ pending
  BY <1>1 DEF IndInv, Typed
<1>3. OnePlace(active, functors)'
  BY <1>1 DEF Kept, OnePlace, AddIsFirst, Holds
<1>4. \A x : Remains(active, canceling, functors, x)' => Remains(active, canceling, functors, x)
  BY <1>1 DEF Remains, Holds
<1>5. CASE isRunning_ /\ ~isOneShot_
  <2>1. ~strayed' => OnlyIn(active, canceling, functors, Running)'
    BY <1>1, <1>4, <1>5 DEF Kept, OnlyIn, Running
  <2> QED BY <1>1, <1>3, <1>5, <2>1 DEF Kept
<1>6. CASE isRunning_ /\ isOneShot_
  <2>1. ASSUME ~strayed' PROVE OnlyIn(active, canceling, functors, {})'
    <3>1. timerId_ = calling /\ timerId_ \notin repeating
      BY <1>1, <1>6, <2>1 DEF Kept
    <3>2. ~Remains(active, canceling, functors, timerId_)'
      BY <1>1, <1>2, <3>1 DEF Kept, OnePlace, Remains, Holds
    <3> QED BY <1>1, <1>4, <1>6, <2>1, <3>2 DEF Kept, OnlyIn, Running
  <2> QED BY <1>1, <1>3, <1>6, <2>1 DEF Kept, Running
<1>7. CASE ~isRunning_
  <2>1. ~strayed' => OnlyIn(active, canceling, functors, Running)'
    BY <1>1, <1>4, <1>7 DEF Kept, OnlyIn, Running
  <2> QED BY <1>1, <1>3, <1>7, <2>1 DEF Kept
<1> QED BY <1>5, <1>6, <1>7 DEF IndInv, Typed

(* The expiry arms nothing but what remained. *)
LEMMA RearmKeeps ==
  ASSUME Kept, Rearm
  PROVE  Kept'
<1>1. /\ pending = {} /\ active' = active \cup ((batch \cap repeating) \ canceling)
      /\ batch' = {} /\ canceling' = {} /\ functors' = functors
      /\ UNCHANGED <<isRunning_, isOneShot_, timerId_, repeating, strayed>>
  BY DEF Rearm, flags
<1>2. OnePlace(active, functors)'
  BY <1>1 DEF Kept, OnePlace, AddIsFirst, Holds
<1>3. \A x : Remains(active, canceling, functors, x)' => Remains(active, canceling, functors, x)
  BY <1>1 DEF Remains, Holds
<1>4. ~strayed' => OnlyIn(active, canceling, functors, Running)'
  BY <1>1, <1>3 DEF Kept, OnlyIn, Running
<1> QED BY <1>1, <1>2, <1>4 DEF Kept

(* A functor that cancels its timer leaves nothing of it, since no later   *)
(* one is to arm it.                                                       *)
LEMMA RunFunctorKeeps ==
  ASSUME IndInv, Kept, RunFunctor
  PROVE  Kept'
<1> DEFINE q == Tail(functors)
<1>1. PICK what \in Kinds, id \in 1..timerId_ :
        /\ Head(functors) = <<what, id>>
        /\ functors' = q /\ canceling' = canceling
        /\ active' = IF what = "add" THEN active \cup {id} ELSE active \ {id}
  BY RunFunctorStep
<1>2. /\ batch = {} /\ functors # <<>> /\ functors \in Seq(Kinds \X (1..timerId_))
      /\ UNCHANGED <<isRunning_, isOneShot_, timerId_, repeating, batch, pending, strayed>>
      /\ timerId_ \in Nat /\ repeating \subseteq 1..timerId_
  BY DEF RunFunctor, flags, expiry, IndInv, Typed, Loop, LoopUpTo
<1>3. \A w, x : Holds(functors, w, x) <=> Holds(q, w, x) \/ Head(functors) = <<w, x>>
  BY <1>2, HoldsBeforeTail
<1>4. AddIsFirst(q) /\ ~Holds(q, "add", id)
  BY <1>1, <1>2, AddIsFirstInTail DEF Kept, OnePlace
<1> HIDE DEF q
<1>5. \A w, x : Holds(functors, w, x)' <=> Holds(q, w, x)
  BY <1>1 DEF Holds
<1>6. AddIsFirst(functors)'
  BY <1>1, <1>4 DEF AddIsFirst
<1>7. OnePlace(active, functors)'
  BY <1>1, <1>2, <1>3, <1>4, <1>5, <1>6 DEF Kept, OnePlace
<1>8. \A x : Remains(active, canceling, functors, x)' => Remains(active, canceling, functors, x)
  BY <1>1, <1>2, <1>3, <1>4, <1>5 DEF Remains, Kinds
<1>9. ~strayed' => OnlyIn(active, canceling, functors, Running)'
  BY <1>2, <1>8 DEF Kept, OnlyIn, Running
<1> QED BY <1>2, <1>7, <1>9 DEF Kept

LEMMA KeptInductive == Spec => []Kept
<1>1. Init => Kept
  BY DEF Init, Kept, OnePlace, AddIsFirst, Holds, OnlyIn, Remains
<1>2. IndInv /\ Kept /\ [Next]_vars => Kept'
  <2> SUFFICES ASSUME IndInv, Kept, [Next]_vars PROVE Kept'
    OBVIOUS
  <2>1. CASE UNCHANGED vars
    BY <2>1 DEF vars, loop, flags, expiry, Kept, OnePlace, AddIsFirst, Holds, OnlyIn, Remains, Running
  <2> QED BY <2>1, OperationKeeps, ExpireKeeps, CallbackBeginsKeeps, CallbackEndsKeeps,
             RearmKeeps, RunFunctorKeeps DEF Next
<1> QED BY <1>1, <1>2, Inductive, PTL DEF Spec

(* The loop keeps no other timer than that of a running Timer, whatever    *)
(* operations, callbacks and functors came in whatever order, unless one   *)
(* of the three ways to lose sight of a timer was taken (timer.cpp).       *)
THEOREM NothingStraysUnnoticed == Spec => []NothingStray
<1>1. IndInv /\ Kept => NothingStray
  <2> SUFFICES ASSUME IndInv, Kept, ~strayed, NEW x \in Live PROVE x \in Running
    BY DEF NothingStray, Running
  <2>1. functors \in Seq(Kinds \X (1..timerId_)) /\ timerId_ \in 0..MaxTimers
    BY DEF IndInv, Typed, Loop, LoopUpTo
  <2>2. DOMAIN functors = 1..Len(functors) /\ MaxTimers \in Nat
    BY <2>1, LenProperties, MaxTimersAssumption DEF MaxTimersAssumption
  <2>3. x \in Timers
    BY <2>1, <2>2 DEF IndInv, Typed, Loop, LoopUpTo, Live, Queued, Timers
  <2>4. Remains(active, canceling, functors, x)
    BY <2>2, <2>3 DEF Live, Queued, Remains, Holds
  <2> QED BY <2>4 DEF Kept, OnlyIn
<1> QED BY <1>1, Inductive, KeptInductive, PTL

(* A callback begins only for the timer of a running Timer, for one whose  *)
(* cancelling another thread has queued, or for one stopped by another     *)
(* Timer's callback of the same expiry, with the same exceptions           *)
(* (timer.cpp:19-47).                                                      *)
THEOREM OnlyItsOwnFires == Spec => FiresOnlyItsOwn
<1> DEFINE Own == calling = 0 /\ calling' # 0 /\ ~strayed =>
                    \/ isRunning_ /\ calling' = timerId_
                    \/ calling' \in Queued("cancel")
                    \/ calling' \in canceling
<1>1. IndInv /\ Kept /\ [Next]_vars => [Own]_vars
  <2> SUFFICES ASSUME IndInv, Kept, Next, calling = 0, calling' # 0, ~strayed,
                      calling' \notin Queued("cancel"), calling' \notin canceling
               PROVE  isRunning_ /\ calling' = timerId_
    OBVIOUS
  <2>1. PICK id \in Timers : CallbackBegins(id)
    <3>1. ~CallbackEnds /\ (RunFunctor => calling' = calling) /\ (Rearm => calling' = calling)
      BY DEF CallbackEnds, RunFunctor, Rearm, expiry
    <3>2. Operation => calling' = calling
      BY DEF Operation, Start, Stop, Pause, Resume, SetOneShot, SetPeriod, expiry
    <3>3. \A due \in SUBSET active : Expire(due) => calling' = calling
      BY DEF Expire
    <3> QED BY <3>1, <3>2, <3>3 DEF Next
  <2>2. calling' = id /\ id \in pending /\ id \in batch
    BY <2>1 DEF CallbackBegins, IndInv, Typed
  <2>3. functors \in Seq(Kinds \X (1..timerId_)) /\ DOMAIN functors = 1..Len(functors)
    BY LenProperties DEF IndInv, Typed, Loop, LoopUpTo
  <2>4. Remains(active, canceling, functors, id)
    BY <2>2, <2>3 DEF Remains, Queued, Holds
  <2> QED BY <2>2, <2>4 DEF Kept, OnlyIn, Running
<1> QED BY <1>1, Inductive, KeptInductive, PTL DEF Spec, FiresOnlyItsOwn
=============================================================================
