------------------------ MODULE SystemManager_proofs ------------------------
(***************************************************************************)
(* Proofs about the life of a node process, for an application that waits  *)
(* for the event loop and for one that does not, and for any number of     *)
(* rounds of init and shutdown.                                            *)
(***************************************************************************)
EXTENDS SystemManager, TLAPS

(* How far the event thread can be while the application is where it is:   *)
(* only a posted quit ends the loop, only shutdown posts one, and it then  *)
(* waits in join until the thread is gone.  If the application waits for   *)
(* the loop, no shutdown begins while the loop is still to come.           *)
Handshake ==
  /\ quitPosted => app = "join" /\ eventThread_ \in {"loop made", "looping"}
  /\ eventThread_ \in {"quit", "poll released", "finished"} => app = "join"
  /\ app \in {"start", "release", "returned", "ended"} => eventThread_ = "none"
  /\ app = "post" => eventThread_ \in {"loop made", "looping"}
  /\ app \in {"returned", "ended"} => ~messageQueue_
  /\ Waits /\ app \in {"stop", "check"} => eventThread_ \in {"none", "loop made", "looping"}

IndInv == TypeOK /\ Handshake /\ JoinIsAnswered

-----------------------------------------------------------------------------
(* Before the first init nothing is made and nothing runs. *)
LEMMA InitEstablishes == Init => IndInv
<1> SUFFICES ASSUME Init PROVE IndInv
  OBVIOUS
<1>1. inits \in 0..MaxInits
  BY InitsAssumption DEF InitsAssumption, Init
<1>2. TypeOK
  BY <1>1 DEF Init, TypeOK, EventStages, AppStages, SpinnerStages
<1>3. Handshake
  BY DEF Init, Handshake
<1>4. JoinIsAnswered
  BY DEF Init, JoinIsAnswered
<1> QED BY <1>2, <1>3, <1>4 DEF IndInv

(* The application's own steps. *)
LEMMA ApplicationPreserves == IndInv /\ Application => IndInv'
<1> SUFFICES ASSUME IndInv, Application PROVE IndInv'
  OBVIOUS
<1> USE DEF IndInv, TypeOK, Handshake, JoinIsAnswered, EventStages, AppStages, SpinnerStages
<1>1. CASE AppInit
  <2>1. inits' \in 0..MaxInits
    <3>1. inits \in 0..MaxInits /\ inits < MaxInits /\ inits' = inits + 1
      BY <1>1 DEF AppInit
    <3> HIDE DEF IndInv, TypeOK, Handshake, JoinIsAnswered
    <3> QED BY <3>1, InitsAssumption DEF InitsAssumption
  <2> QED BY <1>1, <2>1 DEF AppInit
<1>2. CASE StartSpinner
  BY <1>2 DEF StartSpinner, pointers
<1>3. CASE CallShutdown
  BY <1>3 DEF CallShutdown, pointers
<1>4. CASE Exit
  BY <1>4 DEF Exit, pointers
<1> QED BY <1>1, <1>2, <1>3, <1>4 DEF Application

(* The steps of shutdown: a quit is posted only to a loop that is there,   *)
(* and what is released afterwards belongs to nobody.                      *)
LEMMA ShutdownPreserves == IndInv /\ Shutdown => IndInv'
<1> SUFFICES ASSUME IndInv, Shutdown PROVE IndInv'
  OBVIOUS
<1> USE DEF IndInv, TypeOK, Handshake, JoinIsAnswered, EventStages, AppStages, SpinnerStages
<1>1. CASE ShutdownStop
  BY <1>1 DEF ShutdownStop, pointers
<1>2. CASE ShutdownCheck
  BY <1>2 DEF ShutdownCheck, pointers
<1>3. CASE ShutdownPost
  BY <1>3 DEF ShutdownPost, pointers
<1>4. CASE ShutdownJoin
  BY <1>4 DEF ShutdownJoin, pointers
<1>5. CASE ShutdownRelease
  BY <1>5 DEF ShutdownRelease
<1> QED BY <1>1, <1>2, <1>3, <1>4, <1>5 DEF Shutdown

(* The steps of the event thread and of the spinning thread. *)
LEMMA ThreadsPreserve == IndInv /\ (EventThread \/ Spin) => IndInv'
<1> SUFFICES ASSUME IndInv, EventThread \/ Spin PROVE IndInv'
  OBVIOUS
<1> USE DEF IndInv, TypeOK, Handshake, JoinIsAnswered, EventStages, AppStages, SpinnerStages
<1>1. CASE MakeLoop
  BY <1>1 DEF MakeLoop
<1>2. CASE MakePollManager
  BY <1>2 DEF MakePollManager
<1>3. CASE RunQuit
  BY <1>3 DEF RunQuit, pointers
<1>4. CASE ReleasePollManager
  BY <1>4 DEF ReleasePollManager
<1>5. CASE ReleaseLoop
  BY <1>5 DEF ReleaseLoop
<1>6. CASE Spin
  <2>1. spinner' \in SpinnerStages
    BY <1>6 DEF Spin, SpinWhile, SpinIf, SpinCall, SpinReturn
  <2> QED BY <1>6, <2>1 DEF Spin, pointers
<1> QED BY <1>1, <1>2, <1>3, <1>4, <1>5, <1>6 DEF EventThread

(* The application and the event thread keep in step, in every round.     *)
THEOREM HandshakeKept == Spec => []IndInv
<1>1. IndInv /\ [Next]_vars => IndInv'
  <2>1. IndInv /\ UNCHANGED vars => IndInv'
    <3> SUFFICES ASSUME IndInv, UNCHANGED vars PROVE IndInv'
      OBVIOUS
    <3>1. TypeOK'
      BY DEF IndInv, TypeOK, vars, pointers
    <3>2. Handshake'
      BY DEF IndInv, Handshake, vars, pointers
    <3>3. JoinIsAnswered'
      BY DEF IndInv, JoinIsAnswered, vars, pointers
    <3> QED BY <3>1, <3>2, <3>3 DEF IndInv
  <2> QED BY <2>1, ApplicationPreserves, ShutdownPreserves, ThreadsPreserve DEF Next
<1> QED BY <1>1, InitEstablishes, PTL DEF Spec

-----------------------------------------------------------------------------
(* The pointers of the event thread are set in just the stages between     *)
(* their making and their release (global_init.cpp:32-52).                 *)
THEOREM TypeCorrect == Spec => []TypeOK
BY HandshakeKept, PTL DEF IndInv

(* The poll manager never outlives the loop it refers to, and shutdown     *)
(* never calls through a loop that has been released (global_init.cpp:49,  *)
(* 116-118), whether or not the application waited for the loop.           *)
THEOREM LoopAlwaysOutlivesUse == Spec => []LoopOutlivesUse
<1>1. IndInv => LoopOutlivesUse
  BY DEF IndInv, TypeOK, Handshake, LoopOutlivesUse
<1> QED BY <1>1, HandshakeKept, PTL

(* A shutdown that has returned leaves nothing behind                      *)
(* (global_init.cpp:110-126).                                              *)
THEOREM AllReleasedAfterShutdown == Spec => []ReleasedAfterShutdown
<1>1. IndInv => ReleasedAfterShutdown
  BY DEF IndInv, TypeOK, Handshake, ReleasedAfterShutdown
<1> QED BY <1>1, HandshakeKept, PTL

(* When the application waits for the loop, a shutdown that waits for the  *)
(* event thread has posted its quit, or the thread has run it or there is  *)
(* none (global_init.cpp:116-122): what makes every shutdown return.       *)
THEOREM JoinAlwaysAnswered == Spec => []JoinIsAnswered
BY HandshakeKept, PTL DEF IndInv

(* Between createTimer's look at the loop and any later shutdown's wait    *)
(* for the event thread the loop is not released (node_handle.cpp:25-30),  *)
(* in every round.                                                         *)
THEOREM LoopLastsUntilJoin == Spec => LoopLasts
<1>1. IndInv /\ [Next]_vars => [eventLoop_ => eventLoop_' \/ app = "join"]_vars
  <2> SUFFICES ASSUME IndInv, Next, eventLoop_, ~eventLoop_' PROVE app = "join"
    OBVIOUS
  <2>1. ReleaseLoop
    BY DEF Next, Application, AppInit, StartSpinner, CallShutdown, Exit, Shutdown, ShutdownStop,
           ShutdownCheck, ShutdownPost, ShutdownJoin, ShutdownRelease, EventThread, MakeLoop,
           MakePollManager, RunQuit, ReleasePollManager, Spin, pointers
  <2> QED BY <2>1 DEF ReleaseLoop, IndInv, Handshake
<1> QED BY <1>1, HandshakeKept, PTL DEF Spec, LoopLasts
=============================================================================
