---------------------------- MODULE SystemManager ----------------------------
(***************************************************************************)
(* The life of a node process (global_init.cpp): init makes the message    *)
(* queue and starts the event thread, which makes the event loop and the   *)
(* poll manager; spin, here on a thread of its own as in                   *)
(* test/mytest_SystemManager.cpp, uses the queue; shutdown stops both and  *)
(* releases everything, and is called once more when the process exits.    *)
(* The threads share plain pointers and a plain flag: each read or write   *)
(* of one of these is a step.                                              *)
(***************************************************************************)
EXTENDS Naturals

CONSTANTS Waits,      \* does the application let the event loop come up
                      \* before it goes on, as the tests do by sleeping?
          MaxInits    \* bound: how often init is called

ASSUME WaitsAssumption == Waits \in BOOLEAN
ASSUME InitsAssumption == MaxInits \in Nat

VARIABLES running_,        \* the flag that keeps spin going
          messageQueue_,   \* is the pointer set?
          eventLoop_,      \* is the pointer set?
          pollManager_,    \* is the pointer set?
          eventThread_,    \* "none" when it is not joinable, else where it is
          quitPosted,      \* the functor that quits the loop is queued
          app,             \* where the application's main thread is
          exiting,         \* it runs the destructor of the static instance
          spinner,         \* where the spinning thread is
          inits            \* calls of init so far

pointers == <<messageQueue_, eventLoop_, pollManager_>>
vars == <<running_, pointers, eventThread_, quitPosted, app, exiting, spinner, inits>>

AppStages     == {"start", "ready", "stop", "check", "post", "join", "release", "returned", "ended"}
EventStages   == {"none", "started", "loop made", "looping", "quit", "poll released", "finished"}
SpinnerStages == {"none", "while", "if", "call", "processing", "done"}

Init == /\ running_ = TRUE
        /\ messageQueue_ = FALSE
        /\ eventLoop_ = FALSE
        /\ pollManager_ = FALSE
        /\ eventThread_ = "none"
        /\ quitPosted = FALSE
        /\ app = "start"
        /\ exiting = FALSE
        /\ spinner = "none"
        /\ inits = 0

-----------------------------------------------------------------------------
(* The application. *)

(* init: the queue, then the thread.  After a shutdown it may be called    *)
(* again; running_ stays as it is.                                         *)
AppInit ==
  /\ app \in {"start", "returned"}
  /\ ~exiting
  /\ spinner \in {"none", "done"}
  /\ inits < MaxInits
  /\ inits' = inits + 1
  /\ messageQueue_' = TRUE
  /\ eventThread_' = "started"
  /\ app' = "ready"
  /\ spinner' = "none"
  /\ UNCHANGED <<running_, eventLoop_, pollManager_, quitPosted, exiting>>

StartSpinner ==
  /\ app = "ready"
  /\ spinner = "none"
  /\ spinner' = "while"
  /\ UNCHANGED <<running_, pointers, eventThread_, quitPosted, app, exiting, inits>>

(* shutdown is called. *)
CallShutdown ==
  /\ app = "ready"
  /\ Waits => eventLoop_
  /\ app' = "stop"
  /\ UNCHANGED <<running_, pointers, eventThread_, quitPosted, exiting, spinner, inits>>

(* main returns, with the spinning thread joined, and the destructor calls *)
(* shutdown, whether or not the application did.                           *)
Exit ==
  /\ app \in {"start", "ready", "returned"}
  /\ ~exiting
  /\ spinner \in {"none", "done"}
  /\ (Waits /\ app = "ready") => eventLoop_
  /\ exiting' = TRUE
  /\ app' = "stop"
  /\ UNCHANGED <<running_, pointers, eventThread_, quitPosted, spinner, inits>>

-----------------------------------------------------------------------------
(* shutdown, step by step. *)

(* Faulty variant: spin is not told. *)
ShutdownStopSilently ==
  /\ app = "stop"
  /\ app' = "check"
  /\ UNCHANGED <<running_, pointers, eventThread_, quitPosted, exiting, spinner, inits>>

ShutdownStop ==
  /\ app = "stop"
  /\ running_' = FALSE
  /\ app' = "check"
  /\ UNCHANGED <<pointers, eventThread_, quitPosted, exiting, spinner, inits>>

ShutdownCheck ==
  /\ app = "check"
  /\ app' = IF eventLoop_ THEN "post" ELSE "join"
  /\ UNCHANGED <<running_, pointers, eventThread_, quitPosted, exiting, spinner, inits>>

(* Faulty variant: the loop is told, but not to quit. *)
ShutdownPostNothing ==
  /\ app = "post"
  /\ app' = "join"
  /\ UNCHANGED <<running_, pointers, eventThread_, quitPosted, exiting, spinner, inits>>

(* runInLoop queues the functor: the caller is another thread. *)
ShutdownPost ==
  /\ app = "post"
  /\ quitPosted' = TRUE
  /\ app' = "join"
  /\ UNCHANGED <<running_, pointers, eventThread_, exiting, spinner, inits>>

(* Faulty variant: the thread is detached. *)
ShutdownDetach ==
  /\ app = "join"
  /\ eventThread_' = "none"
  /\ app' = "release"
  /\ UNCHANGED <<running_, pointers, quitPosted, exiting, spinner, inits>>

(* A thread that is not joinable is not waited for. *)
ShutdownJoin ==
  /\ app = "join"
  /\ eventThread_ \in {"none", "finished"}
  /\ eventThread_' = "none"
  /\ app' = "release"
  /\ UNCHANGED <<running_, pointers, quitPosted, exiting, spinner, inits>>

ShutdownRelease ==
  /\ app = "release"
  /\ messageQueue_' = FALSE
  /\ app' = IF exiting THEN "ended" ELSE "returned"
  /\ UNCHANGED <<running_, eventLoop_, pollManager_, eventThread_, quitPosted,
                 exiting, spinner, inits>>

Shutdown == \/ ShutdownStop
            \/ ShutdownCheck
            \/ ShutdownPost
            \/ ShutdownJoin
            \/ ShutdownRelease

-----------------------------------------------------------------------------
(* The event thread. *)

MakeLoop ==
  /\ eventThread_ = "started"
  /\ eventLoop_' = TRUE
  /\ eventThread_' = "loop made"
  /\ UNCHANGED <<running_, messageQueue_, pollManager_, quitPosted, app, exiting, spinner, inits>>

MakePollManager ==
  /\ eventThread_ = "loop made"
  /\ pollManager_' = TRUE
  /\ eventThread_' = "looping"
  /\ UNCHANGED <<running_, messageQueue_, eventLoop_, quitPosted, app, exiting, spinner, inits>>

(* The loop runs the functor and returns. *)
RunQuit ==
  /\ eventThread_ = "looping"
  /\ quitPosted
  /\ quitPosted' = FALSE
  /\ eventThread_' = "quit"
  /\ UNCHANGED <<running_, pointers, app, exiting, spinner, inits>>

(* Faulty variant: the loop is released before the poll manager. *)
ReleaseLoopFirst ==
  /\ eventThread_ = "quit"
  /\ eventLoop_' = FALSE
  /\ eventThread_' = "poll released"
  /\ UNCHANGED <<running_, messageQueue_, pollManager_, quitPosted, app, exiting, spinner, inits>>

ReleasePollManager ==
  /\ eventThread_ = "quit"
  /\ pollManager_' = FALSE
  /\ eventThread_' = "poll released"
  /\ UNCHANGED <<running_, messageQueue_, eventLoop_, quitPosted, app, exiting, spinner, inits>>

ReleaseLoop ==
  /\ eventThread_ = "poll released"
  /\ eventLoop_' = FALSE
  /\ eventThread_' = "finished"
  /\ UNCHANGED <<running_, messageQueue_, pollManager_, quitPosted, app, exiting, spinner, inits>>

EventThread == \/ MakeLoop
               \/ MakePollManager
               \/ RunQuit
               \/ ReleasePollManager
               \/ ReleaseLoop

-----------------------------------------------------------------------------
(* The spinning thread.  The pointer is tested in one step and used in the *)
(* next.  A call through a null pointer ends the process.                  *)

SpinWhile ==
  /\ spinner = "while"
  /\ spinner' = IF running_ THEN "if" ELSE "done"

SpinIf ==
  /\ spinner = "if"
  /\ spinner' = IF messageQueue_ THEN "call" ELSE "while"

SpinCall ==
  /\ spinner = "call"
  /\ messageQueue_
  /\ spinner' = "processing"

(* processCallbacks returns; spin sleeps and goes on. *)
SpinReturn ==
  /\ spinner = "processing"
  /\ spinner' = "while"

Spin == /\ \/ SpinWhile
           \/ SpinIf
           \/ SpinCall
           \/ SpinReturn
        /\ UNCHANGED <<running_, pointers, eventThread_, quitPosted, app, exiting, inits>>

-----------------------------------------------------------------------------
Application == AppInit \/ StartSpinner \/ CallShutdown \/ Exit

Next == Application \/ Shutdown \/ EventThread \/ Spin

Spec == Init /\ [][Next]_vars

(* Threads that can run do; the application may do nothing more. *)
Fairness == WF_vars(Shutdown) /\ WF_vars(EventThread) /\ WF_vars(Spin)

FairSpec == Spec /\ Fairness

-----------------------------------------------------------------------------
(* Properties. *)

(* Type invariant; the pointers that the event thread owns are set in just *)
(* the stages between their making and their release.                      *)
TypeOK == /\ {running_, messageQueue_, eventLoop_, pollManager_, quitPosted, exiting}
               \subseteq BOOLEAN
          /\ eventThread_ \in EventStages
          /\ eventLoop_ <=> eventThread_ \in {"loop made", "looping", "quit", "poll released"}
          /\ pollManager_ <=> eventThread_ \in {"looping", "quit"}
          /\ app \in AppStages
          /\ spinner \in SpinnerStages
          /\ inits \in 0..MaxInits

(* The poll manager, whose server refers to the event loop, never outlives *)
(* it, and shutdown never calls through a loop that the event thread has   *)
(* released, in any round of init and shutdown.                            *)
LoopOutlivesUse ==
  pollManager_ \/ quitPosted \/ app = "post" => eventLoop_

(* Where shutdown waits for the event thread, the thread has its quit      *)
(* before it or behind it: a loop that came up before shutdown looked for  *)
(* it is told to end, and the functor is not lost to a later round.        *)
JoinIsAnswered ==
  Waits /\ app = "join" =>
    quitPosted \/ eventThread_ \in {"none", "quit", "poll released", "finished"}

(* A loop that the application has seen lasts until shutdown waits for the *)
(* event thread: createTimer keeps its bare pointer and uses it unasked    *)
(* (node_handle.cpp:25-30).                                                *)
LoopLasts == [][eventLoop_ => eventLoop_' \/ app = "join"]_vars

(* When shutdown has returned the event thread is gone and the loop, the   *)
(* poll manager and the queue are released ("all core resources are        *)
(* released", global_init.cpp:114).                                        *)
ReleasedAfterShutdown ==
  app \in {"returned", "ended"} =>
    ~messageQueue_ /\ ~eventLoop_ /\ ~pollManager_ /\ ~quitPosted /\ eventThread_ = "none"

ShuttingDown == app \in {"stop", "check", "post", "join", "release"}

(* A shutdown returns: the event thread stops ("the event thread stops     *)
(* safely", global_init.cpp:113).  It does when the application waits for  *)
(* the event loop to come up; a shutdown that comes before finds no loop,  *)
(* posts no quit and waits for ever.                                       *)
ShutdownReturns == ShuttingDown ~> ~ShuttingDown

(* Once shutdown is called spin ends ("spin exits normally",               *)
(* global_init.cpp:112), unless it has crashed.                            *)
Crashed == spinner = "call" /\ ~messageQueue_
SpinEnds == ShuttingDown ~> (spinner \in {"none", "done"} \/ Crashed)

(* Spin never calls through a queue that shutdown has released, nor is the *)
(* queue released under its call: shutdown is to "make sure that spin ends *)
(* normally" before it releases the resources (global_init.cpp:111-114).   *)
SpinKeepsQueue == spinner \in {"call", "processing"} => messageQueue_
=============================================================================
