------------------------------- MODULE Timer -------------------------------
(***************************************************************************)
(* A node's Timer (timer.cpp) over the timers of muduo's event loop, which *)
(* are external.  The operations are called on the loop's thread, in the   *)
(* timer's callback or elsewhere, where the loop is changed at once, or on *)
(* another thread (NodeHandle::createTimer returns the Timer to the        *)
(* application), where the change is queued as a functor.                  *)
(*                                                                         *)
(* Each start makes a new timer of the loop; these are numbered.  A call   *)
(* of an operation is one step.                                            *)
(***************************************************************************)
EXTENDS Integers, Sequences

CONSTANT MaxTimers   \* bound: how many timers of the loop are ever made

ASSUME MaxTimersAssumption == MaxTimers \in Nat

VARIABLES isRunning_, isPaused_, isOneShot_,
          timerId_,     \* the timer made last; 0 before the first
          repeating,    \* the timers made by runEvery
          active,       \* the timers armed in the loop
          batch,        \* the timers that the present expiry took out
          pending,      \* those of them whose callback is still to come
          calling,      \* the timer whose callback runs; 0 if none does
          canceling,    \* timers cancelled since the expiry began
          functors,     \* what other threads want the loop to do
          strayed       \* a timer of the loop was lost sight of, see below

flags  == <<isRunning_, isPaused_, isOneShot_>>
loop   == <<active, canceling, functors>>
expiry == <<batch, pending, calling>>
vars   == <<flags, timerId_, repeating, loop, expiry, strayed>>

Timers == 1..MaxTimers
Threads == {"loop", "other"}

Init == /\ isRunning_ = FALSE
        /\ isPaused_ = FALSE
        /\ isOneShot_ = FALSE
        /\ timerId_ = 0
        /\ repeating = {}
        /\ active = {}
        /\ batch = {}
        /\ pending = {}
        /\ calling = 0
        /\ canceling = {}
        /\ functors = <<>>
        /\ strayed = FALSE

-----------------------------------------------------------------------------
(* The loop: its timers and functors as a record, before and after.  A     *)
(* timer that is not armed while an expiry is under way is remembered as   *)
(* cancelled, so that it is not armed again after it.                      *)

Loop == [active |-> active, canceling |-> canceling, functors |-> functors]

Becomes(l) == /\ active' = l.active
              /\ canceling' = l.canceling
              /\ functors' = l.functors

CancelInLoop(l, id) ==
  IF id \in l.active THEN [l EXCEPT !.active = @ \ {id}]
  ELSE IF batch # {} THEN [l EXCEPT !.canceling = @ \cup {id}]
  ELSE l

Add(l, thread, id) ==
  IF thread = "loop" THEN [l EXCEPT !.active = @ \cup {id}]
  ELSE [l EXCEPT !.functors = Append(@, <<"add", id>>)]

Cancel(l, thread, id) ==
  IF thread = "loop" THEN CancelInLoop(l, id)
  ELSE [l EXCEPT !.functors = Append(@, <<"cancel", id>>)]

Queued(what) == {id \in Timers : \E i \in DOMAIN functors : functors[i] = <<what, id>>}

(* The loop's thread cancels a timer that another thread has asked for and *)
(* that is not yet in the loop: there is nothing to cancel, and the timer  *)
(* is armed afterwards.                                                    *)
TooEarly(thread) == isRunning_ /\ thread = "loop" /\ timerId_ \in Queued("add")

(* A new timer, of the kind asked for, becomes the Timer's. *)
Arm(l, thread, oneshot) ==
  /\ timerId_ < MaxTimers
  /\ timerId_' = timerId_ + 1
  /\ repeating' = IF oneshot THEN repeating ELSE repeating \cup {timerId_'}
  /\ Becomes(Add(l, thread, timerId_'))

-----------------------------------------------------------------------------
(* The operations.  One that returns early changes nothing and is no step. *)

(* Faulty variant: a second start is not refused. *)
StartAgain(thread) ==
  /\ Arm(Loop, thread, isOneShot_)
  /\ isRunning_' = TRUE
  /\ isPaused_' = FALSE
  /\ UNCHANGED <<isOneShot_, expiry, strayed>>

Start(thread) ==
  /\ ~isRunning_ /\ ~isPaused_
  /\ Arm(Loop, thread, isOneShot_)
  /\ isRunning_' = TRUE
  /\ UNCHANGED <<isPaused_, isOneShot_, expiry, strayed>>

Stop(thread) ==
  /\ IF isRunning_ THEN Becomes(Cancel(Loop, thread, timerId_)) ELSE UNCHANGED loop
  /\ isRunning_' = FALSE
  /\ isPaused_' = FALSE
  /\ strayed' = (strayed \/ TooEarly(thread))
  /\ UNCHANGED <<isOneShot_, timerId_, repeating, expiry>>

Pause(thread) ==
  /\ isRunning_ /\ ~isPaused_
  /\ Becomes(Cancel(Loop, thread, timerId_))
  /\ isRunning_' = FALSE
  /\ isPaused_' = TRUE
  /\ strayed' = (strayed \/ TooEarly(thread))
  /\ UNCHANGED <<isOneShot_, timerId_, repeating, expiry>>

(* resume refuses a paused timer, and arms a second one for a running one. *)
Resume(thread) ==
  /\ isRunning_ /\ ~isPaused_
  /\ Arm(Loop, thread, isOneShot_)
  /\ strayed' = TRUE
  /\ UNCHANGED <<flags, expiry>>

(* Faulty variant: a running timer is started anew and then stopped. *)
RestartedBackwards(thread, oneshot) ==
  LET id == timerId_ + 1
  IN  /\ id <= MaxTimers
      /\ timerId_' = id
      /\ repeating' = IF oneshot THEN repeating ELSE repeating \cup {id}
      /\ Becomes(Cancel(Add(Loop, thread, id), thread, id))

(* A running timer is stopped and started again, as a new timer. *)
Restarted(thread, oneshot) ==
  Arm(Cancel(Loop, thread, timerId_), thread, oneshot)

SetOneShot(thread, oneshot) ==
  /\ IF isRunning_ THEN Restarted(thread, oneshot)
                   ELSE UNCHANGED <<timerId_, repeating, loop>>
  /\ isOneShot_' = oneshot
  /\ strayed' = (strayed \/ TooEarly(thread))
  /\ UNCHANGED <<isRunning_, isPaused_, expiry>>

SetPeriod(thread) ==
  /\ IF isRunning_ THEN Restarted(thread, isOneShot_)
                   ELSE UNCHANGED <<timerId_, repeating, loop>>
  /\ strayed' = (strayed \/ TooEarly(thread))
  /\ UNCHANGED <<flags, expiry>>

Operation == \E thread \in Threads :
               \/ Start(thread)
               \/ Stop(thread)
               \/ Pause(thread)
               \/ Resume(thread)
               \/ \E oneshot \in BOOLEAN : SetOneShot(thread, oneshot)
               \/ SetPeriod(thread)

-----------------------------------------------------------------------------
(* The loop's thread.  An expiry takes out every timer that is due, runs   *)
(* their callbacks one after the other, and then arms the repeating ones   *)
(* again.  Other Timers of the loop may be due with this one: what their   *)
(* callbacks do to it comes between the steps of its own.                  *)

Expire(due) ==
  /\ batch = {}
  /\ due # {}
  /\ active' = active \ due
  /\ batch' = due
  /\ pending' = due
  /\ canceling' = {}
  /\ UNCHANGED <<flags, timerId_, repeating, calling, functors, strayed>>

(* internalCallback begins, for a timer that was due: the loop does not    *)
(* look whether it has been cancelled since.                               *)
CallbackBegins(id) ==
  /\ calling = 0
  /\ id \in pending
  /\ pending' = pending \ {id}
  /\ calling' = id
  /\ UNCHANGED <<flags, timerId_, repeating, loop, batch, strayed>>

(* The user's callback has returned or thrown.  A one-shot Timer counts as *)
(* stopped, though it may have been started anew in the meantime.          *)
CallbackEnds ==
  /\ calling # 0
  /\ isRunning_' = (isRunning_ /\ ~isOneShot_)
  /\ strayed' = (strayed \/ (isRunning_ /\ isOneShot_ /\ timerId_ # calling))
  /\ calling' = 0
  /\ UNCHANGED <<isPaused_, isOneShot_, timerId_, repeating, loop, batch, pending>>

Rearm ==
  /\ batch # {} /\ pending = {} /\ calling = 0
  /\ active' = active \cup ((batch \cap repeating) \ canceling)
  /\ batch' = {}
  /\ canceling' = {}
  /\ UNCHANGED <<flags, timerId_, repeating, pending, calling, functors, strayed>>

RunFunctor ==
  /\ batch = {}
  /\ functors # <<>>
  /\ LET what == Head(functors)[1]
         id   == Head(functors)[2]
         l    == [Loop EXCEPT !.functors = Tail(@)]
     IN  Becomes(IF what = "add" THEN Add(l, "loop", id) ELSE CancelInLoop(l, id))
  /\ UNCHANGED <<flags, timerId_, repeating, expiry, strayed>>

Next == \/ Operation
        \/ \E due \in SUBSET active : Expire(due)
        \/ \E id \in Timers : CallbackBegins(id)
        \/ CallbackEnds
        \/ Rearm
        \/ RunFunctor

Spec == Init /\ [][Next]_vars

-----------------------------------------------------------------------------
(* Properties. *)

(* The timers that will expire when the loop has run its functors. *)
Live == (active \cup Queued("add")) \ Queued("cancel")

(* Type invariant; a Timer is never running and paused at once, and a      *)
(* callback is that of a timer which the expiry took out.                  *)
TypeOK == /\ {isRunning_, isPaused_, isOneShot_, strayed} \subseteq BOOLEAN
          /\ ~(isRunning_ /\ isPaused_)
          /\ timerId_ \in 0..MaxTimers
          /\ repeating \cup active \cup batch \cup canceling \subseteq 1..timerId_
          /\ pending \subseteq batch
          /\ calling \in {0} \cup (batch \ pending)
          /\ \A i \in DOMAIN functors : functors[i] \in {"add", "cancel"} \X (1..timerId_)

(* A running Timer is armed, or will be when the loop has run its functors *)
(* or ended its expiry, or its callback is still to come or running:       *)
(* whatever operations, from whichever thread, came in whatever order, it  *)
(* is not lost.                                                            *)
RunningIsArmed ==
  isRunning_ => timerId_ \in Live \cup (((batch \cap repeating) \cup pending \cup {calling})
                                        \ canceling)

(* The loop keeps no other timer than that of a running Timer, whatever    *)
(* the order of operations, expiries, callbacks and functors, but for      *)
(* three ways to lose sight of one: resume on a running Timer, a one-shot  *)
(* Timer started anew while the callback of its former timer runs or is    *)
(* still to come, and a stop on the loop's thread that overtakes a start   *)
(* on another.                                                             *)
NothingStray ==
  ~strayed => Live \subseteq IF isRunning_ THEN {timerId_} ELSE {}

(* A callback begins only for the timer of a running Timer, for one that   *)
(* another thread has stopped and the loop is still to cancel, or for one  *)
(* that was due together with another Timer, whose callback stopped it:    *)
(* the loop calls that one all the same (StoppedIsSilent).  No timer of a  *)
(* former start calls back in any other way, with the same three           *)
(* exceptions (timer.cpp:19-47).                                           *)
FiresOnlyItsOwn ==
  [][calling = 0 /\ calling' # 0 /\ ~strayed =>
       \/ isRunning_ /\ calling' = timerId_
       \/ calling' \in Queued("cancel")
       \/ calling' \in canceling]_vars

(* stop stops the Timer ("停止定时器", timer.h:36): the loop has cancelled  *)
(* its timer, or is about to if another thread stopped it, so that no      *)
(* callback begins for a stopped Timer, which may be destroyed by then     *)
(* (~Timer, timer.cpp:19-21).  The code does not keep this: a Timer that   *)
(* is due together with another, whose callback stops it, is called.       *)
StoppedIsSilent ==
  [][calling = 0 /\ calling' # 0 /\ ~strayed =>
       isRunning_ \/ calling' \in Queued("cancel")]_vars
=============================================================================
