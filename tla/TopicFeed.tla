----------------------------- MODULE TopicFeed -----------------------------
(***************************************************************************)
(* What a node's message queue promises: of the messages published on an   *)
(* open topic it keeps the newest, as many as there was room for; one at a *)
(* time, the oldest first, is taken for the topic's followers of that      *)
(* moment, and all of them have it before anything else happens.  Lists,   *)
(* maps, the mutex and the loop over the topics are invisible here.        *)
(***************************************************************************)
EXTENDS Integers, Sequences

CONSTANTS Topics, Subscribers,
          Limits       \* the sizes that may be in force

VARIABLES open,        \* the topics messages are kept for
          followers,   \* topic -> the Subscribers it is handed to
          pushed,      \* topic -> how many messages were published on it
          waiting,     \* topic -> how many wait: the newest so many
          due,         \* <<Subscriber, message>> still to be handed over
          received     \* Subscriber -> the messages handed to it, in order

vars == <<open, followers, pushed, waiting, due, received>>

Init == /\ open = {}
        /\ followers = [t \in Topics |-> {}]
        /\ pushed = [t \in Topics |-> 0]
        /\ waiting = [t \in Topics |-> 0]
        /\ due = {}
        /\ received = [s \in Subscribers |-> <<>>]

Open(t) == /\ due = {}
           /\ open' = open \cup {t}
           /\ UNCHANGED <<followers, pushed, waiting, due, received>>

Close(t) == /\ due = {}
            /\ open' = open \ {t}
            /\ followers' = [followers EXCEPT ![t] = {}]
            /\ waiting' = [waiting EXCEPT ![t] = 0]
            /\ UNCHANGED <<pushed, due, received>>

Follow(s, t) == /\ due = {}
                /\ \A u \in Topics : s \notin followers[u]
                /\ followers' = [followers EXCEPT ![t] = @ \cup {s}]
                /\ UNCHANGED <<open, pushed, waiting, due, received>>

(* A message published on a topic that is not open is lost. *)
Publish(t) == /\ due = {}
              /\ pushed' = [pushed EXCEPT ![t] = @ + 1]
              /\ \/ /\ t \notin open
                    /\ UNCHANGED waiting
                 \/ /\ t \in open
                    /\ \E limit \in Limits :
                         waiting' = [waiting EXCEPT ![t] = IF @ >= limit THEN @ ELSE @ + 1]
              /\ UNCHANGED <<open, followers, due, received>>

Take(t) == /\ due = {}
           /\ waiting[t] > 0
           /\ waiting' = [waiting EXCEPT ![t] = @ - 1]
           /\ due' = followers[t] \X {pushed[t] - waiting[t] + 1}
           /\ UNCHANGED <<open, followers, pushed, received>>

Hand(s, n) == /\ <<s, n>> \in due
              /\ due' = due \ {<<s, n>>}
              /\ received' = [received EXCEPT ![s] = Append(@, n)]
              /\ UNCHANGED <<open, followers, pushed, waiting>>

Next == \/ \E t \in Topics : \/ Open(t) \/ Close(t) \/ Publish(t) \/ Take(t)
                             \/ \E s \in Subscribers : Follow(s, t)
        \/ \E d \in due : Hand(d[1], d[2])

Spec == Init /\ [][Next]_vars
=============================================================================
