--------------------------- MODULE TargetsOutbox ---------------------------
(***************************************************************************)
(* What the master's delivery promises for the updates of one node: a      *)
(* place for the newest one.  An update that is accepted takes the place   *)
(* of one that waits, what waits is sent once, and a stop drops it.        *)
(* Clients, connections and callbacks are invisible here.                  *)
(***************************************************************************)
EXTENDS Naturals, Sequences

CONSTANTS Peers,    \* ip:port keys of nodes
          Updates   \* updates: numbers from 1, in the order they are posted

VARIABLES waiting,   \* peer -> the update that waits for it; none is 0
          accepted,  \* peer -> the newest update accepted for it, or 0
          sent       \* peer -> the updates sent to it, in order

vars == <<waiting, accepted, sent>>

Init == /\ waiting = [p \in Peers |-> 0]
        /\ accepted = [p \in Peers |-> 0]
        /\ sent = [p \in Peers |-> <<>>]

Accept(p, u) ==
  /\ u > accepted[p]
  /\ accepted' = [accepted EXCEPT ![p] = u]
  /\ waiting' = [waiting EXCEPT ![p] = u]
  /\ UNCHANGED sent

Send(p) ==
  /\ waiting[p] # 0
  /\ sent' = [sent EXCEPT ![p] = Append(@, waiting[p])]
  /\ waiting' = [waiting EXCEPT ![p] = 0]
  /\ UNCHANGED accepted

Stop == /\ waiting' = [p \in Peers |-> 0]
        /\ UNCHANGED <<accepted, sent>>

Next == \/ \E p \in Peers : Send(p) \/ \E u \in Updates : Accept(p, u)
        \/ Stop

Spec == Init /\ [][Next]_vars

-----------------------------------------------------------------------------
(* Type invariant of the outbox. *)
TypeOK == /\ waiting \in [Peers -> Updates \cup {0}]
          /\ accepted \in [Peers -> Updates \cup {0}]
          /\ sent \in [Peers -> Seq(Updates)]

(* No update is sent twice, and those of one peer are sent in the order    *)
(* they were posted (the cache is emptied "to avoid sending again",        *)
(* master_tcp_server.cpp:113).                                             *)
SentInOrder ==
  \A p \in Peers : \A i, j \in 1..Len(sent[p]) : i < j => sent[p][i] < sent[p][j]
=============================================================================
