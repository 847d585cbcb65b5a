-------------------------- MODULE MasterTcpServer --------------------------
(***************************************************************************)
(* How the master delivers an update to a node (master_tcp_server.cpp).    *)
(* SendUpdate, called by rpc threads, queues SendUpdateToNode on the event *)
(* loop; there the update is cached under the node's ip:port, a temporary  *)
(* TcpClient is made and stored under the same key, and the connection's   *)
(* callbacks send the cached update, close the connection and drop the     *)
(* client.  Stop may be called by another thread, and takes the mutex.     *)
(*                                                                         *)
(* Updates are numbered in the order they are posted; the client made for  *)
(* an update, and its connection, carry the update's number.  What muduo   *)
(* does (the functor queue, the life of a TcpClient) is external.          *)
(***************************************************************************)
EXTENDS Integers, Functions, SequencesExt

CONSTANTS Peers,        \* ip:port keys of nodes
          NoPeer,       \* the empty address of a node that was not found
          MaxUpdates,   \* bound: how many updates are ever posted
          MaxStops      \* bound: how often Stop is called

ASSUME PeersAssumption == NoPeer \notin Peers
ASSUME BoundsAssumption == MaxUpdates \in Nat /\ MaxStops \in Nat

VARIABLES functors,          \* the event loop's queue: <<what, update>>
          peerOf,            \* update -> the key it was posted for
          storing,           \* the update SendUpdateToNode has cached and not
                             \* yet given a client; none is 0
          pending_updates_,  \* key -> the update cached for it
          active_clients_,   \* key -> the client stored for it
          conn,              \* client -> the state of its connection
          sent,              \* key -> the updates sent to it, in order
          stops              \* calls of Stop so far

vars == <<functors, peerOf, storing, pending_updates_, active_clients_, conn,
          sent, stops>>

Updates == DOMAIN peerOf

(* "none": no client yet, or none made (address empty);                    *)
(* "connecting": trying, again and again, until it succeeds;               *)
(* "writing": up, the update given to the socket; "idle": up, no update;   *)
(* "shut": half-closed by OnWriteComplete; "down": closed;                 *)
(* "cancelled": the client was destroyed before it had connected;          *)
(* "orphan": the client was destroyed while the queue still held the       *)
(* connection; "lost": such a connection, released without a callback.     *)
States == {"none", "connecting", "writing", "idle", "shut", "down",
           "cancelled", "orphan", "lost"}
Open == {"writing", "idle", "shut", "orphan"}

EmptyMap == [x \in {} |-> {}]

Put(map, x, v) == [y \in DOMAIN map \cup {x} |-> IF y = x THEN v ELSE map[y]]
Erase(map, x)  == Restrict(map, DOMAIN map \ {x})

Init == /\ functors = <<>>
        /\ peerOf = <<>>
        /\ storing = 0
        /\ pending_updates_ = EmptyMap
        /\ active_clients_ = EmptyMap
        /\ conn = <<>>
        /\ sent = [p \in Peers |-> <<>>]
        /\ stops = 0

-----------------------------------------------------------------------------
(* A TcpClient loses its last owner.  While connecting it gives up, with   *)
(* no callback.  An open connection that nobody else holds is closed, by a *)
(* functor, and OnConnection will be called; one that the queued           *)
(* OnWriteComplete still holds is left as it is.                           *)

Destroyed(state) ==
  CASE state = "connecting" -> "cancelled"
    [] state = "writing"    -> "orphan"
    [] OTHER                -> state

Closing(clients) ==
  SetToSeq({<<"forceClose", c>> : c \in {d \in clients : conn[d] \in {"idle", "shut"}}})

(* The connections, and the queue, after these clients were destroyed. *)
ConnAfter(clients) ==
  [c \in DOMAIN conn |-> IF c \in clients THEN Destroyed(conn[c]) ELSE conn[c]]

OwnerOf(p) == IF p \in DOMAIN active_clients_ THEN {active_clients_[p]} ELSE {}

-----------------------------------------------------------------------------
(* Faulty variant: the loop's queue is a stack. *)
SendUpdateInFront(p) ==
  LET u == Len(peerOf) + 1
  IN  /\ u <= MaxUpdates
      /\ peerOf' = Append(peerOf, p)
      /\ conn' = Append(conn, "none")
      /\ functors' = <<<<"SendUpdateToNode", u>>>> \o functors
      /\ UNCHANGED <<storing, pending_updates_, active_clients_, sent, stops>>

(* An rpc thread posts an update for a node it looked up. *)
SendUpdate(p) ==
  LET u == Len(peerOf) + 1
  IN  /\ u <= MaxUpdates
      /\ peerOf' = Append(peerOf, p)
      /\ conn' = Append(conn, "none")
      /\ functors' = Append(functors, <<"SendUpdateToNode", u>>)
      /\ UNCHANGED <<storing, pending_updates_, active_clients_, sent, stops>>

(* The event loop runs the functor at the head of its queue. *)
Runs(what, c) ==
  /\ storing = 0
  /\ functors # <<>>
  /\ Head(functors) = <<what, c>>

(* SendUpdateToNode, first critical section: the update is cached under    *)
(* the key, in place of one that is there.                                 *)
SendUpdateToNode(u) ==
  /\ Runs("SendUpdateToNode", u)
  /\ functors' = Tail(functors)
  /\ IF peerOf[u] = NoPeer
     THEN UNCHANGED <<storing, pending_updates_>>
     ELSE /\ pending_updates_' = Put(pending_updates_, peerOf[u], u)
          /\ storing' = u
  /\ UNCHANGED <<peerOf, active_clients_, conn, sent, stops>>

(* Faulty variant: a client already stored stays, as map::emplace would    *)
(* have it, and the new one connects all the same.                         *)
StoreClientIfAbsent ==
  LET p == peerOf[storing]
  IN  /\ storing # 0
      /\ active_clients_' = IF p \in DOMAIN active_clients_ THEN active_clients_
                            ELSE Put(active_clients_, p, storing)
      /\ conn' = [conn EXCEPT ![storing] = "connecting"]
      /\ storing' = 0
      /\ UNCHANGED <<functors, peerOf, pending_updates_, sent, stops>>

(* Second critical section: the new client takes the key, which destroys   *)
(* the client that had it; then the new one starts to connect.             *)
StoreClient ==
  LET p   == peerOf[storing]
      old == OwnerOf(p)
  IN  /\ storing # 0
      /\ active_clients_' = Put(active_clients_, p, storing)
      /\ conn' = [ConnAfter(old) EXCEPT ![storing] = "connecting"]
      /\ functors' = functors \o Closing(old)
      /\ storing' = 0
      /\ UNCHANGED <<peerOf, pending_updates_, sent, stops>>

(* OnConnection, UP: what is cached under the peer's key is taken and      *)
(* sent.  With nothing cached the handler returns and leaves the           *)
(* connection open.                                                        *)
OnConnectionUp(c) ==
  LET p == peerOf[c]
  IN  /\ storing = 0
      /\ conn[c] = "connecting"
      /\ IF p \in DOMAIN pending_updates_
         THEN /\ sent' = [sent EXCEPT ![p] = Append(@, pending_updates_[p])]
              /\ pending_updates_' = Erase(pending_updates_, p)
              /\ conn' = [conn EXCEPT ![c] = "writing"]
              /\ functors' = Append(functors, <<"OnWriteComplete", c>>)
         ELSE /\ conn' = [conn EXCEPT ![c] = "idle"]
              /\ UNCHANGED <<sent, pending_updates_, functors>>
      /\ UNCHANGED <<peerOf, storing, active_clients_, stops>>

(* Faulty variant: the connection is not shut down. *)
OnWriteCompleteIgnored(c) ==
  /\ Runs("OnWriteComplete", c)
  /\ functors' = Tail(functors)
  /\ UNCHANGED <<peerOf, storing, pending_updates_, active_clients_, conn, sent, stops>>

(* OnWriteComplete shuts the connection's sending side down.  An orphan    *)
(* had its last owner in this functor and is released after it.            *)
OnWriteComplete(c) ==
  /\ Runs("OnWriteComplete", c)
  /\ functors' = Tail(functors)
  /\ conn' = [conn EXCEPT ![c] = CASE @ = "writing" -> "shut"
                                   [] @ = "orphan"  -> "lost"
                                   [] OTHER         -> @]
  /\ UNCHANGED <<peerOf, storing, pending_updates_, active_clients_, sent, stops>>

(* OnConnection, DOWN: whatever client is stored under the peer's key is   *)
(* dropped, and destroyed; `queue` is what is left of the functor queue.   *)
OnConnectionDown(c, queue) ==
  LET p      == peerOf[c]
      others == OwnerOf(p) \ {c}
  IN  /\ active_clients_' = Erase(active_clients_, p)
      /\ conn' = [ConnAfter(others) EXCEPT ![c] = "down"]
      /\ functors' = queue \o Closing(others)
      /\ UNCHANGED <<peerOf, storing, pending_updates_, sent, stops>>

(* The peer closes its side, at the end of the stream or on its own.  The  *)
(* loop runs OnWriteComplete before it polls the connection again.         *)
PeerCloses(c) ==
  /\ storing = 0
  /\ conn[c] \in {"idle", "shut"}
  /\ OnConnectionDown(c, functors)

(* The functor that a destroyed client left for its connection. *)
ForceClose(c) ==
  /\ Runs("forceClose", c)
  /\ IF conn[c] \in Open
     THEN OnConnectionDown(c, Tail(functors))
     ELSE /\ functors' = Tail(functors)
          /\ UNCHANGED <<peerOf, storing, pending_updates_, active_clients_,
                         conn, sent, stops>>

(* Stop, by another thread: both maps are cleared. *)
Stop ==
  LET clients == Range(active_clients_)
  IN  /\ stops < MaxStops
      /\ stops' = stops + 1
      /\ active_clients_' = EmptyMap
      /\ pending_updates_' = EmptyMap
      /\ conn' = ConnAfter(clients)
      /\ functors' = functors \o Closing(clients)
      /\ UNCHANGED <<peerOf, storing, sent>>

RunFunctor == \E c \in Updates : \/ SendUpdateToNode(c)
                                 \/ OnWriteComplete(c)
                                 \/ ForceClose(c)

Next == \/ \E p \in Peers \cup {NoPeer} : SendUpdate(p)
        \/ RunFunctor
        \/ StoreClient
        \/ \E c \in Updates : OnConnectionUp(c) \/ PeerCloses(c)
        \/ Stop

Spec == Init /\ [][Next]_vars

(* The event loop runs what is queued; a peer listens, so that the retries *)
(* of the connector succeed in the end, and closes after a half-close.     *)
Fairness ==
  /\ WF_vars(RunFunctor)
  /\ WF_vars(StoreClient)
  /\ \A c \in 1..MaxUpdates :
       /\ WF_vars(c \in Updates /\ OnConnectionUp(c))
       /\ WF_vars(c \in Updates /\ conn[c] = "shut" /\ PeerCloses(c))

FairSpec == Spec /\ Fairness

-----------------------------------------------------------------------------
(* Properties. *)

IsMap(map, Keys, Values) ==
  /\ DOMAIN map \subseteq Keys
  /\ map \in [DOMAIN map -> Values]

(* Type invariant: the cached updates, the stored clients, their           *)
(* connections and the queued functors refer to updates that were posted.  *)
TypeOK == /\ peerOf \in Seq(Peers \cup {NoPeer})
          /\ \A f \in Range(functors) :
               f \in {"SendUpdateToNode", "OnWriteComplete", "forceClose"} \X Updates
          /\ storing \in Updates \cup {0}
          /\ IsMap(pending_updates_, Peers, Updates)
          /\ IsMap(active_clients_, Peers, Updates)
          /\ conn \in [Updates -> States]
          /\ sent \in [Peers -> Seq(Updates)]
          /\ stops \in 0..MaxStops

(* Every open connection is either still owned or about to be released by  *)
(* a functor in the queue: none is left open for good without an owner.    *)
NoLeakedConnection ==
  \A c \in Updates : conn[c] \in Open =>
    \/ c \in OwnerOf(peerOf[c])
    \/ \E f \in {"OnWriteComplete", "forceClose"} : <<f, c>> \in Range(functors)

(* The updates that have reached SendUpdateToNode for a peer. *)
HandledFor(p) ==
  {u \in Updates : peerOf[u] = p /\ <<"SendUpdateToNode", u>> \notin Range(functors)}

(* What the outbox sees: the cached update of each peer, and the newest    *)
(* that was handled for it.                                                *)
WaitingFor == [p \in Peers |-> IF p \in DOMAIN pending_updates_
                               THEN pending_updates_[p] ELSE 0]
NewestFor  == [p \in Peers |-> Max(HandledFor(p) \cup {0})]

Outbox == INSTANCE TargetsOutbox WITH
  Updates <- 1..MaxUpdates, waiting <- WaitingFor, accepted <- NewestFor

(* The cache, the temporary clients and their callbacks implement the      *)
(* outbox: each update is sent at most once, to the peer it was posted     *)
(* for, in the order of posting, and the newest that was handled is cached *)
(* or sent unless the server is stopped.                                   *)
ImplementsOutbox == Outbox!Spec

(* A client that comes up finds the update it was made for in the cache,   *)
(* unless the server was stopped: the overwriting of the cache, the        *)
(* replacement of the client and the callbacks keep the two maps in step.  *)
UpSendsOwnUpdate ==
  [][\A c \in Updates :
       (stops = 0 /\ OnConnectionUp(c)) => c \in Range(sent'[peerOf[c]])]_vars

(* Once no more updates are posted every connection is closed and every    *)
(* client dropped, unless the server is stopped: the temporary connections *)
(* do not accumulate.                                                      *)
ClientsReleased ==
  <>[](\/ stops > 0
       \/ /\ DOMAIN active_clients_ = {}
          /\ \A c \in Updates : conn[c] \notin Open \cup {"connecting"})

(* What is cached is to be sent by a client that is stored for its peer:   *)
(* "if the connection fails, the cached data is cleaned up"                *)
(* (master_tcp_server.cpp:77).  A late DOWN drops the next client only.    *)
PendingHasClient ==
  \A p \in DOMAIN pending_updates_ :
    p \in DOMAIN active_clients_ \/ (storing # 0 /\ peerOf[storing] = p)
=============================================================================
