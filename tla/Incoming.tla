------------------------------ MODULE Incoming ------------------------------
(***************************************************************************)
(* The server's Incoming dispatcher (src/src/server/incoming/tokio.rs):   *)
(* a Stream polled by the server's accept loop.  It keeps a map from peer *)
(* address to the sending end of that peer's frame-set channel, forwards  *)
(* each packet the offline handler yields to the peer's channel, and      *)
(* yields a new connection (IO) for a peer it does not know.  Dropping a  *)
(* connection's IO closes its channel and pushes the peer's address onto  *)
(* the drop channel, which poll_next drains before it polls the socket.   *)
(*                                                                         *)
(* A connection is a number 1..Len(owner); owner[c] is its peer.  The      *)
(* tasks that own the connections run concurrently with the dispatcher,   *)
(* so a drop may happen between any two steps of poll_next.               *)
(***************************************************************************)
EXTENDS Naturals, Sequences, SequencesExt, Functions

CONSTANTS
  Peers,     \* peer socket addresses
  MaxConns   \* bound on the number of connections ever created

ASSUME MaxConns \in Nat \ {0}

VARIABLES
  router,    \* Incoming.router: peer -> connection whose router_tx it holds
  dropQ,     \* the drop channel (drop_receiver), unbounded
  known,     \* the peers whose handshake the offline handler has completed
  owner,     \* owner[c]: the peer of connection c
  live,      \* connections whose IO (and so router_rx) is still held
  pc         \* "idle" between calls of poll_next, "loop" inside its loop

vars == <<router, dropQ, known, owner, live, pc>>

Conns == 1..Len(owner)

Unroute(p) == Restrict(router, DOMAIN router \ {p})

(* A fault: poll_next that goes straight to the socket without clearing   *)
(* the dropped addresses.                                                  *)
PollNextNoClear ==
  /\ pc = "idle"
  /\ pc' = "loop"
  /\ UNCHANGED <<router, dropQ, known, owner, live>>

(* A fault: the drop channel is drained and the offline handler told, but *)
(* the routes are kept.                                                   *)
ClearDroppedKeepRoutes ==
  /\ known' = known \ ToSet(dropQ)
  /\ dropQ' = <<>>
  /\ UNCHANGED router

(* clear_dropped_addr (lines 47-53): every address queued on the drop     *)
(* channel is removed from the map and disconnected from the offline      *)
(* handler.                                                               *)
ClearDropped ==
  /\ router' = Restrict(router, DOMAIN router \ ToSet(dropQ))
  /\ known' = known \ ToSet(dropQ)
  /\ dropQ' = <<>>

(* poll_next (lines 78-82): clear the dropped addresses, enter the loop.  *)
PollNext ==
  /\ pc = "idle"
  /\ ClearDropped
  /\ pc' = "loop"
  /\ UNCHANGED <<owner, live>>

(* The offline handler, polled at line 83, completes a handshake with p   *)
(* and keeps going (it yields only connected packets).                    *)
Handshake(p) ==
  /\ pc = "loop" /\ p \notin known
  /\ known' = known \cup {p}
  /\ UNCHANGED <<router, dropQ, owner, live, pc>>

(* Lines 83-93: a connected packet of a known peer.  router_tx.send fails *)
(* only when the connection's IO, which holds router_rx, was dropped:     *)
(* then the peer is removed and disconnected; either way the loop goes on.*)
Dispatch(p) ==
  /\ pc = "loop" /\ p \in known /\ p \in DOMAIN router
  /\ IF router[p] \in live
     THEN UNCHANGED <<router, known>>
     ELSE /\ router' = Unroute(p)
          /\ known' = known \ {p}
  /\ UNCHANGED <<dropQ, owner, live, pc>>

(* Lines 94-140: a packet of a peer with no route: a new channel gets the *)
(* packet, the route is inserted, a new TransferLink and both pipelines   *)
(* are built, and poll_next returns the new IO.                           *)
NewConn(p) ==
  /\ pc = "loop" /\ p \in known /\ p \notin DOMAIN router
  /\ Len(owner) < MaxConns
  /\ LET c == Len(owner) + 1 IN
     /\ owner' = Append(owner, p)
     /\ router' = router @@ (p :> c)
     /\ live' = live \cup {c}
  /\ pc' = "idle"
  /\ UNCHANGED <<dropQ, known>>

(* Line 83: the offline stream has nothing ready; poll_next is Pending.   *)
Pending ==
  /\ pc = "loop"
  /\ pc' = "idle"
  /\ UNCHANGED <<router, dropQ, known, owner, live>>

(* The user drops connection c's IO: router_rx is dropped with it, and    *)
(* the online handler's drop notifier sends the peer's address.           *)
DropIO(c) ==
  /\ c \in live
  /\ live' = live \ {c}
  /\ dropQ' = Append(dropQ, owner[c])
  /\ UNCHANGED <<router, known, owner, pc>>

(* make_incoming (lines 57-72): empty map and drop channel.               *)
Init ==
  /\ router = <<>> /\ dropQ = <<>> /\ known = {}
  /\ owner = <<>> /\ live = {} /\ pc = "idle"

Next ==
  \/ PollNext \/ Pending
  \/ \E p \in Peers : Handshake(p) \/ Dispatch(p) \/ NewConn(p)
  \/ \E c \in live : DropIO(c)

Spec == Init /\ [][Next]_vars

(* Fairness.  The server's accept loop keeps polling the Incoming stream   *)
(* (it awaits its next item), and the offline stream does not yield        *)
(* packets forever within one poll: the socket runs dry or tokio's         *)
(* cooperative budget makes it return Pending.                             *)
FairSpec == Spec /\ WF_vars(PollNext) /\ WF_vars(Pending)
-----------------------------------------------------------------------------
(* Spec 4.7 / 5: the map never keeps a route to a dropped connection      *)
(* unless that connection's drop notice is still queued, to be applied by *)
(* the next poll_next: a dead peer entry is never leaked.                 *)
DeadRouteNoticed ==
  \A p \in DOMAIN router : router[p] \notin live => p \in ToSet(dropQ)

(* Spec 5: the map does not leak: a connection whose IO was dropped       *)
(* eventually has no route, whether or not its peer sends again.           *)
DroppedRouteRemoved ==
  \A c \in 1..MaxConns :
    (c \in Conns /\ c \notin live /\ c \in Range(router)) ~> c \notin Range(router)

(* Spec 4.7: a connection whose IO is held receives its peer's packets:   *)
(* the map routes its peer to it.                                         *)
LiveConnRouted ==
  \A c \in live : owner[c] \in DOMAIN router /\ router[owner[c]] = c
=============================================================================
