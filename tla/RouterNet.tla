------------------------------ MODULE RouterNet -----------------------------
(***************************************************************************)
(* One Router (read half) fed by a datagram network that may lose,         *)
(* reorder and duplicate frame-sets: a UDP datagram can arrive twice.  The *)
(* peer sends frame-sets 0..MaxSeqNum in order, each carrying one frame    *)
(* named by its number.  net[s] is how many copies of frame-set s are in   *)
(* flight; the network makes at most MaxDups duplicates in all.  The user  *)
(* may drop the connection's IO at any point, which closes router_tx.  The *)
(* socket task is the client's read task (client/conn/tokio.rs 57-61).     *)
(***************************************************************************)
EXTENDS Router

CONSTANTS
  MaxSeqNum,   \* frame-sets 0..MaxSeqNum are sent
  MaxDups      \* bound on the duplications the network makes

VARIABLES
  sent,   \* frame-sets sent so far: 0..sent-1
  net,    \* copies in flight per sequence number
  dups,   \* duplicates made so far
  refused \* how often deliver returned false to the read task

routerVars == <<seqRead, outAck, outNack, inAck, inNack, waking, parked, rxOpen, upward, delivered>>
vars == <<routerVars, sent, net, dups, refused>>

SeqNums == 0..MaxSeqNum

(* The peer's guard emits its next frame-set.                              *)
Send ==
  /\ sent <= MaxSeqNum
  /\ net' = [net EXCEPT ![sent] = @ + 1]
  /\ sent' = sent + 1
  /\ UNCHANGED <<routerVars, dups, refused>>

(* The network copies a datagram in flight.                                *)
Duplicate(s) ==
  /\ 0 < net[s] /\ dups < MaxDups
  /\ net' = [net EXCEPT ![s] = @ + 1]
  /\ dups' = dups + 1
  /\ UNCHANGED <<routerVars, sent, refused>>

(* The network drops a copy.                                               *)
Lose(s) ==
  /\ 0 < net[s]
  /\ net' = [net EXCEPT ![s] = @ - 1]
  /\ UNCHANGED <<routerVars, sent, dups, refused>>

(* The read task takes a copy off the socket and hands it to              *)
(* Router::deliver, whose try_send on router_tx (link.rs 218) is reached   *)
(* for every FrameSet of an open channel.  On a closed channel deliver     *)
(* returns false; the loop discards the result and reads on.               *)
Receive(s) ==
  /\ 0 < net[s]
  /\ net' = [net EXCEPT ![s] = @ - 1]
  /\ \/ DeliverFrameSet([seq |-> s, frames |-> <<s>>]) /\ UNCHANGED refused
     \/ DeliverClosed /\ refused' = refused + 1
  /\ UNCHANGED <<sent, dups>>

(* The user drops the connection's IO: the frame-set stream built on      *)
(* router_rx goes with it, and router_tx reports closed from then on.      *)
DropIO ==
  /\ rxOpen
  /\ rxOpen' = FALSE
  /\ UNCHANGED <<seqRead, outAck, outNack, inAck, inNack, waking, parked, upward, delivered,
                 sent, net, dups, refused>>

NetInit ==
  /\ Init
  /\ inAck = <<>> /\ inNack = <<>> /\ waking = FALSE /\ parked = FALSE
  /\ sent = 0 /\ net = [s \in SeqNums |-> 0] /\ dups = 0
  /\ refused = 0

Next == Send \/ DropIO \/ \E s \in SeqNums : Duplicate(s) \/ Lose(s) \/ Receive(s)

Spec == NetInit /\ [][Next]_vars
-----------------------------------------------------------------------------
(* Spec 4.4 and 5 (Cancellation): deliver returns false on a dropped      *)
(* channel so that the caller evicts the peer.  For the client's read task that    *)
(* means it stops: once deliver has refused a packet, the task hands the   *)
(* router no further packet (and releases the socket and the link).        *)
EvictOnRefusal == [][refused > 0 => refused' = refused]_vars
=============================================================================
