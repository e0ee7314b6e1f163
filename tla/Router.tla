------------------------------- MODULE Router -------------------------------
(***************************************************************************)
(* The read half of one connection: Router::deliver (src/src/link.rs)      *)
(* with the TransferLink operations it calls.  A frame-set is a record     *)
(* [seq, frames]; an ACK or NACK packet is the set of sequence numbers it  *)
(* covers.                                                                 *)
(***************************************************************************)
EXTENDS Naturals, Sequences, Bags, Link

VARIABLES
  seqRead,   \* Router.seq_read
  outAck,    \* link.outgoing_ack, a bag of sequence numbers
  outNack,   \* link.outgoing_nack
  inAck,     \* link.incoming_ack
  inNack,    \* link.incoming_nack
  waking,    \* link.forward_waking
  parked,    \* the writer sleeps in ResendMap::poll_wait with a timer armed
  rxOpen,    \* router_tx is open: the connection's frame stream is alive
  upward,    \* the set of frames forwarded on router_tx
  delivered  \* history: the sequence numbers of every frame-set delivered

(* A fault: a frame-set arriving late (below seq_read) is acknowledged    *)
(* but not taken out of the gaps.                                          *)
DeliverFrameSetKeepGap(fs) ==
  LET s == fs.seq IN
  /\ rxOpen
  /\ outAck' = outAck (+) SetToBag({s})
  /\ IF seqRead <= s
     THEN /\ outNack' = (outNack \ {s}) \cup seqRead..(s - 1)
          /\ seqRead' = s + 1
     ELSE UNCHANGED <<outNack, seqRead>>
  /\ upward' = upward \cup ToSet(fs.frames)
  /\ delivered' = delivered \cup {s}
  /\ UNCHANGED <<inAck, inNack, waking, parked, rxOpen>>

(* Router::deliver of a FrameSet (link.rs 198-218): ACK the number, drop   *)
(* it from the gaps, NACK every number skipped over, advance seq_read, and *)
(* forward the frame-set.  The channel is unbounded, so try_send fails     *)
(* only when closed, which the first line already excludes.               *)
DeliverFrameSet(fs) ==
  LET s == fs.seq IN
  /\ rxOpen
  /\ outAck' = outAck (+) SetToBag({s})
  /\ IF seqRead <= s
     THEN /\ outNack' = (outNack \ {s}) \cup seqRead..(s - 1)
          /\ seqRead' = s + 1
     ELSE /\ outNack' = outNack \ {s}
          /\ UNCHANGED seqRead
  /\ upward' = upward \cup ToSet(fs.frames)
  /\ delivered' = delivered \cup {s}
  /\ UNCHANGED <<inAck, inNack, waking, parked, rxOpen>>

(* Router::deliver of an Ack: TransferLink::incoming_ack (link.rs 88-113). *)
(* With forward_waking on, every timer of the connection is cancelled and  *)
(* its waker woken.                                                        *)
DeliverAck(p) ==
  /\ rxOpen
  /\ inAck' = ForcePush(inAck, p)
  /\ parked' = (parked /\ ~waking)
  /\ UNCHANGED <<seqRead, outAck, outNack, inNack, waking, rxOpen, upward, delivered>>

(* Router::deliver of a Nack: TransferLink::incoming_nack (link.rs 115-124).*)
DeliverNack(p) ==
  /\ rxOpen
  /\ inNack' = ForcePush(inNack, p)
  /\ UNCHANGED <<seqRead, outAck, outNack, inAck, waking, parked, rxOpen, upward, delivered>>

(* Router::deliver once router_tx is closed (link.rs 198-201): the       *)
(* receiving end was dropped with the connection's IO, so deliver changes *)
(* nothing and returns false, whatever the packet.                         *)
DeliverClosed ==
  /\ ~rxOpen
  /\ UNCHANGED <<seqRead, outAck, outNack, inAck, inNack, waking, parked, rxOpen, upward, delivered>>

Init ==
  /\ seqRead = 0 /\ outAck = EmptyBag /\ outNack = {}
  /\ rxOpen = TRUE /\ upward = {} /\ delivered = {}
=============================================================================
