-------------------------------- MODULE Guard --------------------------------
(***************************************************************************)
(* The write half of one connection: OutgoingGuard (src/src/guard.rs) with *)
(* its ResendMap and the TransferLink operations it calls.  The task that  *)
(* polls the guard is a small state machine: `call` is the Sink method in  *)
(* progress and `phase` the point reached in it, so that every `ready!`    *)
(* on the downstream socket sink is a place where the method may return    *)
(* Pending with the work done so far kept.                                 *)
(*                                                                         *)
(* The resend map (resend_map.rs, not in this repository's sources) is     *)
(* modelled from the spec: a function from sequence number to the frames   *)
(* of that frame-set.  Its RTO is abstracted: at each drain the entries    *)
(* older than some point in time, i.e. below some sequence number, are     *)
(* stale.                                                                  *)
(***************************************************************************)
EXTENDS Naturals, Sequences, SequencesExt, Bags, Link

CONSTANTS
  Frames,        \* frames this side's user may submit
  ReliableFrames,\* those of a reliable reliability
  FrameSize,     \* Frame::size() of each frame
  Budget,        \* peer.mtu - FRAME_SET_HEADER_SIZE
  Mtu,           \* peer.mtu, for ACK / NACK packets
  Cap,           \* send_buf_cap
  MayClose,      \* whether this side's user closes the sink
  Strategy,      \* the FlushStrategy in the task's context: the classes it
                 \* selects, a subset of {"nack", "ack", "pack"}
  MaxSeqNum      \* bound: frame-sets numbered 0..MaxSeqNum-1

ASSUME /\ ReliableFrames \subseteq Frames
       /\ Cap \in Nat \ {0}                       \* assert!(cap > 0), guard.rs 56
       /\ \A f \in Frames : FrameSize[f] <= Budget \* upstream fragments to the MTU

VARIABLES
  buf, seqWrite, resend,        \* OutgoingGuard.buf, seq_num_write_index, resend
  call, phase, ready, closing, closed, submitted,
  outAck, outNack, inAck, inNack, waking, parked, uncon,   \* the link
  wire                                                      \* packets in flight to the peer

Phases == {"idle", "absorb", "loop", "done", "flush"}

guardVars == <<buf, seqWrite, resend, call, phase, ready, closing, closed, submitted>>
linkVars  == <<outAck, outNack, inAck, inNack, waking, parked, uncon>>

-----------------------------------------------------------------------------
(* ResendMap (spec 4.2).                                                   *)

(* on_ack: drop every entry an ACK covers.                                 *)
OnAck(rs, p) == [k \in DOMAIN rs \ p |-> rs[k]]

(* A fault: the frames pushed back but the entries kept in the map.        *)
RequeueKeep(b, rs, keys) ==
  [buf    |-> FoldLeft(LAMBDA acc, k : rs[k] \o acc, b, SortedNats(keys)),
   resend |-> rs]

(* Push the frames of the given entries to the front of buf and drop them  *)
(* from the map: on_nack_into and process_stales.                          *)
Requeue(b, rs, keys) ==
  [buf    |-> FoldLeft(LAMBDA acc, k : rs[k] \o acc, b, SortedNats(keys)),
   resend |-> [k \in DOMAIN rs \ keys |-> rs[k]]]

(* OnAck over every queued ACK, on_nack_into over every queued NACK in     *)
(* order, then process_stales with entries below `stale` stale.            *)
Absorbed(b, rs, acks, nacks, stale) ==
  LET afterAck  == FoldLeft(OnAck, rs, acks)
      afterNack == FoldLeft(LAMBDA st, p : Requeue(st.buf, st.resend, DOMAIN st.resend \cap p),
                            [buf |-> b, resend |-> afterAck], nacks)
  IN  Requeue(afterNack.buf, afterNack.resend, {k \in DOMAIN afterNack.resend : k < stale})

(* The frames popped from the back of buf while they fit (guard.rs 154-176).*)
RECURSIVE Batch(_, _)
Batch(b, remain) ==
  IF b # <<>> /\ FrameSize[Last(b)] <= remain
  THEN <<Last(b)>> \o Batch(Front(b), remain - FrameSize[Last(b)])
  ELSE <<>>

(* FlushStrategy::check_flushed (spec 4.6): the queues of the selected     *)
(* classes are empty.  The default strategy selects all three.             *)
CheckFlushed ==
  /\ "ack"  \in Strategy => outAck = EmptyBag
  /\ "nack" \in Strategy => outNack = {}
  /\ "pack" \in Strategy => uncon = 0 /\ buf = <<>>

-----------------------------------------------------------------------------
(* The user's calls.  poll_ready / poll_flush / poll_close start a drain.  *)

PollReady ==
  /\ call = "none" /\ ~closing
  /\ call' = "ready" /\ phase' = "absorb"
  /\ UNCHANGED <<buf, seqWrite, resend, ready, closing, closed, submitted, linkVars, wire>>

PollFlush ==
  /\ call = "none" /\ ~closing
  /\ call' = "flush" /\ phase' = "absorb" /\ ready' = FALSE
  /\ UNCHANGED <<buf, seqWrite, resend, closing, closed, submitted, linkVars, wire>>

(* poll_close: turn_on_waking, then the loop; re-entered after every       *)
(* Pending until it returns Ready.  A parked task is not polled.           *)
PollClose ==
  /\ MayClose /\ call = "none" /\ ~closed /\ ~parked
  /\ call' = "close" /\ phase' = "absorb" /\ closing' = TRUE /\ waking' = TRUE
  /\ ready' = FALSE
  /\ UNCHANGED <<buf, seqWrite, resend, closed, submitted,
                 outAck, outNack, inAck, inNack, parked, uncon, wire>>

(* start_send right after poll_ready returned Ready, as SinkExt::send does *)
(* it: push_front (guard.rs 230-235).                                      *)
StartSend(f) ==
  /\ ready /\ call = "none" /\ f \in Frames \ submitted
  /\ buf' = <<f>> \o buf
  /\ ready' = FALSE
  /\ submitted' = submitted \cup {f}
  /\ UNCHANGED <<seqWrite, resend, call, phase, closing, closed, linkVars, wire>>

-----------------------------------------------------------------------------
(* try_empty (guard.rs 75-207).                                            *)

(* Lines 78-84: absorb incoming ACKs and NACKs, then the stale entries.    *)
Absorb ==
  /\ phase = "absorb"
  /\ \E stale \in 0..seqWrite :
       \E st \in {Absorbed(buf, resend, inAck, inNack, stale)} :
       /\ buf' = st.buf
       /\ resend' = st.resend
  /\ inAck' = <<>> /\ inNack' = <<>>
  /\ phase' = "loop"
  /\ UNCHANGED <<seqWrite, call, ready, closing, closed, submitted,
                 outAck, outNack, waking, parked, uncon, wire>>

(* One iteration of the loop (lines 94-197) works on the fields it may    *)
(* change, held in a record; each part below is one of its four stages,    *)
(* each preceded by a ready!(poll_ready) on the socket sink.               *)
(* [buf, seqWrite, resend, outAck, uncon, wire]                            *)

(* Lines 96-111: one NACK packet of what fits in the mtu, if selected.     *)
NackPart(st) ==
  [st EXCEPT !.wire = IF outNack = {} \/ "nack" \notin Strategy THEN @
                      ELSE @ \cup {[kind |-> "Nack", seqs |-> ProcessOutgoingNack(outNack, Mtu)]}]

(* A fault: the ACK heap iterated in place like the NACK set, so the      *)
(* numbers sent stay in it.                                                *)
AckPartPeek(st) ==
  IF st.outAck = EmptyBag \/ "ack" \notin Strategy THEN st
  ELSE [st EXCEPT !.wire = @ \cup {[kind |-> "Ack",
                                    seqs |-> ProcessOutgoingAck(st.outAck, Mtu).packet]}]

(* Lines 113-129: one ACK packet, popped from the heap, if selected.       *)
AckPart(st) ==
  LET r == ProcessOutgoingAck(st.outAck, Mtu) IN
  IF st.outAck = EmptyBag \/ "ack" \notin Strategy THEN st
  ELSE [st EXCEPT !.outAck = r.heap,
                  !.wire   = @ \cup {[kind |-> "Ack", seqs |-> r.packet]}]

(* Lines 131-150: unless the strategy skips packets (continue, 131-134),   *)
(* at most one unconnected packet.                                         *)
UnconPart(st) == [st EXCEPT !.uncon = IF @ > 0 /\ "pack" \in Strategy THEN @ - 1 ELSE @]

(* A fault: `reliable` overwritten by each frame popped (line 159-161     *)
(* assigning is_reliable() instead of setting it), so only the last frame  *)
(* popped decides whether the frame-set is kept.                           *)
PackPartLastDecides(st) ==
  LET frames == Batch(st.buf, Budget) IN
  IF frames = <<>> \/ "pack" \notin Strategy THEN st
  ELSE [st EXCEPT
          !.buf      = SubSeq(@, 1, Len(@) - Len(frames)),
          !.wire     = @ \cup {[kind |-> "FrameSet", seq |-> st.seqWrite, frames |-> frames]},
          !.resend   = IF frames[Len(frames)] \in ReliableFrames
                       THEN @ @@ (st.seqWrite :> frames) ELSE @,
          !.seqWrite = @ + 1]

(* Lines 152-196: pack one frame-set, keep it for resending if any of its  *)
(* frames is reliable, and advance the sequence number.                    *)
PackPart(st) ==
  LET frames == Batch(st.buf, Budget) IN
  IF frames = <<>> \/ "pack" \notin Strategy THEN st
  ELSE [st EXCEPT
          !.buf      = SubSeq(@, 1, Len(@) - Len(frames)),
          !.wire     = @ \cup {[kind |-> "FrameSet", seq |-> st.seqWrite, frames |-> frames]},
          !.resend   = IF \E i \in DOMAIN frames : frames[i] \in ReliableFrames
                       THEN @ @@ (st.seqWrite :> frames) ELSE @,
          !.seqWrite = @ + 1]

(* The first k stages of an iteration.                                     *)
Stages(st, k) ==
  LET s1 == IF k >= 1 THEN NackPart(st) ELSE st
      s2 == IF k >= 2 THEN AckPart(s1) ELSE s1
      s3 == IF k >= 3 THEN UnconPart(s2) ELSE s2
  IN  IF k >= 4 THEN PackPart(s3) ELSE s3

(* The fields an iteration changes, as a record, and their update.        *)
Cur == [buf |-> buf, seqWrite |-> seqWrite, resend |-> resend,
        outAck |-> outAck, uncon |-> uncon, wire |-> wire]
SetTo(st) ==
  /\ st.seqWrite <= MaxSeqNum
  /\ buf' = st.buf /\ seqWrite' = st.seqWrite /\ resend' = st.resend
  /\ outAck' = st.outAck /\ uncon' = st.uncon /\ wire' = st.wire

(* Line 94: check_flushed holds, try_empty returns Ready.                   *)
LoopExit ==
  /\ phase = "loop" /\ CheckFlushed
  /\ phase' = "done"
  /\ UNCHANGED <<buf, seqWrite, resend, call, ready, closing, closed, submitted, linkVars, wire>>

(* Lines 94-197: one whole iteration of the loop.                           *)
Iteration ==
  /\ phase = "loop" /\ ~CheckFlushed
  /\ UNCHANGED <<phase, call, ready, closing, closed, submitted,
                 outNack, inAck, inNack, waking, parked>>
  /\ \E s1 \in {NackPart(Cur)} : \E s2 \in {AckPart(s1)} :
       \E s3 \in {UnconPart(s2)} : \E s4 \in {PackPart(s3)} : SetTo(s4)

(* The ready! before stage k+1 finds the socket sink not ready: the stages *)
(* before it are done and the method returns Pending.  poll_ready ignores  *)
(* a Pending drain and answers from the buffer length (lines 216-228).     *)
IterationPending ==
  /\ phase = "loop" /\ ~CheckFlushed
  /\ \E k \in 0..3 :
       LET st == Stages(Cur, k) IN
       /\ SetTo(st)
       /\ ready' = (call = "ready" /\ Len(st.buf) < Cap)
  /\ phase' = "idle" /\ call' = "none"
  /\ UNCHANGED <<closing, closed, submitted, outNack, inAck, inNack, waking, parked>>

(* The socket sink's poll_flush in poll_flush and poll_close is Pending.   *)
FlushPending ==
  /\ phase = "flush"
  /\ call' = "none" /\ phase' = "idle"
  /\ UNCHANGED <<buf, seqWrite, resend, ready, closing, closed, submitted, linkVars, wire>>

-----------------------------------------------------------------------------
(* What each method does once try_empty returned Ready.                    *)

(* poll_ready, guard.rs 219-227.                                           *)
ReadyDone ==
  /\ phase = "done" /\ call = "ready"
  /\ ready' = (Len(buf) < Cap)
  /\ call' = "none" /\ phase' = "idle"
  /\ UNCHANGED <<buf, seqWrite, resend, closing, closed, submitted, linkVars, wire>>

(* The debug_assert of poll_close (lines 249-254), read right after       *)
(* try_empty returned Ready.                                               *)
CloseAssert ==
  /\ buf = <<>>
  /\ UnconnectedEmpty(uncon) /\ OutgoingAckEmpty(outAck) /\ OutgoingNackEmpty(outNack)

(* poll_flush and poll_close go on to flush the socket sink (239, 255).    *)
FlushDownstream ==
  /\ phase = "done" /\ call \in {"flush", "close"}
  /\ phase' = "flush"
  /\ UNCHANGED <<buf, seqWrite, resend, call, ready, closing, closed, submitted, linkVars, wire>>

FlushReturn ==
  /\ phase = "flush" /\ call = "flush"
  /\ call' = "none" /\ phase' = "idle"
  /\ UNCHANGED <<buf, seqWrite, resend, ready, closing, closed, submitted, linkVars, wire>>

(* A fault: the close test made on the buffer instead of the resend map.  *)
CloseStepOnBuf ==
  /\ phase = "flush" /\ call = "close"
  /\ IF buf = <<>>
     THEN /\ waking' = FALSE /\ closed' = TRUE
          /\ call' = "none" /\ phase' = "idle"
          /\ UNCHANGED parked
     ELSE \/ /\ phase' = "absorb"
             /\ UNCHANGED <<call, waking, closed, parked>>
          \/ /\ parked' = TRUE /\ call' = "none" /\ phase' = "idle"
             /\ UNCHANGED <<waking, closed>>
  /\ UNCHANGED <<buf, seqWrite, resend, ready, closing, submitted,
                 outAck, outNack, inAck, inNack, uncon, wire>>

(* poll_close, lines 256-268: with the resend map empty, turn waking off   *)
(* and close; otherwise poll_wait on the earliest timeout, which is Ready  *)
(* when it has already passed (go round the loop) and Pending otherwise    *)
(* (the task parks until the timer fires or an ACK cancels it).            *)
CloseStep ==
  /\ phase = "flush" /\ call = "close"
  /\ IF DOMAIN resend = {}
     THEN /\ waking' = FALSE /\ closed' = TRUE
          /\ call' = "none" /\ phase' = "idle"
          /\ UNCHANGED parked
     ELSE \/ /\ phase' = "absorb"
             /\ UNCHANGED <<call, waking, closed, parked>>
          \/ /\ parked' = TRUE /\ call' = "none" /\ phase' = "idle"
             /\ UNCHANGED <<waking, closed>>
  /\ UNCHANGED <<buf, seqWrite, resend, ready, closing, submitted,
                 outAck, outNack, inAck, inNack, uncon, wire>>

(* The resend timer of a parked task fires.                                *)
TimerFires ==
  /\ parked
  /\ parked' = FALSE
  /\ UNCHANGED <<guardVars, outAck, outNack, inAck, inNack, waking, uncon, wire>>

Init ==
  /\ buf = <<>> /\ seqWrite = 0 /\ resend = <<>>
  /\ call = "none" /\ phase = "idle" /\ ready = FALSE
  /\ closing = FALSE /\ closed = FALSE /\ submitted = {}

Next ==
  \/ PollReady \/ PollFlush \/ PollClose \/ \E f \in Frames : StartSend(f)
  \/ Absorb \/ LoopExit \/ Iteration \/ IterationPending \/ FlushPending \/ ReadyDone \/ FlushDownstream \/ FlushReturn \/ CloseStep
  \/ TimerFires
=============================================================================
