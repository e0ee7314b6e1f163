----------------------------- MODULE Connection -----------------------------
(***************************************************************************)
(* One RakNet connection between a sender S and a receiver R over a lossy, *)
(* reordering datagram network.  Each side has a TransferLink shared by    *)
(* its Router (read half) and its OutgoingGuard (write half):              *)
(*   S's user submits frames to S's guard, which packs frame-sets onto     *)
(*   toR and keeps the reliable ones in its resend map;                    *)
(*   R's router acknowledges and NACKs them through R's link, and R's      *)
(*   guard (polled by R's online handler, which sends no data here) puts   *)
(*   the ACK and NACK packets onto toS;                                    *)
(*   S's router queues them on S's link for S's guard to absorb.           *)
(* A packet in flight is an element of the set toR or toS: any of them may *)
(* be received next (reordering) or lost.                                  *)
(***************************************************************************)
EXTENDS Naturals, Sequences, SequencesExt, Bags, FiniteSets

CONSTANTS
  Frames, ReliableFrames, FrameSize, Budget, Mtu, Cap, MaxSeqNum,
  MAX_ACK_BUFFER,
  MaxUnconnected,  \* bound on queued unconnected packets (pings)
  SStrategy        \* the FlushStrategy in the context of S's guard task

VARIABLES
  sBuf, sSeqWrite, sResend, sCall, sPhase, sReady, sClosing, sClosed, sSubmitted,
  sOutAck, sOutNack, sInAck, sInNack, sWaking, sParked, sUncon,
  sSeqRead, sRxOpen, sUpward, sDelivered,
  rBuf, rSeqWrite, rResend, rCall, rPhase, rReady, rClosing, rClosed, rSubmitted,
  rOutAck, rOutNack, rInAck, rInNack, rWaking, rParked, rUncon,
  rSeqRead, rRxOpen, rUpward, rDelivered,
  toR, toS

sGuard  == <<sBuf, sSeqWrite, sResend, sCall, sPhase, sReady, sClosing, sClosed, sSubmitted>>
sLink   == <<sOutAck, sOutNack, sInAck, sInNack, sWaking, sParked, sUncon>>
sReader == <<sSeqRead, sRxOpen, sUpward, sDelivered>>
rGuard  == <<rBuf, rSeqWrite, rResend, rCall, rPhase, rReady, rClosing, rClosed, rSubmitted>>
rLink   == <<rOutAck, rOutNack, rInAck, rInNack, rWaking, rParked, rUncon>>
rReader == <<rSeqRead, rRxOpen, rUpward, rDelivered>>
vars == <<sGuard, sLink, sReader, rGuard, rLink, rReader, toR, toS>>

SG == INSTANCE Guard WITH
        buf <- sBuf, seqWrite <- sSeqWrite, resend <- sResend, call <- sCall,
        phase <- sPhase, ready <- sReady, closing <- sClosing, closed <- sClosed,
        submitted <- sSubmitted, outAck <- sOutAck, outNack <- sOutNack,
        inAck <- sInAck, inNack <- sInNack, waking <- sWaking, parked <- sParked,
        uncon <- sUncon, wire <- toR, MayClose <- TRUE, Strategy <- SStrategy
RG == INSTANCE Guard WITH
        buf <- rBuf, seqWrite <- rSeqWrite, resend <- rResend, call <- rCall,
        phase <- rPhase, ready <- rReady, closing <- rClosing, closed <- rClosed,
        submitted <- rSubmitted, outAck <- rOutAck, outNack <- rOutNack,
        inAck <- rInAck, inNack <- rInNack, waking <- rWaking, parked <- rParked,
        uncon <- rUncon, wire <- toS, Frames <- {}, ReliableFrames <- {},
        MayClose <- FALSE, Strategy <- {"nack", "ack", "pack"}
SR == INSTANCE Router WITH
        seqRead <- sSeqRead, outAck <- sOutAck, outNack <- sOutNack, inAck <- sInAck,
        inNack <- sInNack, waking <- sWaking, parked <- sParked, rxOpen <- sRxOpen,
        upward <- sUpward, delivered <- sDelivered
RR == INSTANCE Router WITH
        seqRead <- rSeqRead, outAck <- rOutAck, outNack <- rOutNack, inAck <- rInAck,
        inNack <- rInNack, waking <- rWaking, parked <- rParked, rxOpen <- rRxOpen,
        upward <- rUpward, delivered <- rDelivered

(* A step of one side's guard task leaves the other side and its own       *)
(* reader alone.                                                           *)
S(A) == UNCHANGED <<sReader, rGuard, rLink, rReader, toS>> /\ A
R(A) == UNCHANGED <<sGuard, sLink, sReader, rReader, toR>> /\ A

(* The online handler queues an unconnected packet (a ping) on S's link:   *)
(* TransferLink::send_unconnected.  It runs on the read task, so it may do *)
(* so at any time, while S's guard is closing too.                         *)
SendPing ==
  /\ sUncon < MaxUnconnected
  /\ sUncon' = sUncon + 1
  /\ UNCHANGED <<sGuard, sOutAck, sOutNack, sInAck, sInNack, sWaking, sParked,
                 sReader, rGuard, rLink, rReader, toR, toS>>

(* R's socket task receives a frame-set and hands it to R's router.        *)
ReceiveAtR ==
  \E m \in toR :
    /\ toR' = toR \ {m}
    /\ RR!DeliverFrameSet(m)
    /\ UNCHANGED <<sGuard, sLink, sReader, rGuard, rUncon, toS>>

(* S's socket task receives an ACK or NACK and hands it to S's router.     *)
ReceiveAtS ==
  \E m \in toS :
    /\ toS' = toS \ {m}
    /\ \/ m.kind = "Ack" /\ SR!DeliverAck(m.seqs)
       \/ m.kind = "Nack" /\ SR!DeliverNack(m.seqs)
    /\ UNCHANGED <<sGuard, sUncon, rGuard, rLink, rReader, toR>>

(* The network drops a datagram.                                           *)
Lose ==
  \/ \E m \in toR : toR' = toR \ {m} /\ UNCHANGED toS
  \/ \E m \in toS : toS' = toS \ {m} /\ UNCHANGED toR
Loss == Lose /\ UNCHANGED <<sGuard, sLink, sReader, rGuard, rLink, rReader>>

Init ==
  /\ SG!Init /\ RG!Init /\ SR!Init /\ RR!Init
  /\ sInAck = <<>> /\ sInNack = <<>> /\ sWaking = FALSE /\ sParked = FALSE /\ sUncon = 0
  /\ rInAck = <<>> /\ rInNack = <<>> /\ rWaking = FALSE /\ rParked = FALSE /\ rUncon = 0
  /\ toR = {} /\ toS = {}

(* S's user submits, flushes and closes; R's online handler only polls     *)
(* R's guard (ready and flush): it never submits or closes here, so R's    *)
(* StartSend, PollClose, CloseStep and TimerFires cannot occur.            *)
Next ==
  \/ S(SG!PollReady) \/ S(SG!PollFlush) \/ S(SG!PollClose)
  \/ \E f \in Frames : S(SG!StartSend(f))
  \/ S(SG!Absorb) \/ S(SG!LoopExit) \/ S(SG!Iteration) \/ S(SG!IterationPending)
  \/ S(SG!FlushPending) \/ S(SG!ReadyDone) \/ S(SG!FlushDownstream)
  \/ S(SG!FlushReturn) \/ S(SG!CloseStep) \/ S(SG!TimerFires)
  \/ R(RG!PollReady) \/ R(RG!PollFlush)
  \/ R(RG!Absorb) \/ R(RG!LoopExit) \/ R(RG!Iteration) \/ R(RG!IterationPending)
  \/ R(RG!FlushPending) \/ R(RG!ReadyDone) \/ R(RG!FlushDownstream) \/ R(RG!FlushReturn)
  \/ SendPing \/ ReceiveAtR \/ ReceiveAtS \/ Loss

Spec == Init /\ [][Next]_vars
-----------------------------------------------------------------------------
(* Fairness.  R's online handler keeps polling R's guard (poll_flush), and *)
(* a UDP socket does not stay unwritable forever, so a drain step that is  *)
(* enabled again and again is eventually taken.  Nor does a drain write    *)
(* forever without a Pending: tokio's cooperative budget makes the socket *)
(* sink Pending after a bounded number of sends, so a drain that has not  *)
(* finished eventually returns Pending (IterationPending).  Nothing is     *)
(* assumed of the network or of S.                                         *)
RDrains ==
  /\ WF_vars(R(RG!PollFlush)) /\ WF_vars(R(RG!IterationPending))
  /\ SF_vars(R(RG!Absorb)) /\ SF_vars(R(RG!Iteration))
  /\ SF_vars(R(RG!LoopExit))
  /\ SF_vars(R(RG!FlushDownstream)) /\ SF_vars(R(RG!FlushReturn))
  /\ SF_vars(R(RG!ReadyDone))

FairSpec == Spec /\ RDrains

-----------------------------------------------------------------------------
SeqNums == 0..MaxSeqNum
Packets == [kind : {"Ack", "Nack"}, seqs : SUBSET SeqNums]
           \cup [kind : {"FrameSet"}, seq : SeqNums, frames : Seq(Frames)]

TypeOK ==
  /\ sBuf \in Seq(Frames) /\ sSeqWrite \in SeqNums
  /\ DOMAIN sResend \subseteq SeqNums
  /\ sCall \in {"none", "ready", "flush", "close"} /\ sPhase \in SG!Phases
  /\ rCall \in {"none", "ready", "flush", "close"} /\ rPhase \in RG!Phases
  /\ rSeqRead \in SeqNums /\ rOutNack \subseteq SeqNums
  /\ BagToSet(rOutAck) \subseteq SeqNums
  /\ \A m \in toR \cup toS : m \in Packets
  /\ sInAck \in Seq(SUBSET SeqNums) /\ Len(sInAck) <= MAX_ACK_BUFFER

InResend(f) == \E k \in DOMAIN sResend : \E i \in DOMAIN sResend[k] : sResend[k][i] = f

(* I1: a reliable frame submitted to S's guard is never given up before R  *)
(* forwarded it: it is still in S's buffer, or kept in the resend map, or  *)
(* R's router has passed it upward.  Breaking it takes an ACK covering a   *)
(* frame-set R never saw, or a frame-set with a reliable frame that is not *)
(* recorded, or a NACK / stale re-queue that loses frames.                 *)
ReliableNotLost ==
  \A f \in sSubmitted \cap ReliableFrames :
    f \in ToSet(sBuf) \/ InResend(f) \/ f \in rUpward

(* Router gap detection (spec 8): R's outgoing NACK set is exactly the     *)
(* numbers below seq_read that never arrived, whatever order frame-sets    *)
(* arrive in and however often R's guard has drained its queues.           *)
GapExact == rOutNack = {n \in 0..(rSeqRead - 1) : n \notin rDelivered}

(* Every frame-set R receives is eventually acknowledged: its number       *)
(* leaves R's outgoing ACK heap in an ACK packet.                          *)
AckEventuallySent ==
  \A n \in SeqNums : BagIn(n, rOutAck) ~> ~BagIn(n, rOutAck)

(* Where S's guard keeps a frame: positions in its buffer and places in   *)
(* its resend map.                                                         *)
Copies(f) ==
  Cardinality({i \in DOMAIN sBuf : sBuf[i] = f})
  + Cardinality(UNION {{<<k, i>> : i \in {j \in DOMAIN sResend[k] : sResend[k][j] = f}}
                       : k \in DOMAIN sResend})

(* A frame moves between S's buffer and its resend map but is never held  *)
(* twice: packing moves it out of the buffer, a NACK or a stale timeout    *)
(* moves it back and drops the entry, so a retransmission never leaves a   *)
(* second copy that an ACK of the first would not clear.                   *)
SingleCopy == \A f \in sSubmitted : Copies(f) <= 1

(* Refinement: S's sink and R's router together implement the abstract    *)
(* reliable channel, with S's submitted frames, the frames R's router     *)
(* forwarded and S's closed flag as its state.  A frame forwarded that S   *)
(* never submitted, a submit after close, or a close before every reliable *)
(* frame was forwarded is a step the channel cannot take.                  *)
Channel == INSTANCE ReliableChannel WITH
             submitted <- sSubmitted, delivered <- rUpward, closed <- sClosed

ImplementsChannel == Channel!Spec

(* Spec 4.4: while forward_waking is on, TransferLink::incoming_ack       *)
(* cancels the close path's timers and wakes it, "so the close path gives  *)
(* up sleeping as soon as the last outstanding ACK arrives": S's guard is  *)
(* never parked in poll_wait with an ACK it has not absorbed queued.       *)
NoSleepOverAck == sParked => sInAck = <<>>

(* guard.rs 220-224: poll_ready finds the buffer at capacity only after a *)
(* drain that returned Pending ("OutgoingGuard::try_empty returns Ready   *)
(* but buffer still remains!"); after a Ready drain its Pending would have *)
(* no waker registered to end it.                                          *)
ReadyAfterDrain == sCall = "ready" /\ sPhase = "done" => Len(sBuf) < Cap

(* Spec 4.5 / 4.6: a drain (try_empty) ends once the queues it flushes are *)
(* empty.  So when R's handler polls R's guard (poll_flush or poll_ready), *)
(* some drain eventually returns Ready (phase "done"), that call's or a    *)
(* later one's, and the calls are not all answered with Pending, without  *)
(* anything more from the peer.                                            *)
DrainEventuallyReady == (rCall # "none") ~> (rPhase = "done")

-----------------------------------------------------------------------------
(* guard.rs 249-254: once try_empty has returned Ready inside poll_close,  *)
(* S's buffer and its link's unconnected, ACK and NACK queues are empty,   *)
(* as the debug_assert there states; a debug build panics otherwise.  The  *)
(* online handler's pushes onto the link race with that read.              *)
CloseAssertHolds == sCall = "close" /\ sPhase = "done" => SG!CloseAssert
=============================================================================
