--------------------------- MODULE ReliableChannel ---------------------------
(***************************************************************************)
(* What one direction of a connection promises its user (spec 4.5, 7):     *)
(* frames are submitted to the sink, the peer receives some of them, every *)
(* frame it receives was submitted, and the sink closes only once every    *)
(* reliable frame submitted has been received.  Frames are received as     *)
(* sets: a frame received twice is received, and an unreliable frame may   *)
(* never be.  Nothing is submitted after the close began to succeed.       *)
(***************************************************************************)
CONSTANTS
  Frames,          \* the frames the user may submit
  ReliableFrames   \* those sent with a reliable reliability

VARIABLES
  submitted,   \* frames handed to the sink
  delivered,   \* frames the peer's router has passed upward
  closed       \* poll_close has returned Ready

vars == <<submitted, delivered, closed>>

Init == submitted = {} /\ delivered = {} /\ closed = FALSE

Submit(f) ==
  /\ ~closed /\ f \in Frames \ submitted
  /\ submitted' = submitted \cup {f}
  /\ UNCHANGED <<delivered, closed>>

(* The peer receives some submitted frames, possibly several at once (one  *)
(* frame-set).                                                             *)
Deliver(F) ==
  /\ F # {} /\ F \subseteq submitted
  /\ delivered' = delivered \cup F
  /\ UNCHANGED <<submitted, closed>>

Close ==
  /\ ~closed
  /\ submitted \cap ReliableFrames \subseteq delivered
  /\ closed' = TRUE
  /\ UNCHANGED <<submitted, delivered>>

Next == (\E f \in Frames : Submit(f)) \/ (\E F \in SUBSET Frames : Deliver(F)) \/ Close

Spec == Init /\ [][Next]_vars
=============================================================================
