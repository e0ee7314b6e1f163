---------------------------- MODULE AckPackerMC ----------------------------
(***************************************************************************)
(* Drains one sorted iterator with repeated extend_from calls, the way     *)
(* TransferLink::process_outgoing_ack pops the outgoing ACK heap packet by *)
(* packet, for every input of a bounded shape and every mtu of a range.    *)
(* The heap may hold a sequence number more than once (a frame-set         *)
(* received twice before the ACK went out), so inputs are non-decreasing   *)
(* sequences with each value repeated up to MaxDup times.                  *)
(***************************************************************************)
EXTENDS AckPacker, Naturals, Sequences, SequencesExt, FiniteSets

CONSTANTS
  MaxSeqNum,  \* sequence numbers are 0..MaxSeqNum
  MaxDup,     \* how often the heap may hold one sequence number
  MtuSet      \* the peer mtus tried

ASSUME \A m \in MtuSet : m >= 7   \* debug_assert!(mtu >= 7) in extend_from

VARIABLES
  input,    \* the iterator as first handed to the packer
  mtu,      \* peer.mtu
  pending,  \* what the iterator still holds
  packets   \* records of every packet built so far, in order

vars == <<input, mtu, pending, packets>>

(* The sorted sequence holding value v count[v] times.                     *)
SortedOf(count) ==
  FlattenSeq([v \in 1..(MaxSeqNum + 1) |-> [i \in 1..count[v - 1] |-> v - 1]])

Inputs == { SortedOf(c) : c \in [0..MaxSeqNum -> 0..MaxDup] }

Init ==
  /\ input \in Inputs
  /\ mtu \in MtuSet
  /\ pending = input
  /\ packets = <<>>

(* One call of process_outgoing_ack that finds the heap non-empty.         *)
Extract ==
  /\ pending # <<>>
  /\ LET r == extend_from(pending, mtu) IN
       /\ packets' = Append(packets, r.records)
       /\ pending' = r.rest
  /\ UNCHANGED <<input, mtu>>

Next == Extract

Spec == Init /\ [][Next]_vars

-----------------------------------------------------------------------------
TypeOK ==
  /\ input \in Inputs
  /\ mtu \in MtuSet
  /\ pending \in Seq(0..MaxSeqNum)
  /\ packets \in Seq(Seq([kind : {"Single", "Range"},
                          start : 0..MaxSeqNum, end : 0..MaxSeqNum]))

(* Ack-packer MTU: every ACK packet the writer hands to the socket,        *)
(* pack id included, fits in the peer's mtu, whatever runs and duplicates  *)
(* the heap held.                                                          *)
FitsMtu == \A i \in DOMAIN packets : WireLen(packets[i]) <= mtu

(* Ack-packer losslessness: the records of all packets built so far,       *)
(* expanded and followed by what the iterator still holds, are exactly    *)
(* the input: no sequence number is dropped or invented between calls.    *)
Lossless ==
  FlattenSeq([i \in DOMAIN packets |-> ExpandAll(packets[i])]) \o pending = input
=============================================================================
