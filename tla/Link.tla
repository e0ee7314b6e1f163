-------------------------------- MODULE Link --------------------------------
(***************************************************************************)
(* TransferLink (src/src/link.rs): the state shared by the read half       *)
(* (Router) and the write half (OutgoingGuard) of one connection.  Its     *)
(* operations are operators over the link's fields, which the Router and  *)
(* Guard modules hold as variables:                                        *)
(*   inAck, inNack  bounded queues of received ACK / NACK packets, each    *)
(*                  packet the set of sequence numbers it covers;          *)
(*   outAck         the min-heap of sequence numbers to acknowledge, a     *)
(*                  bag since a number may be pushed twice;                *)
(*   outNack        the ordered set of gaps to NACK;                       *)
(*   waking         forward_waking.                                        *)
(***************************************************************************)
EXTENDS Naturals, Sequences, SequencesExt, FiniteSets, Bags, AckPacker

CONSTANT
  MAX_ACK_BUFFER   \* capacity of incoming_ack / incoming_nack (1024 in the code)

ASSUME MAX_ACK_BUFFER \in Nat \ {0}

(* A fault: a plain push that never displaces, as if the queue were      *)
(* unbounded.                                                              *)
PushUnbounded(q, x) == Append(q, x)

(* ConcurrentQueue::force_push: when full, the oldest entry is displaced.  *)
ForcePush(q, x) ==
  IF Len(q) < MAX_ACK_BUFFER THEN Append(q, x) ELSE Append(Tail(q), x)

(* outgoing_ack_empty, outgoing_nack_empty and unconnected_empty: each    *)
(* locks or reads its own queue, one at a time.                            *)
OutgoingAckEmpty(bag) == bag = EmptyBag
OutgoingNackEmpty(set) == set = {}
UnconnectedEmpty(n) == n = 0

(* Numbers of a bag / set in the order the heap pops them (ascending) and  *)
(* the order BTreeSet<Reverse<u24>>::iter yields them (descending).        *)
SortedNats(set) ==
  [i \in 1..Cardinality(set) |-> CHOOSE x \in set : Cardinality({y \in set : y < x}) = i - 1]
AscendingOf(bag) ==
  LET vals == SortedNats(BagToSet(bag))
  IN  FlattenSeq([i \in DOMAIN vals |-> [j \in 1..bag[vals[i]] |-> vals[i]]])
DescendingOf(set) == Reverse(SortedNats(set))

(* The sequence numbers of a packet of records.                            *)
Covered(records) == ToSet(ExpandAll(records))

(* process_outgoing_ack: extend_from over BatchRecv, which pops from the   *)
(* heap exactly the numbers the packer consumed, the leading ones of the   *)
(* ascending order.  Returns the packet (the numbers it covers) and the    *)
(* heap after the pops: the bag of the numbers left.  (The set-map over a  *)
(* singleton binds the sorted sequence to a value, so that it is computed  *)
(* once.)                                                                  *)
HeapOf(seq) == [n \in ToSet(seq) |-> Cardinality({i \in DOMAIN seq : seq[i] = n})]
PackedAck(asc, mtu) ==
  LET rest == extend_from(asc, mtu).rest
  IN  [packet |-> ToSet(SubSeq(asc, 1, Len(asc) - Len(rest))),
       heap   |-> HeapOf(rest)]
ProcessOutgoingAck(bag, mtu) ==
  CHOOSE r \in {PackedAck(asc, mtu) : asc \in {AscendingOf(bag)}} : TRUE

(* process_outgoing_nack: extend_from over outgoing_nack.lock().iter();   *)
(* the iterator borrows the set, so nothing is removed from it.           *)
ProcessOutgoingNack(set, mtu) ==
  CHOOSE c \in {Covered(extend_from(desc, mtu).records) : desc \in {DescendingOf(set)}} : TRUE
=============================================================================
