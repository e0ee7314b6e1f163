------------------------------ MODULE CodecMC -------------------------------
(***************************************************************************)
(* The connected-packet readers on every datagram body of a bounded shape: *)
(* what Packet::write makes of each frame-set the encoder builds (each     *)
(* reliability, parted or not, seq_num at both ends of the uint24 range)   *)
(* and of each ACK/NACK of up to MaxRecords records over Vals; every       *)
(* prefix of them (a truncated datagram); an unknown reliability and an    *)
(* unknown record tag.  Either build: "debug" has overflow checks,         *)
(* "release" wraps.                                                        *)
(***************************************************************************)
EXTENDS FrameSetCodec, FiniteSets

CONSTANTS
  Vals,        \* the uint24 values ACK records are made of
  MaxRecords,  \* the longest record list written
  SeqVals,     \* frame-set seq_num values
  IdxVals,     \* values of the frame indices and the fragment fields (the
               \* u16 parted_id takes those below 2^16)
  Bodies       \* frame bodies

ASSUME Vals \cup SeqVals \subseteq 0..(2^24 - 1)

VARIABLES
  kind,    \* the pack id: "frameset", "ack" or "nack"
  sent,    \* <<p>> when the bytes are Packet::write's output of p, else <<>>
  bytes,   \* the body handed to the reader
  build,   \* "debug" or "release"
  result   \* what the reader returned

vars == <<kind, sent, bytes, build, result>>

MCBodies == {<<7>>, <<7, 8>>}

Some(S) == {<<v>> : v \in S}

Records == {RecSingle(v) : v \in Vals} \cup {RecRange(s, e) : s, e \in Vals}
Lists(n) == UNION {[1..k -> Records] : k \in 0..n}

(* Frame-sets whose optional fields are the ones their flags call for:    *)
(* what the frame encoder builds.                                          *)
FrameSets ==
  UNION {{[seq |-> s, flags |-> 32 * r + 16 * p,
           rel |-> IF IsReliable(r) THEN o1 ELSE <<>>,
           sq  |-> IF IsSequenced(r) THEN o2 ELSE <<>>,
           ord |-> IF IsSequencedOrOrdered(r) THEN o3 ELSE <<>>,
           frag |-> IF p = 1 THEN g ELSE <<>>, body |-> b]
          : s \in SeqVals, o1, o2, o3 \in Some(IdxVals),
            g \in Some([size : IdxVals, id : {v \in IdxVals : v < 65536}, index : IdxVals]), b \in Bodies}
         : r \in Unreliable..ReliableSequenced, p \in {0, 1}}

Written(k) == IF k = "frameset" THEN FrameSets ELSE Lists(MaxRecords)

ProperPrefixes(w) == {SubSeq(w, 1, n) : n \in 0..(Len(w) - 1)}

(* Truncated datagrams: the prefixes of the frame-sets and of the          *)
(* one-record ACK bodies.                                                  *)
Truncated(k) ==
  IF k = "frameset" THEN UNION {ProperPrefixes(FrameSetWrite(fs)) : fs \in FrameSets}
  ELSE UNION {ProperPrefixes(AckWrite(rs)) : rs \in Lists(1)}

(* Reliability 5 in the flags; record tag 2.                              *)
Malformed(k) ==
  IF k = "frameset" THEN {<<0, 0, 0, 5 * 32, 0, 8, 7>>} ELSE {<<0, 1, 2, 0, 0, 0>>}

Unread == [status |-> "unread", pkt |-> <<>>]

Init ==
  /\ kind \in {"frameset", "ack", "nack"}
  /\ \/ \E p \in Written(kind) : sent = <<p>> /\ bytes = PacketWrite(kind, p)
     \/ \E b \in Truncated(kind) \cup Malformed(kind) : sent = <<>> /\ bytes = b
  /\ build \in {"debug", "release"}
  /\ result = Unread

(* The decoder hands the body to the reader its pack id names.            *)
Read ==
  /\ result = Unread
  /\ result' = PacketRead(kind, bytes, build)
  /\ UNCHANGED <<kind, sent, bytes, build>>

Spec == Init /\ [][Read]_vars
-----------------------------------------------------------------------------
(* The records extend_from builds: a Range only over first < last.         *)
WellFormed(rs) == \A i \in DOMAIN rs : rs[i].start <= rs[i].end

(* The numbers a record list acknowledges, a Range with end < start        *)
(* counting none.                                                          *)
Covers(rs) == FoldLeft(LAMBDA acc, r : acc + IF r.end >= r.start THEN r.end - r.start + 1 ELSE 0, 0, rs)

IsAck == kind \in {"ack", "nack"}

(* Round trip of ACK/NACK bodies (spec 7, ingress bound): reading what     *)
(* Ack::write made of well-formed records gives the records back when they *)
(* acknowledge at most 8192 numbers, and AckCountExceed otherwise, in      *)
(* either build.                                                           *)
RoundTrip ==
  IsAck /\ sent # <<>> /\ WellFormed(sent[1]) /\ result # Unread =>
    IF Covers(sent[1]) <= MAX_ACKNOWLEDGEMENT_PACKETS
    THEN result = [status |-> "ok", pkt |-> sent[1]]
    ELSE result.status = "AckCountExceed"

(* Round trip of frame-sets (spec 7): reading what FrameSet::write made of *)
(* a frame-set the encoder builds gives back the same seq_num, flags,     *)
(* indices, fragment header and body, whatever the reliability.           *)
FrameSetRoundTrip ==
  kind = "frameset" /\ sent # <<>> /\ result # Unread =>
    result = [status |-> "ok", pkt |-> sent[1]]

(* Spec 7: a malformed datagram is a codec error that drops it; neither   *)
(* FrameSet::read nor Ack::read panics on bytes from the network.          *)
ReadNeverPanics == result.status # "panic"

(* Spec 3 / 4.1: an accepted ACK or NACK acknowledges at most 8192 sequence  *)
(* numbers, the bound against a peer exhausting the resend map's work.     *)
AckCountBounded ==
  IsAck /\ result.status = "ok" => Covers(result.pkt) <= MAX_ACKNOWLEDGEMENT_PACKETS

(* Spec 7 with the spec 3 / 4.1 ingress bound: whatever bytes arrive,     *)
(* reading them either fails with a codec error or yields a packet the   *)
(* protocol allows, in either build: FrameSet::read and Ack::read do not  *)
(* panic, and Ack::read accepts no ACK or NACK acknowledging more than    *)
(* 8192 numbers.                                                           *)
ReadRejectsMalformed == ReadNeverPanics /\ AckCountBounded
=============================================================================
