----------------------------- MODULE AckPacker -----------------------------
(***************************************************************************)
(* The egress packer of ACK and NACK packets, Ack::extend_from in          *)
(* src/src/packet/connected.rs, and the wire size of what it builds        *)
(* (Ack::write, Record::write).  A sequence number is a natural; a record  *)
(* is Single(s) or Range(s, e).  The packer walks a sorted iterator,       *)
(* charging 7 bytes for the pack id, the record count and the first        *)
(* record, 3 more when a Single grows into a Range and 4 for each new      *)
(* record, and stops as soon as fewer than 4 bytes of budget remain.       *)
(***************************************************************************)
EXTENDS Naturals, Sequences, SequencesExt

RecSingle(s)   == [kind |-> "Single", start |-> s, end |-> s]
RecRange(s, e) == [kind |-> "Range",  start |-> s, end |-> e]

(* Faults a run record could plausibly have: a run always closed as a     *)
(* Single (the Range arm lost), or a Range one past its last number.       *)
RunRecordSingleOnly(first, last) == RecSingle(first)
RunRecordPastEnd(first, last) ==
  IF first # last THEN RecRange(first, last + 1) ELSE RecSingle(first)

(* The record closing the run first..last (connected.rs 287-291).          *)
RunRecord(first, last) == IF first # last THEN RecRange(first, last) ELSE RecSingle(first)

(* The body of the packing loop: seqs is what the iterator still holds,    *)
(* budget the remaining mtu, upgrade whether the current run is still a    *)
(* Single.  Returns the records and what is left in the iterator.         *)
RECURSIVE PackLoop(_, _, _, _, _, _)
PackLoop(seqs, budget, first, last, upgrade, records) ==
  IF budget < 4 \/ seqs = <<>>
  THEN [records |-> Append(records, RunRecord(first, last)), rest |-> seqs]
  ELSE LET s == Head(seqs) IN
       IF s = last + 1
       THEN PackLoop(Tail(seqs), IF upgrade THEN budget - 3 ELSE budget,
                     first, s, FALSE, records)
       ELSE PackLoop(Tail(seqs), budget - 4, s, s, TRUE,
                     Append(records, RunRecord(first, last)))

(* A fault of the entry: the header charged 6 bytes instead of 7.         *)
ExtendFromShortHeader(seqs, mtu) ==
  IF seqs = <<>>
  THEN [records |-> <<>>, rest |-> <<>>]
  ELSE PackLoop(Tail(seqs), mtu - 6, Head(seqs), Head(seqs), TRUE, <<>>)

(* Ack::extend_from(sorted_seq_nums, mtu); None is the empty record list.  *)
extend_from(seqs, mtu) ==
  IF seqs = <<>>
  THEN [records |-> <<>>, rest |-> <<>>]
  ELSE PackLoop(Tail(seqs), mtu - 7, Head(seqs), Head(seqs), TRUE, <<>>)

(* Bytes Record::write puts on the wire: a tag and one or two uint24.      *)
RecordSize(r) == IF r.kind = "Range" THEN 7 ELSE 4

(* Bytes of the whole packet: pack id, u16 record count, the records.      *)
WireLen(records) == 3 + FoldLeft(LAMBDA acc, r : acc + RecordSize(r), 0, records)

(* The sequence numbers a record stands for, in order.                     *)
Expand(r) == [i \in 1..(r.end - r.start + 1) |-> r.start + i - 1]

ExpandAll(records) == FlattenSeq([i \in DOMAIN records |-> Expand(records[i])])
=============================================================================
