------------------------------ MODULE AckCodec ------------------------------
(***************************************************************************)
(* The wire form of ACK and NACK bodies (src/src/packet/connected.rs):     *)
(* Ack::write / Ack::read, Record::write / Record::read, Record::ack_cnt  *)
(* and Uint24le.  A body is a sequence of bytes: a big-endian u16 record   *)
(* count, then per record a tag (0 Range, 1 Single) and one or two         *)
(* little-endian uint24.  The reader works on bytes from the network, so  *)
(* every byte sequence is a possible input.                                *)
(*                                                                         *)
(* bytes::Buf::get_u8 / get_u16 / get_uint_le panic when fewer bytes      *)
(* remain than they read.  ack_cnt and its running sum are u32: an        *)
(* overflow panics in a build with overflow checks ("debug") and wraps    *)
(* modulo 2^32 in one without ("release").                                *)
(***************************************************************************)
EXTENDS Naturals, Integers, Sequences, SequencesExt, AckPacker

(* Ack::read's bound on the sequence numbers one packet may acknowledge.   *)
MAX_ACKNOWLEDGEMENT_PACKETS == 8192

(* A fault: the uint24 written most significant byte first.               *)
U24WriteBigEndian(v) == <<(v \div 65536) % 256, (v \div 256) % 256, v % 256>>

(* Uint24le::write (lines 116-118): put_uint_le(v, 3).                     *)
U24Write(v) == <<v % 256, (v \div 256) % 256, (v \div 65536) % 256>>

(* Uint24le::read (lines 111-114): get_uint_le(3).                         *)
U24Read(b) == b[1] + 256 * b[2] + 65536 * b[3]

RECORD_RANGE  == 0
RECORD_SINGLE == 1

(* Record::write (lines 353-365).                                          *)
RecordWrite(r) ==
  IF r.kind = "Range"
  THEN <<RECORD_RANGE>> \o U24Write(r.start) \o U24Write(r.end)
  ELSE <<RECORD_SINGLE>> \o U24Write(r.start)

(* Ack::write (lines 322-331): put_u16 of the record count, the records.   *)
AckWrite(records) ==
  <<Len(records) \div 256, Len(records) % 256>>
    \o FlattenSeq([i \in DOMAIN records |-> RecordWrite(records[i])])

Panic == [status |-> "panic", records |-> <<>>]
Err(e) == [status |-> e, records |-> <<>>]

(* Record::read (lines 344-351): the record and the bytes after it.        *)
RecordRead(buf) ==
  CASE buf = <<>> -> [res |-> Panic]
    [] buf[1] = RECORD_RANGE ->
         IF Len(buf) < 7 THEN [res |-> Panic]
         ELSE [res |-> [status |-> "ok", records |-> <<>>],
               rec |-> RecRange(U24Read(SubSeq(buf, 2, 4)), U24Read(SubSeq(buf, 5, 7))),
               rest |-> SubSeq(buf, 8, Len(buf))]
    [] buf[1] = RECORD_SINGLE ->
         IF Len(buf) < 4 THEN [res |-> Panic]
         ELSE [res |-> [status |-> "ok", records |-> <<>>],
               rec |-> RecSingle(U24Read(SubSeq(buf, 2, 4))),
               rest |-> SubSeq(buf, 5, Len(buf))]
    [] OTHER -> [res |-> Err("InvalidRecordType")]

(* Record::ack_cnt (lines 367-372): end - start + 1 in u32.  The          *)
(* subtraction overflows when end < start.                                 *)
AckCntOverflows(r, build) == build = "debug" /\ r.kind = "Range" /\ r.end < r.start
AckCnt(r) == IF r.kind = "Range" THEN r.end - r.start + 1 ELSE 1

(* ack_cnt += record.ack_cnt() in u32 arithmetic (release).  With uint24   *)
(* operands the exact sum t lies in -2^24 .. 2^25, and t mod 2^32 is t     *)
(* when t >= 0 and 2^32 + t > 8192 otherwise: a wrapped sum is one below   *)
(* zero.                                                                   *)
SumWraps(cnt, r) == cnt + AckCnt(r) < 0

(* The loop of Ack::read (lines 310-318): k records still to read, cnt    *)
(* the running ack_cnt, acc the records read so far.  In a debug build    *)
(* cnt <= 8192 and ack_cnt <= 2^24 here, so only the release build's sum  *)
(* can wrap.                                                               *)
RECURSIVE ReadRecords(_, _, _, _, _)
ReadRecords(buf, k, cnt, acc, build) ==
  IF k = 0 THEN [status |-> "ok", records |-> acc]
  ELSE LET rr == RecordRead(buf) IN
       IF rr.res.status # "ok" THEN rr.res
       ELSE IF AckCntOverflows(rr.rec, build) THEN Panic
       ELSE LET sum == cnt + AckCnt(rr.rec) IN
            IF SumWraps(cnt, rr.rec) \/ sum > MAX_ACKNOWLEDGEMENT_PACKETS THEN Err("AckCountExceed")
            ELSE ReadRecords(rr.rest, k - 1, sum, Append(acc, rr.rec), build)

(* Ack::read (lines 305-320): get_u16 of the record count, the loop.       *)
AckRead(buf, build) ==
  IF Len(buf) < 2 THEN Panic
  ELSE ReadRecords(SubSeq(buf, 3, Len(buf)), 256 * buf[1] + buf[2], 0, <<>>, build)
=============================================================================
