---------------------------- MODULE FrameSetCodec ---------------------------
(***************************************************************************)
(* The wire form of a connected frame-set (src/src/packet/connected.rs):   *)
(* FrameSet::write / FrameSet::read with Flags, Reliability and Fragment.  *)
(* Layout: uint24-LE seq_num, the flags byte, a big-endian u16 body length *)
(* in bits, the indices the reliability calls for, the fragment header if *)
(* the parted bit is set, the body.  An optional field is a sequence of    *)
(* length 0 (None) or 1 (Some).  Reads past the end panic, as in AckCodec. *)
(***************************************************************************)
EXTENDS Naturals, Sequences, SequencesExt, AckCodec

U16Write(v) == <<(v \div 256) % 256, v % 256>>
U16Read(b)  == 256 * b[1] + b[2]
U32Write(v) == U16Write(v \div 65536) \o U16Write(v % 65536)
U32Read(b)  == 65536 * U16Read(SubSeq(b, 1, 2)) + U16Read(SubSeq(b, 3, 4))

(* Reliability (lines 125-193): the top three bits of the flags byte.     *)
Unreliable          == 0
UnreliableSequenced == 1
Reliable            == 2
ReliableOrdered     == 3
ReliableSequenced   == 4

IsReliable(r)  == r \in {Reliable, ReliableSequenced, ReliableOrdered}
IsSequenced(r) == r \in {UnreliableSequenced, ReliableSequenced}

IsSequencedOrOrdered(r) == r \in {ReliableSequenced, ReliableOrdered, UnreliableSequenced}

(* A fault: the flags shifted by four, into the parted bit.               *)
FlagsReliabilityShift4(f) == f \div 16

(* Flags::reliability and Flags::parted (lines 204-222): flags >> 5 and    *)
(* flags & 0x10.                                                           *)
FlagsReliability(f) == f \div 32
Parted(f)           == (f \div 16) % 2 = 1

Opt(o, Write(_)) == IF o = <<>> THEN <<>> ELSE Write(o[1])

(* Fragment::write (lines 240-244).                                        *)
FragmentWrite(g) == U32Write(g.size) \o U16Write(g.id) \o U32Write(g.index)

(* FrameSet::write (lines 78-106): the length in bits is cast to u16.      *)
FrameSetWrite(fs) ==
  U24Write(fs.seq) \o <<fs.flags>> \o U16Write((Len(fs.body) * 8) % 65536)
    \o Opt(fs.rel, U24Write) \o Opt(fs.sq, U24Write)
    \o Opt(fs.ord, LAMBDA v : U24Write(v) \o <<0>>)
    \o Opt(fs.frag, FragmentWrite) \o fs.body

(* One step of FrameSet::read: take n bytes of the field if they are      *)
(* there (else get_* / advance / split_to panics).                         *)
Take(st, n) ==
  IF st.status # "ok" THEN st
  ELSE IF Len(st.buf) < n THEN [st EXCEPT !.status = "panic"]
  ELSE [st EXCEPT !.field = SubSeq(st.buf, 1, n), !.buf = SubSeq(st.buf, n + 1, Len(st.buf))]

(* The optional field taken when cond holds: <<bytes>>, or <<>> (None).   *)
TakeIf(st, cond, n) ==
  IF ~cond \/ st.status # "ok" THEN [st EXCEPT !.field = <<>>]
  ELSE LET t == Take(st, n) IN
       IF t.status # "ok" THEN t ELSE [t EXCEPT !.field = <<t.field>>]

FragmentRead(b) ==
  [size |-> U32Read(SubSeq(b, 1, 4)), id |-> U16Read(SubSeq(b, 5, 6)),
   index |-> U32Read(SubSeq(b, 7, 10))]

(* FrameSet::read (lines 39-76).  Returns [status, fs].                    *)
FrameSetRead(buf) ==
  LET s0  == [status |-> "ok", buf |-> buf, field |-> <<>>]
      s1  == Take(s0, 3)                      \* seq_num
      s2  == Take(s1, 1)                      \* flags
      s3  == Take(s2, 2)                      \* u16 length in bits
      seq == U24Read(s1.field)
      fl  == s2.field[1]
      len == U16Read(s3.field) \div 8
      r   == FlagsReliability(fl)
      s4  == TakeIf(s3, IsReliable(r), 3)
      s5  == TakeIf(s4, IsSequenced(r), 3)
      s6  == TakeIf(s5, IsSequencedOrOrdered(r), 4)   \* index, channel byte
      s7  == TakeIf(s6, Parted(fl), 10)
      U24Of(o)  == IF o = <<>> THEN <<>> ELSE <<U24Read(o[1])>>
      FragOf(o) == IF o = <<>> THEN <<>> ELSE <<FragmentRead(o[1])>>
      s8  == Take(s7, len)                    \* buf.split_to(length)
  IN  CASE s3.status # "ok" -> [status |-> s3.status, fs |-> <<>>]
        [] len = 0 -> [status |-> "InvalidPacketLength", fs |-> <<>>]
        [] r > ReliableSequenced -> [status |-> "InvalidReliability", fs |-> <<>>]
        [] s8.status # "ok" -> [status |-> s8.status, fs |-> <<>>]
        [] OTHER -> [status |-> "ok",
                     fs |-> [seq |-> seq, flags |-> fl, rel |-> U24Of(s4.field), sq |-> U24Of(s5.field),
                             ord |-> U24Of(s6.field), frag |-> FragOf(s7.field), body |-> s8.field]]

(* Packet::write (lines 396-401): a frame-set or an ACK/NACK body.         *)
PacketWrite(kind, p) == IF kind = "frameset" THEN FrameSetWrite(p) ELSE AckWrite(p)

(* Packet::read_frame_set / read_ack / read_nack (lines 384-394): the      *)
(* reader the pack id selects, its error passed on with ?.                 *)
PacketRead(kind, buf, build) ==
  IF kind = "frameset"
  THEN LET r == FrameSetRead(buf) IN [status |-> r.status, pkt |-> r.fs]
  ELSE LET r == AckRead(buf, build) IN [status |-> r.status, pkt |-> r.records]
=============================================================================
