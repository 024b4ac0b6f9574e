----------------------------- MODULE GepProtocol -----------------------------
(***************************************************************************)
(* The GEP wire format: a message travels as a header of three 4-byte      *)
(* big-endian fields (magic, tag, value length) followed by the value.     *)
(*                                                                         *)
(* A stream is a sequence of bytes.  Once sender and receiver disagree     *)
(* about where a message starts, any of its bytes may be read as a header. *)
(* Magic and tags are only compared, so they stay the four letters they    *)
(* are written as.                                                         *)
(***************************************************************************)
EXTENDS Integers, Sequences

CONSTANTS
  Magic,       \* magic_, the four bytes every header starts with
  MaxMsgLen    \* kMaxMsgLen

Byte  == 0 .. 255
Code  == [1 .. 4 -> Byte]
Bytes == Seq(Byte)

\* GetHdrLen().
HdrLen == 12

\* A header must fit in the receive buffer with room for a value.
ASSUME ProtocolAssumption == /\ Magic \in Code
                             /\ MaxMsgLen \in Nat
                             /\ MaxMsgLen > HdrLen

\* What Serialize has made of a protobuf message: its tag and its bytes.
TLV == [tag : Code, value : Bytes]

\* The bytes of a number, the most significant first, and back.
SET_UINT32(y) == <<(y \div 16777216) % 256, (y \div 65536) % 256, (y \div 256) % 256, y % 256>>
UINT32(x)     == x[1] * 16777216 + x[2] * 65536 + x[3] * 256 + x[4]

PrintHeader(tag, value_len) == Magic \o tag \o SET_UINT32(value_len)

\* The bytes that SendTLV puts on the stream for a message.
Frame(m) == PrintHeader(m.tag, Len(m.value)) \o m.value

-----------------------------------------------------------------------------
(* What the receiver reads off the front of its buffer b.                   *)

HasHeader(b) == Len(b) >= HdrLen

\* The four bytes at an offset.
Field(b, offset) == <<b[offset + 1], b[offset + 2], b[offset + 3], b[offset + 4]>>

\* ScanHeader, and its result: the first field is the magic number.
MagicMatches(b) == Field(b, 0) = Magic
ScanTag(b)      == Field(b, 4)
ScanLen(b)      == UINT32(Field(b, 8))

\* Variant: the header is forgotten in the limit.
TooLargeValue(value_len) == value_len >= MaxMsgLen

\* The length RecvString refuses.
TooLarge(value_len) == value_len >= MaxMsgLen - HdrLen

FrameLen(b) == HdrLen + ScanLen(b)

\* A header RecvString goes on with.
GoodHeader(b) == HasHeader(b) /\ MagicMatches(b) /\ ~TooLarge(ScanLen(b))

\* A whole message is in the buffer.
HasFrame(b) == GoodHeader(b) /\ Len(b) >= FrameLen(b)

\* The message at the front, as RecvTLV is given it.
Scan(b) == [tag |-> ScanTag(b), value |-> SubSeq(b, HdrLen + 1, FrameLen(b))]

\* memmove of what is left to the start of the buffer.
ShiftFrame(b) == SubSeq(b, FrameLen(b) + 1, Len(b))
=============================================================================
