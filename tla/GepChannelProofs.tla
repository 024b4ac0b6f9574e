--------------------------- MODULE GepChannelProofs ---------------------------
(***************************************************************************)
(* Safety of GepChannel for any number of threads and messages, any buffer *)
(* and message sizes and any number of connections.                        *)
(***************************************************************************)
EXTENDS GepChannel, SequenceLemmas, TLAPS

-----------------------------------------------------------------------------
(* The header.                                                              *)

\* A byte cut off the end of a number (the shifts of SET_UINT32).
LEMMA CutByte ==
  ASSUME NEW y \in Nat
  PROVE  /\ y \div 256 \in Nat
         /\ y % 256 \in 0 .. 255
         /\ y = 256 * (y \div 256) + (y % 256)
  BY SMT

\* A shift by two or three bytes is a repeated shift by one.
LEMMA ShiftBytes ==
  ASSUME NEW y \in Nat
  PROVE  /\ y \div 65536 = (y \div 256) \div 256
         /\ y \div 16777216 = ((y \div 256) \div 256) \div 256
  BY SMT

\* The bytes PrintHeader writes for a tag or a length are bytes, and ScanHeader
\* reads the number back, for every 32-bit number (SET_UINT32 and UINT32).
THEOREM Uint32RoundTrip ==
  ASSUME NEW y \in Nat, y < 65536 * 65536
  PROVE  /\ SET_UINT32(y) \in [1 .. 4 -> 0 .. 255]
         /\ UINT32(SET_UINT32(y)) = y
<1> DEFINE q1 == y \div 256
<1> DEFINE q2 == q1 \div 256
<1> DEFINE q3 == q2 \div 256
<1>1. q1 \in Nat /\ (y % 256) \in 0 .. 255 /\ y = 256 * q1 + (y % 256)
  BY CutByte, SMT
<1>2. q2 \in Nat /\ (q1 % 256) \in 0 .. 255 /\ q1 = 256 * q2 + (q1 % 256)
  BY <1>1, CutByte, SMT
<1>3. q3 \in Nat /\ (q2 % 256) \in 0 .. 255 /\ q2 = 256 * q3 + (q2 % 256)
  BY <1>2, CutByte, SMT
<1>4. SET_UINT32(y) = <<q3 % 256, q2 % 256, q1 % 256, y % 256>>
  BY ShiftBytes, SMT DEF SET_UINT32
<1> HIDE DEF q1, q2, q3
<1>5. q3 < 256
  BY <1>1, <1>2, <1>3, SMT
<1>6. (q3 % 256) = q3
  BY <1>3, <1>5, SMT
<1>7. q3 * 16777216 + (q2 % 256) * 65536 + (q1 % 256) * 256 + (y % 256) = y
  BY <1>1, <1>2, <1>3, SMT
<1>8. SET_UINT32(y) = <<q3, q2 % 256, q1 % 256, y % 256>>
  BY <1>4, <1>6, SMT
<1>9. q3 \in 0 .. 255
  BY <1>3, <1>5, SMT
<1> DEFINE b2 == q2 % 256   b1 == q1 % 256   b0 == y % 256
<1>10. b2 \in 0 .. 255 /\ b1 \in 0 .. 255 /\ b0 \in 0 .. 255
  BY <1>1, <1>2, <1>3, SMT
<1>11. q3 * 16777216 + b2 * 65536 + b1 * 256 + b0 = y
  BY <1>7, SMT
<1> DEFINE s == SET_UINT32(y)
<1>12. s = <<q3, b2, b1, b0>>
  BY <1>8, SMT
<1> HIDE DEF b2, b1, b0, s
<1>13. s \in [1 .. 4 -> 0 .. 255] /\ UINT32(s) = q3 * 16777216 + b2 * 65536 + b1 * 256 + b0
  BY <1>9, <1>10, <1>12, SMT DEF UINT32
<1>14. s \in [1 .. 4 -> 0 .. 255] /\ UINT32(s) = y
  BY <1>11, <1>13, SMT
<1>15. QED
  BY <1>14, SMT DEF s

\* Four bytes are what their elements make.
LEMMA CodeShape ==
  ASSUME NEW c \in Code
  PROVE  /\ c \in Bytes /\ Len(c) = 4
         /\ <<c[1], c[2], c[3], c[4]>> = c
  <1>1. c \in [1 .. 4 -> Byte]
    BY DEF Code
  <1>2. c \in Seq(Byte) /\ Len(c) = 4
    <2>1. PICK n \in Nat : n = 4
      OBVIOUS
    <2>2. c \in [1 .. n -> Byte]
      BY <1>1, <2>1
    <2>3. c \in Seq(Byte) /\ Len(c) = n
      BY <2>2
    <2> QED BY <2>1, <2>3
  <1>3. \A i \in 1 .. 4 : c[i] \in Byte
    BY <1>1
  <1> DEFINE d == <<c[1], c[2], c[3], c[4]>>
  <1>4. d \in Seq(Byte) /\ Len(d) = 4 /\ \A i \in 1 .. 4 : d[i] = c[i]
    BY <1>3
  <1> HIDE DEF d
  <1>5. d = c
    BY <1>2, <1>4, SeqEqual
  <1> QED BY <1>2, <1>5 DEF d, Bytes

\* The bytes of a length are bytes.
LEMMA NumberType ==
  ASSUME NEW y \in Nat
  PROVE  SET_UINT32(y) \in Code
  <1> DEFINE a == (y \div 16777216) % 256   b == (y \div 65536) % 256
             c == (y \div 256) % 256        d == y % 256
  <1>1. a \in Byte /\ b \in Byte /\ c \in Byte /\ d \in Byte
    BY SMT DEF Byte
  <1>2. SET_UINT32(y) = <<a, b, c, d>>
    BY DEF SET_UINT32
  <1> HIDE DEF a, b, c, d
  <1> QED BY <1>1, <1>2 DEF Code

\* The elements of a stream in two parts.
LEMMA TwoParts ==
  ASSUME NEW a \in Bytes, NEW b \in Bytes
  PROVE  /\ Len(a \o b) = Len(a) + Len(b)
         /\ \A i \in 1 .. Len(a) : (a \o b)[i] = a[i]
         /\ \A i \in 1 .. Len(b) : (a \o b)[Len(a) + i] = b[i]
  <1>0. a \in Seq(Byte) /\ b \in Seq(Byte) /\ Len(a) \in Nat /\ Len(b) \in Nat
    BY LenProperties DEF Bytes
  <1>1. /\ Len(a \o b) = Len(a) + Len(b)
        /\ \A i \in 1 .. Len(a) + Len(b) :
             (a \o b)[i] = IF i <= Len(a) THEN a[i] ELSE b[i - Len(a)]
    BY <1>0, ConcatProperties
  <1>2. ASSUME NEW i \in 1 .. Len(a) PROVE (a \o b)[i] = a[i]
    BY <1>0, <1>1
  <1>3. ASSUME NEW i \in 1 .. Len(b) PROVE (a \o b)[Len(a) + i] = b[i]
    <2> DEFINE k == Len(a) + i
    <2>1. k \in 1 .. Len(a) + Len(b) /\ ~ (k <= Len(a)) /\ k - Len(a) = i
      BY <1>0
    <2> HIDE DEF k
    <2>2. (a \o b)[k] = b[i]
      BY <1>1, <2>1
    <2> QED BY <2>2 DEF k
  <1> QED BY <1>1, <1>2, <1>3

\* A header is twelve bytes: the magic number, the tag and the length, four each.
LEMMA HeaderShape ==
  ASSUME NEW tag \in Code, NEW n \in Nat
  PROVE  /\ PrintHeader(tag, n) \in Bytes /\ Len(PrintHeader(tag, n)) = 12
         /\ Field(PrintHeader(tag, n), 0) = Magic
         /\ Field(PrintHeader(tag, n), 4) = tag
         /\ Field(PrintHeader(tag, n), 8) = SET_UINT32(n)
  <1>1. PICK v \in Code : v = SET_UINT32(n)
    BY NumberType
  <1>2. /\ Magic \in Bytes /\ Len(Magic) = 4 /\ tag \in Bytes /\ Len(tag) = 4
        /\ v \in Bytes /\ Len(v) = 4
    BY ProtocolAssumption, CodeShape
  <1>3. PICK f \in Bytes : f = Magic \o tag
    BY <1>2, ConcatProperties DEF Bytes
  <1>4. Len(f) = 8 /\ (\A i \in 1 .. 4 : f[i] = Magic[i]) /\ (\A i \in 1 .. 4 : f[4 + i] = tag[i])
    <2>1. /\ Len(f) = Len(Magic) + Len(tag)
          /\ \A i \in 1 .. Len(Magic) : f[i] = Magic[i]
          /\ \A i \in 1 .. Len(tag) : f[Len(Magic) + i] = tag[i]
      BY <1>2, <1>3, TwoParts
    <2> QED BY <1>2, <2>1
  <1>5. PICK h \in Bytes : h = f \o v
    BY <1>2, ConcatProperties DEF Bytes
  <1>6. Len(h) = 12 /\ (\A i \in 1 .. 8 : h[i] = f[i]) /\ (\A i \in 1 .. 4 : h[8 + i] = v[i])
    <2>1. /\ Len(h) = Len(f) + Len(v)
          /\ \A i \in 1 .. Len(f) : h[i] = f[i]
          /\ \A i \in 1 .. Len(v) : h[Len(f) + i] = v[i]
      BY <1>2, <1>5, TwoParts
    <2> QED BY <1>2, <1>4, <2>1
  <1>7. /\ h[1] = Magic[1] /\ h[2] = Magic[2] /\ h[3] = Magic[3] /\ h[4] = Magic[4]
        /\ h[5] = tag[1] /\ h[6] = tag[2] /\ h[7] = tag[3] /\ h[8] = tag[4]
        /\ h[9] = v[1] /\ h[10] = v[2] /\ h[11] = v[3] /\ h[12] = v[4]
    <2>1. /\ f[4 + 1] = tag[1] /\ f[4 + 2] = tag[2] /\ f[4 + 3] = tag[3] /\ f[4 + 4] = tag[4]
          /\ h[8 + 1] = v[1] /\ h[8 + 2] = v[2] /\ h[8 + 3] = v[3] /\ h[8 + 4] = v[4]
      BY <1>4, <1>6
    <2>2. /\ f[1] = Magic[1] /\ f[2] = Magic[2] /\ f[3] = Magic[3] /\ f[4] = Magic[4]
      BY <1>4
    <2>3. /\ h[1] = f[1] /\ h[2] = f[2] /\ h[3] = f[3] /\ h[4] = f[4]
          /\ h[5] = f[5] /\ h[6] = f[6] /\ h[7] = f[7] /\ h[8] = f[8]
      BY <1>6
    <2> QED BY <2>1, <2>2, <2>3
  <1>8. Field(h, 0) = Magic /\ Field(h, 4) = tag /\ Field(h, 8) = v
    <2>1. /\ Field(h, 0) = <<h[1], h[2], h[3], h[4]>>
          /\ Field(h, 4) = <<h[5], h[6], h[7], h[8]>>
          /\ Field(h, 8) = <<h[9], h[10], h[11], h[12]>>
      BY DEF Field
    <2> QED BY <1>7, <2>1, CodeShape, ProtocolAssumption
  <1>9. PrintHeader(tag, n) = h
    BY <1>1, <1>3, <1>5 DEF PrintHeader
  <1> QED BY <1>1, <1>6, <1>8, <1>9

\* What the parser reads in a buffer that holds a header.
LEMMA FieldType ==
  ASSUME NEW b \in Bytes, Len(b) >= 12
  PROVE  /\ Len(b) \in Nat
         /\ ScanTag(b) \in Code
         /\ ScanLen(b) \in Nat
         /\ FrameLen(b) = 12 + ScanLen(b)
  <1>1. Len(b) \in Nat /\ \A i \in 1 .. Len(b) : b[i] \in Byte
    BY LenProperties, ElementOfSeq DEF Bytes
  <1>2. /\ b[5] \in Byte /\ b[6] \in Byte /\ b[7] \in Byte /\ b[8] \in Byte
        /\ b[9] \in Byte /\ b[10] \in Byte /\ b[11] \in Byte /\ b[12] \in Byte
    BY <1>1
  <1>3. ScanTag(b) = <<b[5], b[6], b[7], b[8]>> /\ Field(b, 8) = <<b[9], b[10], b[11], b[12]>>
    BY DEF ScanTag, Field
  <1>4. ScanTag(b) \in Code
    BY <1>2, <1>3 DEF Code
  <1>5. ScanLen(b) = b[9] * 16777216 + b[10] * 65536 + b[11] * 256 + b[12]
    BY <1>3, SMT DEF ScanLen, UINT32
  <1>6. ScanLen(b) \in Nat
    <2>1. b[9] \in Nat /\ b[10] \in Nat /\ b[11] \in Nat /\ b[12] \in Nat
      <3>1. \A y \in Byte : y \in Nat
        BY DEF Byte
      <3> QED BY <1>2, <3>1
    <2>2. \A w, x, y, z \in Nat : w * 16777216 + x * 65536 + y * 256 + z \in Nat
      BY SMT
    <2>3. b[9] * 16777216 + b[10] * 65536 + b[11] * 256 + b[12] \in Nat
      BY <2>1, <2>2, SMT
    <2> QED BY <1>5, <2>3, SMT
  <1> QED BY <1>1, <1>4, <1>6 DEF FrameLen, HdrLen

-----------------------------------------------------------------------------
(* Lemmas about the operators of the model.                                 *)

\* The ends: EndOf and Peer name one, and a service thread is its own end.
LEMMA EndsType == /\ \A t \in Threads : EndOf(t) \in Ends
                  /\ \A e \in Ends : Peer(e) \in Ends /\ Peer(e) # e
                  /\ \A e \in Ends : EndOf(e) = e /\ e \in Threads
  BY ChannelAssumption DEF EndOf, Peer, Ends, Threads

\* What the parser reads off a buffer that holds a whole message, and what it
\* leaves there.
LEMMA FrameType ==
  ASSUME NEW b \in Bytes, HasFrame(b)
  PROVE  /\ Scan(b) \in TLV
         /\ ShiftFrame(b) \in Bytes
         /\ Len(ShiftFrame(b)) < Len(b)
  <1> DEFINE n == FrameLen(b)
  <1>1. /\ b \in Seq(Byte) /\ Len(b) \in Nat /\ ScanTag(b) \in Code
        /\ n \in 12 .. Len(b)
    <2>1. Len(b) >= 12
      BY DEF HasFrame, GoodHeader, HasHeader, HdrLen
    <2> QED BY <2>1, FieldType DEF HasFrame, Bytes
  <1>2. /\ ShiftFrame(b) = SubSeq(b, n + 1, Len(b))
        /\ Scan(b) = [tag |-> ScanTag(b), value |-> SubSeq(b, 12 + 1, n)]
    BY DEF ShiftFrame, Scan, HdrLen
  <1> HIDE DEF n
  <1>3. n \in 0 .. Len(b) /\ 12 + 1 \in 1 .. Len(b) + 1 /\ n \in (12 + 1) - 1 .. Len(b)
    BY <1>1
  <1>4. /\ SubSeq(b, n + 1, Len(b)) \in Seq(Byte)
        /\ Len(SubSeq(b, n + 1, Len(b))) = Len(b) - n
    BY <1>1, <1>3, CutType
  <1>5. SubSeq(b, 12 + 1, n) \in Seq(Byte)
    BY <1>1, <1>3, SubSeqProperties, SMTT(30)
  <1>6. Scan(b) \in TLV
    BY <1>1, <1>2, <1>5 DEF TLV, Bytes
  <1>7. Len(ShiftFrame(b)) < Len(b)
    BY <1>1, <1>2, <1>4
  <1> QED BY <1>2, <1>4, <1>6, <1>7 DEF Bytes

\* Taking a message from the queue of those under way leaves a queue of messages.
LEMMA AfterType ==
  ASSUME NEW q \in Seq(Messages), NEW m
  PROVE  After(q, m) \in Seq(Messages)
  <1>1. CASE ~ \E i \in DOMAIN q : q[i] = m
    BY <1>1 DEF After
  <1>2. CASE \E i \in DOMAIN q : q[i] = m
    <2>1. PICK i \in DOMAIN q : After(q, m) = SubSeq(q, i + 1, Len(q))
      BY <1>2, FirstOccurrence DEF After
    <2>2. i \in 0 .. Len(q)
      BY LenProperties
    <2> QED BY <2>1, <2>2, CutType
  <1> QED BY <1>1, <1>2

\* The message a sending thread works on.
LEMMA CurrentType ==
  ASSUME TypeOK, NEW t \in Threads, todo[t] # <<>>
  PROVE  /\ Current(t) \in Messages
         /\ Current(t).tag \in Code
         /\ Current(t).value \in Bytes
         /\ Tail(todo[t]) \in Seq(Messages)
  <1>1. todo[t] \in Seq(Messages)
    BY DEF TypeOK
  <1>2. Head(todo[t]) \in Messages /\ Tail(todo[t]) \in Seq(Messages)
    BY <1>1, HeadTailProperties
  <1>3. Head(todo[t]) \in TLV
    BY <1>2, ChannelAssumption
  <1> QED BY <1>2, <1>3 DEF Current, TLV

\* A message in the buffer is looked at by the end that holds it.
LEMMA BufferType ==
  ASSUME TypeOK, NEW e \in Ends
  PROVE  /\ buf[e] \in Bytes /\ Len(buf[e]) \in Nat /\ Len(buf[e]) <= MaxMsgLen
         /\ wire[e] \in Bytes /\ Len(wire[e]) \in Nat
         /\ flight[e] \in Seq(Messages)
  BY LenProperties DEF TypeOK, Bytes

-----------------------------------------------------------------------------
(* The state always has its type.                                           *)

\* The program starts in a well-typed state.
LEMMA TypeInit == Init => TypeOK
  <1> SUFFICES ASSUME Init PROVE TypeOK
    OBVIOUS
  <1>1. Outbox \in [Threads -> Seq(Messages)] /\ MaxConns \in Nat /\ MaxMsgLen \in Nat
    BY ChannelAssumption, ProtocolAssumption
  <1>2. /\ <<>> \in Bytes /\ Len(<<>>) = 0 /\ <<>> \in Seq(Messages) /\ <<>> \in Seq(TLV)
    BY EmptySeq DEF Bytes
  <1> QED BY <1>1, <1>2 DEF Init, TypeOK, NoSocket

\* The sending side.
LEMMA TypeSend ==
  ASSUME TypeOK, NEW t \in Threads, SendStep(t)
  PROVE  TypeOK'
  <1>0. /\ EndOf(t) \in Ends /\ Peer(EndOf(t)) \in Ends
        /\ todo[t] \in Seq(Messages) /\ out[t] \in Bytes /\ Len(out[t]) \in Nat
    BY EndsType, LenProperties DEF TypeOK, Bytes
  <1>1. CASE SendMessage(t)
    BY <1>1 DEF SendMessage, TypeOK, chan, hist
  <1>2. CASE SerializeFails(t)
    <2>1. Tail(todo[t]) \in Seq(Messages)
      BY <1>2, CurrentType DEF SerializeFails
    <2> QED BY <1>2, <2>1 DEF SerializeFails, TypeOK, chan, hist
  <1>3. CASE LockSocket(t)
    <2>1. todo[t] # <<>>
      BY <1>3 DEF LockSocket, TypeOK
    <2>2. Len(Current(t).value) \in Nat
      BY <2>1, CurrentType, LenProperties DEF Bytes
    <2>3. PrintHeader(Current(t).tag, Len(Current(t).value)) \in Bytes
      BY <2>1, <2>2, CurrentType, HeaderShape
    <2>4. Append(flight[Peer(EndOf(t))], Current(t)) \in Seq(Messages)
      BY <1>0, <2>1, CurrentType, BufferType, AppendProperties
    <2>5. flight' \in [Ends -> Seq(Messages)]
      BY <1>0, <1>3, <2>4 DEF LockSocket, TypeOK
    <2>6. lock' \in [Ends -> Threads \cup {Free}]
      BY <1>0, <1>3 DEF LockSocket, TypeOK
    <2> QED BY <1>3, <2>1, <2>3, <2>5, <2>6 DEF LockSocket, TypeOK
  <1>4. CASE SendSome(t)
    <2>1. PICK n \in 1 .. Len(out[t]) :
            /\ out' = [out EXCEPT ![t] = SubSeq(@, n + 1, Len(@))]
            /\ \/ wire' = [wire EXCEPT ![Peer(EndOf(t))] = @ \o SubSeq(out[t], 1, n)]
               \/ UNCHANGED wire
      BY <1>4 DEF SendSome
    <2>2. n \in 0 .. Len(out[t])
      BY <1>0
    <2>3. /\ SubSeq(out[t], 1, n) \in Bytes
          /\ SubSeq(out[t], n + 1, Len(out[t])) \in Bytes
      BY <1>0, <2>2, CutType DEF Bytes
    <2>4. wire[Peer(EndOf(t))] \o SubSeq(out[t], 1, n) \in Bytes
      BY <1>0, <2>3, BufferType, ConcatProperties DEF Bytes
    <2>5. wire' \in [Ends -> Bytes]
      BY <1>0, <2>1, <2>4 DEF TypeOK
    <2>6. out' \in [Threads -> Bytes]
      BY <2>1, <2>3 DEF TypeOK
    <2> QED BY <1>4, <2>5, <2>6 DEF SendSome, TypeOK, hist
  <1>5. CASE HeaderSent(t)
    <2>1. todo[t] # <<>>
      BY <1>5 DEF HeaderSent, TypeOK
    <2> QED BY <1>5, <2>1, CurrentType DEF HeaderSent, TypeOK, chan, hist
  <1>6. ASSUME InSend(t), Return(t)
        PROVE  /\ lock' \in [Ends -> Threads \cup {Free}]
               /\ spc' \in [Threads -> {"idle", "lock", "header", "value"}]
               /\ out' \in [Threads -> Bytes]
               /\ todo' \in [Threads -> Seq(Messages)]
               /\ \A u \in Threads : spc'[u] # "idle" => todo'[u] # <<>>
    <2>1. todo[t] # <<>>
      BY <1>6 DEF InSend, TypeOK
    <2>2. Tail(todo[t]) \in Seq(Messages) /\ <<>> \in Bytes
      BY <2>1, CurrentType, EmptySeq DEF Bytes
    <2> QED BY <1>0, <1>6, <2>2 DEF Return, TypeOK
  <1>7. CASE MessageSent(t)
    <2>1. Current(t) \in Messages
      BY <1>7, CurrentType DEF MessageSent, InSend, TypeOK
    <2> QED BY <1>6, <1>7, <2>1 DEF MessageSent, Return, TypeOK
  <1>8. CASE SendFails(t)
    <2>1. SubSeq(flight[Peer(EndOf(t))], 1, Len(flight[Peer(EndOf(t))]) - 1)
            \in Seq(Messages)
      BY <1>0, BufferType, FrontType
    <2>2. flight' \in [Ends -> Seq(Messages)]
      BY <1>0, <1>8, <2>1 DEF SendFails, TypeOK
    <2>3. torn' \in [Ends -> BOOLEAN]
      BY <1>0, <1>8 DEF SendFails, TypeOK, Connected, IsOpen, PeerGone, Unsent
    <2> QED BY <1>6, <1>8, <2>2, <2>3 DEF SendFails, Return, TypeOK
  <1> QED BY <1>1, <1>2, <1>3, <1>4, <1>5, <1>7, <1>8 DEF SendStep

\* The receiving side.
LEMMA TypeService ==
  ASSUME TypeOK, NEW e \in Ends, ServiceStep(e)
  PROVE  TypeOK'
  <1>0. /\ buf[e] \in Bytes /\ Len(buf[e]) \in Nat /\ Len(buf[e]) <= MaxMsgLen
        /\ wire[e] \in Bytes /\ Len(wire[e]) \in Nat
        /\ flight[e] \in Seq(Messages)
    BY BufferType
  <1>1. CASE Recv(e)
    <2>1. PICK n \in 1 .. Len(wire[e]) :
            /\ Len(buf[e]) + n <= MaxMsgLen
            /\ buf'  = [buf EXCEPT ![e] = @ \o SubSeq(wire[e], 1, n)]
            /\ wire' = [wire EXCEPT ![e] = SubSeq(@, n + 1, Len(@))]
      <3>1. PICK n \in 1 .. Len(wire[e]) :
              /\ n <= Smaller(Len(wire[e]), Space(e))
              /\ buf'  = [buf EXCEPT ![e] = @ \o SubSeq(wire[e], 1, n)]
              /\ wire' = [wire EXCEPT ![e] = SubSeq(@, n + 1, Len(@))]
        BY <1>1 DEF Recv, Moves
      <3>2. MaxMsgLen \in Nat /\ n \in Nat
        BY <1>0, ProtocolAssumption
      <3>3. n <= MaxMsgLen - Len(buf[e])
        <4>1. \A a, b \in Int : Smaller(a, b) <= b
          BY DEF Smaller
        <4>2. Len(wire[e]) \in Int /\ Space(e) \in Int /\ Space(e) = MaxMsgLen - Len(buf[e])
          BY <1>0, <3>2 DEF Space
        <4>3. Smaller(Len(wire[e]), Space(e)) <= Space(e)
          BY <4>1, <4>2
        <4>4. Smaller(Len(wire[e]), Space(e)) \in Int
          BY <4>2 DEF Smaller
        <4> QED BY <3>1, <3>2, <4>2, <4>3, <4>4
      <3>4. Len(buf[e]) + n <= MaxMsgLen
        BY <1>0, <3>2, <3>3
      <3> QED BY <3>1, <3>4
    <2>2. n \in 0 .. Len(wire[e])
      BY <1>0
    <2>3. /\ SubSeq(wire[e], 1, n) \in Bytes /\ Len(SubSeq(wire[e], 1, n)) = n
          /\ SubSeq(wire[e], n + 1, Len(wire[e])) \in Bytes
      BY <1>0, <2>2, CutType, SMTT(30) DEF Bytes
    <2>4. /\ buf[e] \o SubSeq(wire[e], 1, n) \in Bytes
          /\ Len(buf[e] \o SubSeq(wire[e], 1, n)) = Len(buf[e]) + n
      BY <1>0, <2>3, ConcatProperties DEF Bytes
    <2>5. buf' \in [Ends -> Bytes] /\ wire' \in [Ends -> Bytes]
      BY <2>1, <2>3, <2>4 DEF TypeOK
    <2>6. \A d \in Ends : Len(buf'[d]) <= MaxMsgLen
      BY <2>1, <2>4 DEF TypeOK
    <2> QED BY <1>1, <2>5, <2>6 DEF Recv, TypeOK, send, hist
  <1>2. CASE RecvFails(e)
    BY <1>2 DEF RecvFails, TypeOK, send, hist
  <1>3. CASE ParseEnds(e)
    BY <1>3 DEF ParseEnds, TypeOK, send, hist
  <1>4. CASE RejectFrame(e)
    <2>1. <<>> \in Bytes /\ Len(<<>>) = 0 /\ MaxMsgLen \in Nat
      BY EmptySeq, ProtocolAssumption DEF Bytes
    <2> QED BY <1>4, <2>1 DEF RejectFrame, TypeOK, send, hist
  <1>5. ASSUME HasFrame(buf[e]), Shift(e)
        PROVE  buf' \in [Ends -> Bytes] /\ \A d \in Ends : Len(buf'[d]) <= MaxMsgLen
    <2>1. ShiftFrame(buf[e]) \in Bytes /\ Len(ShiftFrame(buf[e])) < Len(buf[e])
      BY <1>0, <1>5, FrameType
    <2>2. Len(ShiftFrame(buf[e])) \in Nat /\ MaxMsgLen \in Nat
      BY <2>1, LenProperties, ProtocolAssumption DEF Bytes
    <2>3. Len(ShiftFrame(buf[e])) <= MaxMsgLen
      BY <1>0, <2>1, <2>2
    <2> QED BY <1>5, <2>1, <2>3 DEF Shift, TypeOK
  <1>6. ASSUME Take(e) PROVE flight' \in [Ends -> Seq(Messages)]
    BY <1>0, <1>6, AfterType DEF Take, TypeOK
  <1>7. CASE DropFrame(e)
    BY <1>5, <1>6, <1>7 DEF DropFrame, Shift, TypeOK, send
  <1>8. CASE UnserializeFails(e)
    BY <1>8 DEF UnserializeFails, TypeOK, send, hist
  <1>9. CASE Dispatch(e)
    <2>1. Scan(buf[e]) \in TLV
      BY <1>0, <1>9, FrameType DEF Dispatch
    <2>2. Append(executed[e], Scan(buf[e])) \in Seq(TLV)
      BY <2>1, AppendProperties DEF TypeOK
    <2>3. executed' \in [Ends -> Seq(TLV)]
      BY <1>9, <2>2 DEF Dispatch, TypeOK
    <2> QED BY <1>6, <1>9, <2>3 DEF Dispatch, TypeOK, send
  <1>10. CASE CallbackReturns(e)
    <2>1. HasFrame(buf[e])
      BY <1>10 DEF CallbackReturns, TypeOK
    <2> QED BY <1>5, <1>10, <2>1 DEF CallbackReturns, Shift, TypeOK, send, hist
  <1>11. CASE Close(e)
    <2>1. /\ <<>> \in Bytes /\ Len(<<>>) = 0 /\ <<>> \in Seq(Messages)
          /\ MaxMsgLen \in Nat /\ NoSocket \in 0 .. MaxConns
      BY EmptySeq, ProtocolAssumption, ChannelAssumption DEF Bytes, NoSocket
    <2> QED BY <1>11, <2>1 DEF Close, TypeOK, send
  <1> QED BY <1>1, <1>2, <1>3, <1>4, <1>7, <1>8, <1>9, <1>10, <1>11 DEF ServiceStep

\* Opening and stopping.
LEMMA TypeControl ==
  ASSUME TypeOK, Open \/ Idle \/ \E e \in Ends : Stop(e)
  PROVE  TypeOK'
  <1>1. CASE Open
    BY <1>1, ChannelAssumption DEF Open, TypeOK, send
  <1>2. CASE Idle
    BY <1>2 DEF Idle, vars, chan, send, hist, TypeOK
  <1>3. ASSUME NEW e \in Ends, Stop(e) PROVE TypeOK'
    BY <1>3 DEF Stop, TypeOK, send, hist
  <1> QED BY <1>1, <1>2, <1>3

\* In every state of every behaviour the variables have their types; above all,
\* the receive buffer never holds more than kMaxMsgLen bytes, whatever arrives
\* and however it is cut (RecvData, RecvString).
THEOREM TypeCorrect == Spec => []TypeOK
  <1>1. TypeOK /\ [Next]_vars => TypeOK'
    <2> SUFFICES ASSUME TypeOK, [Next]_vars PROVE TypeOK'
      OBVIOUS
    <2>1. CASE UNCHANGED vars
      BY <2>1 DEF vars, chan, send, hist, TypeOK
    <2>2. CASE Next
      BY <2>2, TypeSend, TypeService, TypeControl DEF Next
    <2> QED BY <2>1, <2>2
  <1> QED BY <1>1, TypeInit, PTL DEF Spec

-----------------------------------------------------------------------------
(* The lock.                                                                *)

\* A thread is inside a message exactly while it owns its end's lock: LockSocket
\* waits until nobody does, and every exit of SendTLV gives it back.
THEOREM LockCorrect == Spec => []LockInv
  <1>1. Init => LockInv
    BY ChannelAssumption, EndsType DEF Init, LockInv, InSend
  <1>2. TypeOK /\ LockInv /\ [Next]_vars => LockInv'
    <2> SUFFICES ASSUME TypeOK, LockInv, [Next]_vars PROVE LockInv'
      OBVIOUS
    <2>0. /\ \A t \in Threads : EndOf(t) \in Ends
          /\ Free \notin Threads
      BY EndsType, ChannelAssumption
    <2>1. ASSUME NEW t \in Threads, SendStep(t) PROVE LockInv'
      <3>1. CASE SendMessage(t)
        BY <3>1 DEF SendMessage, LockInv, InSend, TypeOK, chan
      <3>2. CASE SerializeFails(t)
        BY <3>2 DEF SerializeFails, LockInv, InSend, chan
      <3>3. CASE LockSocket(t)
        BY <2>0, <3>3, SMTT(30) DEF LockSocket, LockIsFree, LockInv, InSend, TypeOK
      <3>4. CASE SendSome(t)
        BY <3>4 DEF SendSome, LockInv, InSend
      <3>5. CASE HeaderSent(t)
        BY <3>5 DEF HeaderSent, LockInv, InSend, TypeOK, chan
      <3>6. ASSUME InSend(t), Return(t) PROVE LockInv'
        BY <2>0, <3>6 DEF Return, LockInv, InSend, TypeOK
      <3>7. CASE MessageSent(t)
        BY <3>6, <3>7 DEF MessageSent
      <3>8. CASE SendFails(t)
        BY <3>6, <3>8 DEF SendFails
      <3> QED BY <2>1, <3>1, <3>2, <3>3, <3>4, <3>5, <3>7, <3>8 DEF SendStep
    <2>2. ASSUME UNCHANGED <<lock, spc>> PROVE LockInv'
      BY <2>2 DEF LockInv, InSend
    <2>3. ASSUME NEW e \in Ends, ServiceStep(e) \/ Stop(e) PROVE LockInv'
      BY <2>2, <2>3
         DEF ServiceStep, Recv, RecvFails, ParseEnds, RejectFrame, DropFrame,
             UnserializeFails, Dispatch, CallbackReturns, Close, Stop, send
    <2>4. CASE Open \/ Idle \/ UNCHANGED vars
      BY <2>2, <2>4 DEF Open, Idle, vars, chan, send
    <2> QED BY <2>1, <2>3, <2>4 DEF Next
  <1> QED BY <1>1, <1>2, TypeCorrect, PTL DEF Spec

\* No two threads of one end are between the header and the end of a value, which
\* is what keeps their frames apart on the stream (SendTLV's lock_guard).
THEOREM SendersExclude ==
  Spec => [](\A t, u \in Threads :
               InSend(t) /\ InSend(u) /\ EndOf(t) = EndOf(u) => t = u)
  <1>1. LockInv => \A t, u \in Threads :
                     InSend(t) /\ InSend(u) /\ EndOf(t) = EndOf(u) => t = u
    BY DEF LockInv
  <1> QED BY <1>1, LockCorrect, PTL

-----------------------------------------------------------------------------
(* The receive buffer.                                                      *)

\* When the parser stops for want of data, what is in the buffer is shorter than
\* the largest message, so the buffer is not full.
LEMMA RoomForMore ==
  ASSUME NEW b \in Bytes, NeedMore(b)
  PROVE  Len(b) < MaxMsgLen
  <1>0. /\ MaxMsgLen \in Nat /\ MaxMsgLen > 12 /\ Len(b) \in Nat
    BY ProtocolAssumption, LenProperties DEF HdrLen, Bytes
  <1>1. CASE ~HasHeader(b)
    BY <1>0, <1>1 DEF HasHeader, HdrLen
  <1>2. CASE GoodHeader(b) /\ ~HasFrame(b)
    <2>1. Len(b) >= 12 /\ ScanLen(b) < MaxMsgLen - 12
      <3>1. Len(b) >= 12
        BY <1>2 DEF GoodHeader, HasHeader, HdrLen
      <3>2. ScanLen(b) \in Nat /\ ~ (ScanLen(b) >= MaxMsgLen - 12)
        BY <1>2, <3>1, FieldType DEF GoodHeader, TooLarge, HdrLen
      <3> QED BY <1>0, <3>1, <3>2
    <2>2. ScanLen(b) \in Nat /\ FrameLen(b) = 12 + ScanLen(b) /\ Len(b) < FrameLen(b)
      BY <1>0, <1>2, <2>1, FieldType DEF HasFrame
    <2> QED BY <1>0, <2>1, <2>2
  <1> QED BY <1>1, <1>2 DEF NeedMore

\* The service thread never waits for data with a full buffer, for any sizes of
\* buffers and messages and any bytes the peer sends: the length check of
\* RecvString is strict enough for RecvData to always have room.
THEOREM BufferCorrect == Spec => []BufferHasRoom
  <1>1. Init => BufferHasRoom
    <2>1. MaxMsgLen \in Nat /\ MaxMsgLen > 12 /\ Len(<<>>) = 0
      BY ProtocolAssumption, EmptySeq DEF HdrLen
    <2> QED BY <2>1 DEF Init, BufferHasRoom
  <1>2. TypeOK /\ BufferHasRoom /\ [Next]_vars => BufferHasRoom'
    <2> SUFFICES ASSUME TypeOK, BufferHasRoom, [Next]_vars PROVE BufferHasRoom'
      OBVIOUS
    <2>1. ASSUME UNCHANGED <<buf, rpc>> PROVE BufferHasRoom'
      BY <2>1 DEF BufferHasRoom
    <2>2. ASSUME NEW t \in Threads, SendStep(t) PROVE BufferHasRoom'
      BY <2>1, <2>2
         DEF SendStep, SendMessage, SerializeFails, LockSocket, SendSome,
             HeaderSent, MessageSent, SendFails, Return, chan
    <2>3. CASE Open \/ Idle \/ UNCHANGED vars
      BY <2>1, <2>3 DEF Open, Idle, vars, chan
    <2>4. ASSUME NEW e \in Ends, ServiceStep(e) \/ Stop(e) PROVE BufferHasRoom'
      <3>1. CASE ParseEnds(e)
        <4>1. Len(buf[e]) < MaxMsgLen
          BY <3>1, BufferType, RoomForMore DEF ParseEnds
        <4> QED BY <3>1, <4>1 DEF ParseEnds, BufferHasRoom, TypeOK
      <3>2. CASE Close(e)
        <4>1. Len(<<>>) = 0 /\ MaxMsgLen \in Nat /\ MaxMsgLen > 12
          BY EmptySeq, ProtocolAssumption DEF HdrLen
        <4> QED BY <3>2, <4>1 DEF Close, BufferHasRoom, TypeOK
      <3>3. CASE RecvFails(e) \/ UnserializeFails(e) \/ Dispatch(e) \/ Stop(e)
        BY <3>3 DEF RecvFails, UnserializeFails, Dispatch, Stop, BufferHasRoom, TypeOK
      <3>4. CASE Recv(e) \/ RejectFrame(e)
        <4>1. /\ rpc' = [rpc EXCEPT ![e] = rpc'[e]] /\ rpc'[e] # "select"
              /\ \A d \in Ends \ {e} : buf'[d] = buf[d]
          BY <3>4 DEF Recv, RejectFrame, TypeOK
        <4> QED BY <4>1 DEF BufferHasRoom, TypeOK
      <3>5. CASE DropFrame(e) \/ CallbackReturns(e)
        <4>1. /\ \A d \in Ends \ {e} : rpc'[d] = rpc[d] /\ buf'[d] = buf[d]
              /\ rpc'[e] = "parse"
          BY <3>5 DEF DropFrame, CallbackReturns, Shift, TypeOK
        <4> QED BY <4>1 DEF BufferHasRoom
      <3> QED BY <2>4, <3>1, <3>2, <3>3, <3>4, <3>5 DEF ServiceStep
    <2> QED BY <2>2, <2>3, <2>4 DEF Next
  <1> QED BY <1>1, <1>2, TypeCorrect, PTL DEF Spec

-----------------------------------------------------------------------------
(* What else is always true of locks, sockets and senders.                  *)

\* A lock is held by a thread of its own end.
Owners == \A e \in Ends : lock[e] # Free => EndOf(lock[e]) = e

\* There is one connection at a time, and a closed end has nothing in hand.
Sockets == \A e \in Ends :
  /\ socket[e] \in {NoSocket, conns}
  /\ ~IsOpen(e) => /\ rpc[e] = "select" /\ buf[e] = <<>>
                   /\ wire[e] = <<>> /\ flight[e] = <<>>

\* A thread sends what was serialized; before it has sent a byte, it has the whole
\* header to send.
Senders == \A t \in Threads :
  /\ spc[t] # "idle" => Current(t) \in Serializable
  /\ spc[t] = "header" => Len(out[t]) <= HdrLen
  /\ Unsent(t) => out[t] = PrintHeader(Current(t).tag, Len(Current(t).value))

\* All of this, with the types and the lock.
Basic == TypeOK /\ LockInv /\ Owners /\ Sockets /\ Senders

\* The sending side.
LEMMA OwnersStep ==
  ASSUME Basic, [Next]_vars
  PROVE  Owners'
  <1>0. \A t \in Threads : EndOf(t) \in Ends
    BY EndsType
  <1>1. ASSUME UNCHANGED lock PROVE Owners'
    BY <1>1 DEF Basic, Owners
  <1>2. ASSUME NEW t \in Threads, SendStep(t) PROVE Owners'
    <2>1. CASE LockSocket(t)
      BY <1>0, <2>1 DEF LockSocket, Basic, Owners, TypeOK
    <2>2. ASSUME Return(t) PROVE Owners'
      BY <1>0, <2>2 DEF Return, Basic, Owners, TypeOK
    <2>3. CASE MessageSent(t) \/ SendFails(t)
      BY <2>2, <2>3 DEF MessageSent, SendFails
    <2>4. CASE SendMessage(t) \/ SerializeFails(t) \/ SendSome(t) \/ HeaderSent(t)
      BY <1>1, <2>4 DEF SendMessage, SerializeFails, SendSome, HeaderSent, chan
    <2> QED BY <1>2, <2>1, <2>3, <2>4 DEF SendStep
  <1>3. ASSUME NEW e \in Ends, ServiceStep(e) \/ Stop(e) PROVE Owners'
    BY <1>1, <1>3
       DEF ServiceStep, Recv, RecvFails, ParseEnds, RejectFrame, DropFrame,
           UnserializeFails, Dispatch, CallbackReturns, Close, Stop, send
  <1>4. CASE Open \/ Idle \/ UNCHANGED vars
    BY <1>1, <1>4 DEF Open, Idle, vars, chan, send
  <1> QED BY <1>2, <1>3, <1>4 DEF Next

\* Connecting and closing.
LEMMA SocketsStep ==
  ASSUME Basic, [Next]_vars
  PROVE  Sockets'
  <1>0. /\ \A t \in Threads : EndOf(t) \in Ends
        /\ \A e \in Ends : Peer(e) \in Ends /\ Peer(e) # e /\ Peer(Peer(e)) = e
        /\ conns \in Nat
    BY EndsType, ChannelAssumption DEF Basic, TypeOK, Peer, Ends
  <1>1. ASSUME UNCHANGED <<socket, conns, rpc, buf, wire, flight>> PROVE Sockets'
    BY <1>1 DEF Basic, Sockets, IsOpen
  <1>2. ASSUME NEW t \in Threads, SendStep(t) PROVE Sockets'
    <2> DEFINE d == Peer(EndOf(t))
    <2>1. CASE LockSocket(t)
      <3>1. CASE Connected(EndOf(t))
        <4>1. IsOpen(d)
          BY <3>1 DEF Connected, PeerGone, IsOpen
        <4> HIDE DEF d
        <4>2. UNCHANGED <<socket, conns, rpc, buf, wire>>
          BY <2>1 DEF LockSocket
        <4>3. \A x \in Ends : x # d => flight'[x] = flight[x]
          BY <2>1, <3>1 DEF LockSocket, d, Basic, TypeOK
        <4> QED BY <4>1, <4>2, <4>3 DEF Basic, Sockets, IsOpen
      <3>2. CASE ~Connected(EndOf(t))
        BY <1>1, <2>1, <3>2 DEF LockSocket
      <3> QED BY <3>1, <3>2
    <2>2. CASE SendSome(t)
      <3>1. CASE UNCHANGED wire
        BY <1>1, <2>2, <3>1 DEF SendSome, hist
      <3>2. CASE ~ UNCHANGED wire
        <4>1. /\ ~PeerGone(EndOf(t)) /\ IsOpen(EndOf(t))
              /\ \E s : wire' = [wire EXCEPT ![d] = s]
          BY <2>2, <3>2 DEF SendSome
        <4>2. IsOpen(d)
          BY <4>1 DEF PeerGone, IsOpen
        <4> HIDE DEF d
        <4>3. UNCHANGED <<socket, conns, rpc, buf, flight>>
          BY <2>2 DEF SendSome, hist
        <4> QED BY <4>1, <4>2, <4>3 DEF Basic, Sockets, IsOpen, TypeOK
      <3> QED BY <3>1, <3>2
    <2>3. CASE SendFails(t)
      <3>1. CASE Connected(EndOf(t))
        <4>1. IsOpen(d)
          BY <3>1 DEF Connected, PeerGone, IsOpen
        <4> HIDE DEF d
        <4>2. UNCHANGED <<socket, conns, rpc, buf, wire>>
          BY <2>3 DEF SendFails, Return
        <4>3. \A x \in Ends : x # d => flight'[x] = flight[x]
          BY <2>3, <3>1 DEF SendFails, d, Basic, TypeOK
        <4> QED BY <4>1, <4>2, <4>3 DEF Basic, Sockets, IsOpen
      <3>2. CASE ~Connected(EndOf(t))
        BY <1>1, <2>3, <3>2 DEF SendFails, Return
      <3> QED BY <3>1, <3>2
    <2>4. CASE SendMessage(t) \/ SerializeFails(t) \/ HeaderSent(t) \/ MessageSent(t)
      BY <1>1, <2>4 DEF SendMessage, SerializeFails, HeaderSent, MessageSent, Return, chan, hist
    <2> QED BY <1>2, <2>1, <2>2, <2>3, <2>4 DEF SendStep
  <1>3. ASSUME NEW e \in Ends, ServiceStep(e) \/ Stop(e) PROVE Sockets'
    <2>1. CASE Close(e)
      BY <2>1 DEF Close, Basic, Sockets, IsOpen, TypeOK, NoSocket
    <2>2. CASE ~ Close(e)
      <3>1. IsOpen(e)
        <4>1. rpc[e] # "select" \/ IsOpen(e)
          BY <1>3, <2>2
             DEF ServiceStep, Recv, RecvFails, ParseEnds, RejectFrame, DropFrame,
                 UnserializeFails, Dispatch, CallbackReturns, Stop
        <4> QED BY <4>1 DEF Basic, Sockets
      <3>2. /\ UNCHANGED <<socket, conns>>
            /\ \A x \in Ends : x # e => /\ rpc'[x] = rpc[x] /\ buf'[x] = buf[x]
                                        /\ wire'[x] = wire[x] /\ flight'[x] = flight[x]
        <4>1. CASE Recv(e)
          BY <4>1 DEF Recv, hist, Basic, TypeOK
        <4>2. CASE DropFrame(e)
          BY <4>2 DEF DropFrame, Shift, Take, Basic, TypeOK
        <4>3. CASE Dispatch(e)
          BY <4>3 DEF Dispatch, Take, Basic, TypeOK
        <4>4. CASE RecvFails(e) \/ ParseEnds(e) \/ RejectFrame(e) \/ UnserializeFails(e)
                   \/ CallbackReturns(e) \/ Stop(e)
          BY <4>4 DEF RecvFails, ParseEnds, RejectFrame, UnserializeFails,
                      CallbackReturns, Shift, Stop, hist, Basic, TypeOK
        <4> QED BY <1>3, <2>2, <4>1, <4>2, <4>3, <4>4 DEF ServiceStep
      <3> QED BY <3>1, <3>2 DEF Basic, Sockets, IsOpen
    <2> QED BY <2>1, <2>2
  <1>4. CASE Open
    <2>1. conns + 1 # 0 /\ \A e \in Ends : socket'[e] = conns + 1 /\ conns' = conns + 1
      BY <1>0, <1>4 DEF Open
    <2> QED BY <2>1 DEF Sockets, IsOpen, NoSocket
  <1>5. CASE Idle \/ UNCHANGED vars
    BY <1>1, <1>5 DEF Idle, vars, chan, send, hist
  <1> QED BY <1>2, <1>3, <1>4, <1>5 DEF Next

\* What is sent.
LEMMA SendersStep ==
  ASSUME Basic, [Next]_vars
  PROVE  Senders'
  <1>1. ASSUME UNCHANGED send PROVE Senders'
    BY <1>1 DEF Basic, Senders, Unsent, Current, send
  <1>2. ASSUME NEW t \in Threads, SendStep(t) PROVE Senders'
    <2>0. \A u \in Threads : u # t => /\ spc'[u] = spc[u] /\ out'[u] = out[u]
                                      /\ todo'[u] = todo[u]
      <3>1. CASE SendSome(t)
        BY <3>1 DEF SendSome, Basic, TypeOK
      <3>2. ASSUME Return(t)
            PROVE  \A u \in Threads : u # t => /\ spc'[u] = spc[u] /\ out'[u] = out[u]
                                               /\ todo'[u] = todo[u]
        BY <3>2 DEF Return, Basic, TypeOK
      <3>3. CASE MessageSent(t) \/ SendFails(t)
        BY <3>2, <3>3 DEF MessageSent, SendFails
      <3>4. CASE SendMessage(t) \/ SerializeFails(t) \/ LockSocket(t) \/ HeaderSent(t)
        BY <3>4 DEF SendMessage, SerializeFails, LockSocket, HeaderSent, Basic, TypeOK
      <3> QED BY <1>2, <3>1, <3>3, <3>4 DEF SendStep
    <2>1. SUFFICES /\ spc'[t] # "idle" => Current(t)' \in Serializable
                   /\ spc'[t] = "header" => Len(out'[t]) <= HdrLen
                   /\ Unsent(t)' => out'[t] = PrintHeader(Current(t)'.tag, Len(Current(t)'.value))
      BY <2>0 DEF Basic, Senders, Unsent, Current
    <2>2. CASE SendMessage(t)
      BY <2>2 DEF SendMessage, Unsent, Current, Basic, TypeOK
    <2>3. CASE SerializeFails(t) \/ MessageSent(t) \/ SendFails(t)
      BY <2>3 DEF SerializeFails, MessageSent, SendFails, Return, Unsent, Basic, TypeOK
    <2>4. CASE LockSocket(t)
      <3>1. /\ spc'[t] = "header" /\ todo' = todo /\ spc[t] = "lock"
            /\ out'[t] = PrintHeader(Current(t).tag, Len(Current(t).value))
        BY <2>4 DEF LockSocket, Basic, TypeOK
      <3>2. Len(out'[t]) = 12
        <4>1. todo[t] # <<>>
          BY <3>1 DEF Basic, TypeOK
        <4>2. Current(t).tag \in Code /\ Len(Current(t).value) \in Nat
          BY <4>1, CurrentType, LenProperties DEF Basic, Bytes
        <4> QED BY <3>1, <4>2, HeaderShape
      <3>3. Current(t)' = Current(t) /\ Current(t) \in Serializable
        BY <3>1 DEF Current, Basic, Senders
      <3>4. out'[t] = PrintHeader(Current(t)'.tag, Len(Current(t)'.value))
        BY <3>1, <3>3
      <3> QED BY <3>2, <3>3, <3>4 DEF HdrLen
    <2>5. CASE SendSome(t)
      <3>1. PICK n \in 1 .. Len(out[t]) : out' = [out EXCEPT ![t] = SubSeq(@, n + 1, Len(@))]
        BY <2>5 DEF SendSome
      <3>2. out[t] \in Seq(Byte) /\ Len(out[t]) \in Nat
        BY LenProperties DEF Basic, TypeOK, Bytes
      <3>3. n \in 0 .. Len(out[t])
        BY <3>2
      <3>4. Len(SubSeq(out[t], n + 1, Len(out[t]))) = Len(out[t]) - n
        BY <3>2, <3>3, CutType
      <3>5. out'[t] = SubSeq(out[t], n + 1, Len(out[t]))
        BY <3>1 DEF Basic, TypeOK
      <3>6. Len(out'[t]) = Len(out[t]) - n /\ spc' = spc /\ todo' = todo
        BY <2>5, <3>4, <3>5 DEF SendSome
      <3>7. spc[t] = "header" => Len(out'[t]) < 12
        BY <3>2, <3>3, <3>6 DEF Basic, Senders, HdrLen
      <3>8. Len(out'[t]) \in Nat
        BY <3>2, <3>3, <3>6
      <3> QED BY <3>6, <3>7, <3>8 DEF Basic, Senders, Current, Unsent, HdrLen
    <2>6. CASE HeaderSent(t)
      BY <2>6 DEF HeaderSent, Unsent, Basic, Senders, TypeOK, Current
    <2> QED BY <1>2, <2>2, <2>3, <2>4, <2>5, <2>6 DEF SendStep
  <1>3. ASSUME NEW e \in Ends, ServiceStep(e) \/ Stop(e) PROVE Senders'
    BY <1>1, <1>3
       DEF ServiceStep, Recv, RecvFails, ParseEnds, RejectFrame, DropFrame,
           UnserializeFails, Dispatch, CallbackReturns, Close, Stop
  <1>4. CASE Open \/ Idle \/ UNCHANGED vars
    BY <1>1, <1>4 DEF Open, Idle, vars
  <1> QED BY <1>2, <1>3, <1>4 DEF Next

\* They hold in every state.
LEMMA BasicCorrect == Spec => []Basic
  <1>1. Init => Owners /\ Sockets /\ Senders
    BY DEF Init, Owners, Sockets, Senders, IsOpen, Unsent
  <1>2. TypeOK /\ TypeOK' /\ LockInv /\ LockInv' /\ Owners /\ Sockets /\ Senders /\ [Next]_vars
          => Owners' /\ Sockets' /\ Senders'
    BY OwnersStep, SocketsStep, SendersStep DEF Basic
  <1>3. TypeOK /\ LockInv /\ Owners /\ Sockets /\ Senders => Basic
    BY DEF Basic
  <1> QED BY <1>1, <1>2, <1>3, TypeCorrect, LockCorrect, PTL DEF Spec
=============================================================================
