---------------------------- MODULE GepStreamProofs ----------------------------
(***************************************************************************)
(* What the channels do to the stream of bytes between them.               *)
(*                                                                         *)
(* While no send has failed halfway, the stream to an end is the frames of *)
(* the messages under way (StreamCorrect), and the parser finds the oldest *)
(* (OldestFirst).  The channels so keep the promise of zero or one         *)
(* execution (PromiseKept), which is about such streams and leaves open    *)
(* what is executed once a send has failed halfway.                        *)
(***************************************************************************)
EXTENDS GepChannelProofs

LOCAL INSTANCE SequencesExt

\* The bytes of the messages of a queue.
Frames(q) == FlattenSeq([i \in DOMAIN q |-> Frame(q[i])])

\* What is on its way to e: received, carried by the kernel, or yet to be sent.
Stream(e) == Unconsumed(e) \o wire[e] \o StillToSend(e)

-----------------------------------------------------------------------------
(* Streams and frames.                                                      *)

\* Concatenation is associative.
LEMMA Associate == \A a, b, c \in Bytes : (a \o b) \o c = a \o (b \o c)
  BY ConcatAssociative DEF Bytes

\* Streams can be put together, and the empty stream is neutral.
LEMMA Regroup ==
  /\ \A a \in Bytes : a \o <<>> = a /\ <<>> \o a = a
  /\ \A a, b \in Bytes : a \o b \in Bytes
  /\ <<>> \in Bytes
  <1>1. \A a \in Bytes : a \o <<>> = a /\ <<>> \o a = a
    BY ConcatEmptySeq DEF Bytes
  <1>2. \A a, b \in Bytes : a \o b \in Bytes
    BY ConcatProperties DEF Bytes
  <1> QED BY <1>1, <1>2, EmptySeq DEF Bytes

\* A stream continued in two ways is continued by the same; a stream that ends in
\* the same begins with the same.
LEMMA Cancel ==
  /\ \A a, b, c \in Bytes : a \o b = a \o c => b = c
  /\ \A a, b, c \in Bytes : a \o c = b \o c => a = b
  BY ConcatSimplifications DEF Bytes

\* Streams with the same first twelve bytes have the same header.
LEMMA SameFields ==
  ASSUME NEW a, NEW b, \A i \in 1 .. 12 : a[i] = b[i]
  PROVE  /\ Field(a, 4) = Field(b, 4)
         /\ Field(a, 8) = Field(b, 8)
  <1>1. /\ a[5] = b[5] /\ a[6] = b[6] /\ a[7] = b[7] /\ a[8] = b[8]
        /\ a[9] = b[9] /\ a[10] = b[10] /\ a[11] = b[11] /\ a[12] = b[12]
    OBVIOUS
  <1>2. /\ \A x : Field(x, 4) = <<x[5], x[6], x[7], x[8]>>
        /\ \A x : Field(x, 8) = <<x[9], x[10], x[11], x[12]>>
    BY DEF Field
  <1> QED BY <1>1, <1>2

\* What a message looks like on the stream.
LEMMA FrameShape ==
  ASSUME NEW m \in TLV
  PROVE  /\ Frame(m) \in Bytes
         /\ Len(m.value) \in Nat
         /\ m.value \in Bytes
         /\ m.tag \in Code
         /\ Len(Frame(m)) = 12 + Len(m.value)
         /\ Field(Frame(m), 4) = m.tag /\ Field(Frame(m), 8) = SET_UINT32(Len(m.value))
         /\ \A i \in 1 .. Len(m.value) : Frame(m)[12 + i] = m.value[i]
  <1>1. m.tag \in Code /\ m.value \in Bytes /\ Len(m.value) \in Nat
    BY LenProperties DEF TLV, Bytes
  <1>2. PICK h \in Bytes : /\ h = PrintHeader(m.tag, Len(m.value)) /\ Len(h) = 12
                          /\ Field(h, 4) = m.tag /\ Field(h, 8) = SET_UINT32(Len(m.value))
    BY <1>1, HeaderShape
  <1>3. PICK f \in Bytes : f = h \o m.value
    BY <1>1, Regroup
  <1>4. /\ Len(f) = 12 + Len(m.value)
        /\ \A i \in 1 .. 12 : f[i] = h[i]
        /\ \A i \in 1 .. Len(m.value) : f[12 + i] = m.value[i]
    <2>1. /\ Len(f) = Len(h) + Len(m.value)
          /\ \A i \in 1 .. Len(h) : f[i] = h[i]
          /\ \A i \in 1 .. Len(m.value) : f[Len(h) + i] = m.value[i]
      BY <1>1, <1>3, TwoParts
    <2> QED BY <1>2, <2>1
  <1>5. Field(f, 4) = Field(h, 4) /\ Field(f, 8) = Field(h, 8)
    BY <1>4, SameFields
  <1>6. Frame(m) = f
    BY <1>2, <1>3 DEF Frame
  <1> QED BY <1>1, <1>2, <1>4, <1>5, <1>6

\* The frames of a queue, before they are put together.
LEMMA FrameList ==
  ASSUME NEW q \in Seq(Messages)
  PROVE  \E f \in Seq(Bytes) : /\ Len(f) = Len(q)
                               /\ \A i \in 1 .. Len(q) : f[i] = Frame(q[i])
                               /\ Frames(q) = FlattenSeq(f)
  <1> DEFINE f == [i \in DOMAIN q |-> Frame(q[i])]
  <1>1. \A m \in Messages : Frame(m) \in Bytes
    BY ChannelAssumption, FrameShape
  <1>2. Len(q) \in Nat /\ DOMAIN q = 1 .. Len(q) /\ \A i \in 1 .. Len(q) : q[i] \in Messages
    BY LenProperties, ElementOfSeq
  <1>3. f \in [1 .. Len(q) -> Bytes] /\ \A i \in 1 .. Len(q) : f[i] = Frame(q[i])
    BY <1>1, <1>2
  <1>4. Frames(q) = FlattenSeq(f)
    BY DEF Frames
  <1> HIDE DEF f
  <1>5. f \in Seq(Bytes) /\ Len(f) = Len(q)
    BY <1>2, <1>3
  <1> QED BY <1>3, <1>4, <1>5

\* The frames of a queue are a stream; a message that is added to the queue adds
\* its frame, and the first message's frame is the first.
LEMMA FramesShape ==
  ASSUME NEW q \in Seq(Messages)
  PROVE  /\ Frames(q) \in Bytes
         /\ q = <<>> => Frames(q) = <<>>
         /\ \A m \in Messages : Frames(Append(q, m)) = Frames(q) \o Frame(m)
         /\ q # <<>> => Frames(q) = Frame(q[1]) \o Frames(Tail(q))
  <1>1. PICK f \in Seq(Bytes) : /\ Len(f) = Len(q)
                                /\ \A i \in 1 .. Len(q) : f[i] = Frame(q[i])
                                /\ Frames(q) = FlattenSeq(f)
    BY FrameList
  <1>2. f \in Seq(Seq(Byte))
    BY DEF Bytes
  <1>3. Len(q) \in Nat
    BY LenProperties
  <1>4. Frames(q) \in Bytes
    BY <1>1, <1>2, FlattenType DEF Bytes
  <1>5. ASSUME q = <<>> PROVE Frames(q) = <<>>
    <2>1. Len(f) = 0
      BY <1>1, <1>5, EmptySeq
    <2>2. f = <<>>
      BY <2>1, EmptySeq
    <2> QED BY <1>1, <2>1, <2>2, FlattenEmpty
  <1>6. ASSUME NEW m \in Messages PROVE Frames(Append(q, m)) = Frames(q) \o Frame(m)
    <2>1. /\ Append(q, m) \in Seq(Messages) /\ Len(Append(q, m)) = Len(q) + 1
          /\ \A i \in 1 .. Len(q) : Append(q, m)[i] = q[i]
          /\ Append(q, m)[Len(q) + 1] = m
      BY AppendProperties
    <2>2. PICK g \in Seq(Bytes) : /\ Len(g) = Len(q) + 1
                                  /\ \A i \in 1 .. Len(q) + 1 : g[i] = Frame(Append(q, m)[i])
                                  /\ Frames(Append(q, m)) = FlattenSeq(g)
      BY <2>1, FrameList
    <2>3. Frame(m) \in Bytes
      BY ChannelAssumption, FrameShape
    <2>4. PICK h \in Seq(Bytes) : h = Append(f, Frame(m))
      BY <2>3, AppendProperties
    <2>5. /\ Len(h) = Len(q) + 1
          /\ \A i \in 1 .. Len(q) : h[i] = f[i]
          /\ h[Len(q) + 1] = Frame(m)
      BY <1>1, <2>3, <2>4, AppendProperties
    <2>6. ASSUME NEW i \in 1 .. Len(q) + 1 PROVE g[i] = h[i]
      <3>1. CASE i = Len(q) + 1
        BY <2>1, <2>2, <2>5, <3>1
      <3>2. CASE i # Len(q) + 1
        <4>1. i \in 1 .. Len(q)
          BY <1>3, <3>2
        <4> QED BY <1>1, <2>1, <2>2, <2>5, <4>1
      <3> QED BY <3>1, <3>2
    <2>7. Len(g) = Len(h) /\ \A i \in 1 .. Len(g) : g[i] = h[i]
      BY <2>2, <2>5, <2>6
    <2>8. g = h
      BY <2>7, SeqEqual
    <2>9. FlattenSeq(Append(f, Frame(m))) = FlattenSeq(f) \o Frame(m)
      BY <1>2, <2>3, FlattenAppend DEF Bytes
    <2> QED BY <1>1, <2>2, <2>4, <2>8, <2>9
  <1>7. ASSUME q # <<>> PROVE Frames(q) = Frame(q[1]) \o Frames(Tail(q))
    <2>1. /\ Tail(q) \in Seq(Messages) /\ Len(Tail(q)) = Len(q) - 1
          /\ \A i \in 1 .. Len(Tail(q)) : Tail(q)[i] = q[i + 1]
      BY <1>7, HeadTailProperties
    <2>2. Len(f) # 0
      BY <1>1, <1>7, EmptySeq
    <2>3. f # <<>>
      BY <2>2, EmptyLength
    <2>4. PICK g \in Seq(Bytes) : /\ Len(g) = Len(q) - 1
                                  /\ \A i \in 1 .. Len(q) - 1 : g[i] = Frame(Tail(q)[i])
                                  /\ Frames(Tail(q)) = FlattenSeq(g)
      BY <2>1, FrameList
    <2>5. PICK h \in Seq(Bytes) : h = Tail(f)
      BY <2>3, HeadTailProperties
    <2>6. Len(h) = Len(q) - 1 /\ \A i \in 1 .. Len(q) - 1 : h[i] = f[i + 1]
      BY <1>1, <2>3, <2>5, HeadTailProperties
    <2>7. ASSUME NEW i \in 1 .. Len(q) - 1 PROVE g[i] = h[i]
      <3>1. i + 1 \in 1 .. Len(q) /\ i \in 1 .. Len(Tail(q))
        BY <1>3, <2>1
      <3> QED BY <1>1, <2>1, <2>4, <2>6, <3>1
    <2>8. Len(g) = Len(h) /\ \A i \in 1 .. Len(g) : g[i] = h[i]
      BY <2>4, <2>6, <2>7
    <2>9. g = h
      BY <2>8, SeqEqual
    <2>10. f[1] = Frame(q[1])
      <3>1. 1 \in 1 .. Len(q)
        BY <1>1, <1>3, <2>2
      <3> QED BY <1>1, <3>1
    <2>11. FlattenSeq(f) = f[1] \o FlattenSeq(Tail(f))
      BY <1>2, <2>2, FlattenHead
    <2> QED BY <1>1, <2>4, <2>5, <2>9, <2>10, <2>11
  <1> QED BY <1>4, <1>5, <1>6, <1>7

\* The frame at the front of the buffer, cut off, and the message in it.
LEMMA CutFrame ==
  ASSUME NEW b \in Bytes, HasFrame(b)
  PROVE  \E x \in Bytes :
           /\ b = x \o ShiftFrame(b)
           /\ Len(x) = FrameLen(b)
           /\ \A i \in 1 .. Len(x) : x[i] = b[i]
           /\ Scan(b).tag = ScanTag(b)
           /\ Scan(b).value \in Bytes /\ Len(Scan(b).value) = ScanLen(b)
           /\ \A i \in 1 .. ScanLen(b) : Scan(b).value[i] = x[12 + i]
  <1> DEFINE n == FrameLen(b)
             x == SubSeq(b, 1, n)
             v == SubSeq(b, 13, n)
  <1>1. /\ b \in Seq(Byte) /\ Len(b) \in Nat /\ ScanLen(b) \in Nat
        /\ n = 12 + ScanLen(b) /\ n \in 12 .. Len(b)
    <2>1. Len(b) >= 12
      BY DEF HasFrame, GoodHeader, HasHeader, HdrLen
    <2> QED BY <2>1, FieldType DEF HasFrame, Bytes
  <1>2. /\ ShiftFrame(b) = SubSeq(b, n + 1, Len(b))
        /\ Scan(b).tag = ScanTag(b) /\ Scan(b).value = v
    <2>1. Scan(b).value = SubSeq(b, 12 + 1, n) /\ Scan(b).tag = ScanTag(b)
      BY DEF Scan, HdrLen
    <2>2. 12 + 1 = 13
      OBVIOUS
    <2> QED BY <2>1, <2>2 DEF ShiftFrame
  <1> HIDE DEF n
  <1>3. n \in 0 .. Len(b) /\ 1 \in 1 .. Len(b) + 1 /\ n \in 1 - 1 .. Len(b)
        /\ Len(b) \in n .. Len(b) /\ n \in Int /\ 13 \in Int /\ 1 \in Int
    BY <1>1
  <1>4. x \in Seq(Byte) /\ Len(x) = n
    BY <1>1, <1>3, CutType
  <1>5. x \o SubSeq(b, n + 1, Len(b)) = SubSeq(b, 1, Len(b))
    BY <1>1, <1>3, ConcatAdjacentSubSeq
  <1>6. SubSeq(b, 1, Len(b)) = b
    BY <1>1, SubSeqFull
  <1>7. \A i \in 1 .. n : b[i] \in Byte
    BY <1>1, ElementOfSeq
  <1>8. \A i \in 1 .. n : x[i] = b[i]
    <2>1. \A i \in 1 .. n - 1 + 1 : x[i] = b[1 + i - 1]
      BY <1>3, <1>7, SubSeqProperties
    <2> HIDE DEF x
    <2> QED BY <1>1, <2>1
  <1>9. /\ v \in Seq(Byte) /\ Len(v) = ScanLen(b)
        /\ \A i \in 1 .. ScanLen(b) : v[i] = b[12 + i]
    <2>1. \A i \in 13 .. n : b[i] \in Byte
      BY <1>1, <1>7
    <2>2. /\ v \in Seq(Byte)
          /\ Len(v) = IF 13 <= n THEN n - 13 + 1 ELSE 0
          /\ \A i \in 1 .. n - 13 + 1 : v[i] = b[13 + i - 1]
      BY <1>3, <2>1, SubSeqProperties
    <2> HIDE DEF v
    <2>3. Len(v) = ScanLen(b)
      BY <1>1, <2>2
    <2>4. ASSUME NEW i \in 1 .. ScanLen(b) PROVE v[i] = b[12 + i]
      <3>1. i \in 1 .. n - 13 + 1 /\ 13 + i - 1 = 12 + i
        BY <1>1
      <3> QED BY <2>2, <3>1
    <2> QED BY <2>2, <2>3, <2>4
  <1> HIDE DEF x, v
  <1>10. b = x \o ShiftFrame(b)
    BY <1>2, <1>5, <1>6
  <1>11. \A i \in 1 .. ScanLen(b) : v[i] = x[12 + i]
    <2> TAKE i \in 1 .. ScanLen(b)
    <2>1. 12 + i \in 1 .. n
      BY <1>1
    <2> QED BY <1>8, <1>9, <2>1
  <1> QED BY <1>2, <1>4, <1>8, <1>9, <1>10, <1>11 DEF n, Bytes

\* A receiver in step with its senders: the parser reads the oldest message, and
\* what it leaves is the stream of the others.
LEMMA ParseFirst ==
  ASSUME NEW b \in Bytes, NEW r \in Bytes, NEW q \in Seq(Messages),
         HasFrame(b), b \o r = Frames(q)
  PROVE  /\ q # <<>> /\ Scan(b) = q[1]
         /\ ShiftFrame(b) \o r = Frames(Tail(q))
  <1>1. PICK x \in Bytes :
          /\ b = x \o ShiftFrame(b)
          /\ Len(x) = FrameLen(b)
          /\ \A i \in 1 .. Len(x) : x[i] = b[i]
          /\ Scan(b).tag = ScanTag(b)
          /\ Scan(b).value \in Bytes /\ Len(Scan(b).value) = ScanLen(b)
          /\ \A i \in 1 .. ScanLen(b) : Scan(b).value[i] = x[12 + i]
    BY CutFrame
  <1>2. /\ ShiftFrame(b) \in Bytes /\ Scan(b) \in TLV
        /\ Len(b) \in Nat /\ Len(b) >= 12 /\ ScanLen(b) \in Nat
        /\ FrameLen(b) = 12 + ScanLen(b) /\ 12 + ScanLen(b) <= Len(b)
    <2>1. Len(b) >= 12
      BY DEF HasFrame, GoodHeader, HasHeader, HdrLen
    <2> QED BY <2>1, FieldType, FrameType DEF HasFrame
  <1>3. q # <<>>
    <2>1. b # <<>>
      BY <1>2, EmptySeq
    <2>2. b \in Seq(Byte) /\ r \in Seq(Byte)
      BY DEF Bytes
    <2>3. b \o r # <<>>
      BY <2>1, <2>2, ConcatEqualIffEmpty
    <2> QED BY <2>3, FramesShape
  <1>4. PICK m \in Messages : m = q[1]
    <2>1. 1 \in 1 .. Len(q)
      BY <1>3, EmptySeq
    <2> QED BY <2>1, ElementOfSeq
  <1>5. /\ m \in TLV /\ Tail(q) \in Seq(Messages) /\ Len(m.value) <= MaxInt
        /\ m = [tag |-> m.tag, value |-> m.value]
    <2>1. m \in TLV /\ Len(m.value) <= MaxInt
      BY ChannelAssumption
    <2> QED BY <1>3, <2>1, HeadTailProperties DEF TLV
  <1>6. PICK f \in Bytes, k \in Nat, rest \in Bytes :
          /\ f = Frame(m) /\ k = Len(m.value) /\ rest = Frames(Tail(q))
          /\ Len(f) = 12 + k
          /\ Field(f, 4) = m.tag /\ Field(f, 8) = SET_UINT32(k)
          /\ \A i \in 1 .. k : f[12 + i] = m.value[i]
    BY <1>5, FramesShape, FrameShape
  <1>7. b \o r = f \o rest
    BY <1>3, <1>4, <1>6, FramesShape
  <1>8. /\ \A i \in 1 .. Len(b) : (b \o r)[i] = b[i]
        /\ \A i \in 1 .. Len(f) : (b \o r)[i] = f[i]
    BY <1>7, TwoParts
  <1>9. \A i \in 1 .. 12 : b[i] = f[i]
    <2> TAKE i \in 1 .. 12
    <2>1. i \in 1 .. Len(b)
      BY <1>2
    <2>2. i \in 1 .. Len(f)
      BY <1>6
    <2> QED BY <1>8, <2>1, <2>2
  <1>10. ScanTag(b) = m.tag /\ ScanLen(b) = k
    <2>1. Field(b, 4) = m.tag /\ Field(b, 8) = SET_UINT32(k)
      BY <1>6, <1>9, SameFields
    <2>2. k < 65536 * 65536
      <3>1. k <= MaxInt
        BY <1>5, <1>6
      <3> QED BY <3>1, SMT DEF MaxInt
    <2>3. UINT32(SET_UINT32(k)) = k
      BY <2>2, Uint32RoundTrip, SMT
    <2> QED BY <2>1, <2>3 DEF ScanTag, ScanLen
  <1>11. x = f
    <2>1. x \in Seq(Byte) /\ f \in Seq(Byte) /\ Len(x) = Len(f)
      BY <1>1, <1>2, <1>6, <1>10 DEF Bytes
    <2>2. \A i \in 1 .. Len(x) : i \in 1 .. Len(b) /\ i \in 1 .. Len(f)
      BY <1>1, <1>2, <2>1
    <2>3. \A i \in 1 .. Len(x) : x[i] = f[i]
      BY <1>1, <1>8, <2>2
    <2> QED BY <2>1, <2>3, SeqEqual
  <1>12. Scan(b) = m
    <2>1. PICK c \in TLV : c = Scan(b)
      BY <1>2
    <2>2. /\ c.tag = m.tag /\ Len(c.value) = k
          /\ \A i \in 1 .. k : c.value[i] = f[12 + i]
      BY <1>1, <1>10, <1>11, <2>1
    <2>3. c.value \in Seq(Byte) /\ m.value \in Seq(Byte) /\ c = [tag |-> c.tag, value |-> c.value]
      BY <1>5, <2>1 DEF TLV, Bytes
    <2>4. Len(c.value) = Len(m.value) /\ \A i \in 1 .. Len(c.value) : c.value[i] = m.value[i]
      BY <1>6, <2>2
    <2>5. c.value = m.value
      BY <2>3, <2>4, SeqEqual
    <2> QED BY <1>5, <2>1, <2>2, <2>3, <2>5
  <1>13. ShiftFrame(b) \o r = rest
    <2>1. PICK y \in Bytes : y = ShiftFrame(b)
      BY <1>2
    <2>2. (x \o y) \o r = x \o (y \o r)
      BY Associate
    <2>3. f \o (y \o r) = f \o rest
      BY <1>1, <1>7, <1>11, <2>1, <2>2
    <2>4. y \o r \in Bytes
      BY Regroup
    <2> QED BY <2>1, <2>3, <2>4, Cancel
  <1> QED BY <1>3, <1>4, <1>6, <1>12, <1>13

\* Taking the first message of a queue.
LEMMA AfterFirst ==
  ASSUME NEW q \in Seq(Messages), q # <<>>
  PROVE  After(q, q[1]) = Tail(q)
  <1>1. Len(q) \in Nat \ {0} /\ DOMAIN q = 1 .. Len(q)
    BY EmptySeq, LenProperties
  <1>2. 1 \in DOMAIN q /\ \E i \in DOMAIN q : q[i] = q[1]
    BY <1>1
  <1> DEFINE i == CHOOSE k \in DOMAIN q : q[k] = q[1] /\ \A j \in 1 .. k - 1 : q[j] # q[1]
  <1>3. i \in DOMAIN q /\ \A j \in 1 .. i - 1 : q[j] # q[1]
    BY <1>2, FirstOccurrence
  <1>4. After(q, q[1]) = SubSeq(q, i + 1, Len(q))
    BY <1>2 DEF After
  <1> HIDE DEF i
  <1>5. i = 1
    <2>1. SUFFICES ASSUME i # 1 PROVE FALSE
      OBVIOUS
    <2>2. 1 \in 1 .. i - 1
      BY <1>1, <1>3, <2>1
    <2> QED BY <1>3, <2>2
  <1>6. Tail(q) = SubSeq(q, 2, Len(q))
    BY TailIsSubSeq
  <1> QED BY <1>4, <1>5, <1>6

-----------------------------------------------------------------------------
(* What a step does to the stream to an end and to its queue.               *)

\* Nothing.
Same(e) == Stream(e)' = Stream(e) /\ flight'[e] = flight[e]

\* A message is sent.
Grows(e, m) == /\ Stream(e)' = Stream(e) \o Frame(m)
               /\ flight'[e] = Append(flight[e], m)

\* A message of which nothing was sent is given up.
Shrinks(e, m) == /\ Stream(e) = Stream(e)' \o Frame(m)
                 /\ flight'[e] = SubSeq(flight[e], 1, Len(flight[e]) - 1)

\* The rest of a message is given up.
Breaks(e) == /\ \E r \in Bytes : Stream(e) = Stream(e)' \o r
             /\ flight'[e] = flight[e]

\* The receiver throws away what it has.
Forgets(e) == /\ \E r \in Bytes : Stream(e) = r \o Stream(e)'
              /\ flight'[e] = flight[e]

\* The receiver takes the message its parser has found.
Takes(e) == /\ HasFrame(buf[e])
            /\ \E r \in Bytes : /\ Stream(e) = buf[e] \o r
                                /\ Stream(e)' = ShiftFrame(buf[e]) \o r
            /\ flight'[e] = After(flight[e], Scan(buf[e]))

\* The connection is gone.
Gone(e) == Stream(e)' = <<>> /\ flight'[e] = <<>>

\* The ends are two.
LEMMA Twins ==
  ASSUME NEW e \in Ends
  PROVE  /\ Peer(e) \in Ends /\ Peer(e) # e /\ Peer(Peer(e)) = e
         /\ \A x \in Ends : x = e \/ x = Peer(e)
         /\ Connected(e) <=> Connected(Peer(e))
         /\ Connected(e)' <=> Connected(Peer(e))'
         /\ Connected(e) => IsOpen(Peer(e))
  BY ChannelAssumption DEF Peer, Ends, Connected, IsOpen, PeerGone

\* Who holds a lock is inside a message.
LEMMA Holder ==
  ASSUME Basic, NEW e \in Ends, lock[e] # Free
  PROVE  /\ lock[e] \in Threads /\ EndOf(lock[e]) = e /\ InSend(lock[e])
         /\ todo[lock[e]] # <<>>
  <1>1. lock[e] \in Threads
    BY DEF Basic, TypeOK
  <1>2. EndOf(lock[e]) = e
    BY DEF Basic, Owners
  <1> QED BY <1>1, <1>2 DEF Basic, LockInv, InSend, TypeOK

\* A stream and its parts.
Parts ==
  \A e \in Ends :
    /\ Unconsumed(e) \in Bytes /\ wire[e] \in Bytes /\ StillToSend(e) \in Bytes
    /\ Stream(e) \in Bytes
    /\ Stream(e) = Unconsumed(e) \o (wire[e] \o StillToSend(e))

\* All of them are streams.
LEMMA StreamType == Basic => Parts
  <1> SUFFICES ASSUME Basic, NEW e \in Ends
               PROVE  /\ Unconsumed(e) \in Bytes /\ wire[e] \in Bytes
                      /\ StillToSend(e) \in Bytes /\ Stream(e) \in Bytes
                      /\ Stream(e) = Unconsumed(e) \o (wire[e] \o StillToSend(e))
    BY DEF Parts
  <1>1. buf[e] \in Bytes /\ wire[e] \in Bytes
    BY DEF Basic, TypeOK
  <1>2. Unconsumed(e) \in Bytes
    <2>1. rpc[e] = "callback" => HasFrame(buf[e])
      BY DEF Basic, TypeOK
    <2> QED BY <1>1, <2>1, FrameType DEF Unconsumed
  <1>3. StillToSend(e) \in Bytes
    <2>1. CASE lock[Peer(e)] = Free
      BY <2>1, Regroup DEF StillToSend
    <2>2. CASE lock[Peer(e)] # Free
      <3> DEFINE t == lock[Peer(e)]
      <3>1. t \in Threads /\ todo[t] # <<>>
        BY <2>2, Holder, Twins
      <3> HIDE DEF t
      <3>2. out[t] \in Bytes /\ Current(t).value \in Bytes
        BY <3>1, CurrentType DEF Basic, TypeOK
      <3>3. out[t] \o Current(t).value \in Bytes /\ <<>> \in Bytes
        BY <3>2, Regroup
      <3> QED BY <3>2, <3>3 DEF StillToSend, t
    <2> QED BY <2>1, <2>2
  <1>4. Unconsumed(e) \o wire[e] \in Bytes
    BY <1>1, <1>2, Regroup
  <1>5. (Unconsumed(e) \o wire[e]) \o StillToSend(e) \in Bytes
    BY <1>3, <1>4, Regroup
  <1>6. (Unconsumed(e) \o wire[e]) \o StillToSend(e)
          = Unconsumed(e) \o (wire[e] \o StillToSend(e))
    <2> DEFINE a == Unconsumed(e)   b == wire[e]   c == StillToSend(e)
    <2>1. a \in Bytes /\ b \in Bytes /\ c \in Bytes
      BY <1>1, <1>2, <1>3
    <2> HIDE DEF a, b, c
    <2>2. (a \o b) \o c = a \o (b \o c)
      BY <2>1, Associate
    <2> QED BY <2>2 DEF a, b, c
  <1> QED BY <1>1, <1>2, <1>3, <1>5, <1>6 DEF Stream

\* What a thread of the other end has still to send.
LEMMA StillOf ==
  ASSUME Basic, NEW t \in Threads, InSend(t)
  PROVE  StillToSend(Peer(EndOf(t))) =
           IF ~Connected(EndOf(t)) THEN <<>>
           ELSE IF spc[t] = "header" THEN out[t] \o Current(t).value ELSE out[t]
  <1>1. EndOf(t) \in Ends /\ t # Free
    BY EndsType, ChannelAssumption
  <1>2. lock[EndOf(t)] = t
    BY DEF Basic, LockInv
  <1> QED BY <1>1, <1>2, Twins DEF StillToSend

\* Before it has sent a byte, that is the message's frame.
LEMMA StillUnsent ==
  ASSUME Basic, NEW t \in Threads, Unsent(t), Connected(EndOf(t))
  PROVE  StillToSend(Peer(EndOf(t))) = Frame(Current(t))
  BY StillOf DEF Basic, Senders, Unsent, InSend, Frame

\* A stream depends on no more than this.
LEMMA StreamKept ==
  ASSUME NEW e \in Ends, Unconsumed(e)' = Unconsumed(e), wire'[e] = wire[e],
         StillToSend(e)' = StillToSend(e)
  PROVE  Stream(e)' = Stream(e)
  BY DEF Stream

\* A step of a sender leaves the stream to its own end alone.
LEMMA SendAside ==
  ASSUME Basic, Basic', NEW t \in Threads, SendStep(t)
  PROVE  Same(EndOf(t)) /\ torn'[EndOf(t)] = torn[EndOf(t)]
  <1> DEFINE e == EndOf(t)
             d == Peer(e)
  <1>0. e \in Ends /\ d \in Ends /\ d # e /\ Peer(d) = e
    BY EndsType, Twins
  <1>1. UNCHANGED <<socket, buf, rpc>>
    BY DEF SendStep, SendMessage, SerializeFails, LockSocket, SendSome, HeaderSent,
           MessageSent, SendFails, Return, chan
  <1>2. /\ wire'[e] = wire[e] /\ lock'[d] = lock[d] /\ flight'[e] = flight[e]
        /\ torn'[e] = torn[e]
        /\ \A u \in Threads : u # t => spc'[u] = spc[u] /\ out'[u] = out[u] /\ todo'[u] = todo[u]
    <2> HIDE DEF e, d
    <2>1. EndOf(t) = e /\ Peer(EndOf(t)) = d
      BY DEF e, d
    <2>2. CASE LockSocket(t)
      BY <1>0, <2>1, <2>2 DEF LockSocket, Basic, TypeOK
    <2>3. CASE SendSome(t)
      BY <1>0, <2>1, <2>3 DEF SendSome, hist, Basic, TypeOK
    <2>4. CASE MessageSent(t)
      BY <1>0, <2>1, <2>4 DEF MessageSent, Return, Basic, TypeOK
    <2>5. CASE SendFails(t)
      BY <1>0, <2>1, <2>5 DEF SendFails, Return, Basic, TypeOK
    <2>6. CASE SendMessage(t) \/ SerializeFails(t) \/ HeaderSent(t)
      BY <1>0, <2>6 DEF SendMessage, SerializeFails, HeaderSent, chan, hist, Basic, TypeOK
    <2> QED BY <2>2, <2>3, <2>4, <2>5, <2>6 DEF SendStep
  <1> HIDE DEF d
  <1>3. lock[d] # Free => lock[d] \in Threads /\ lock[d] # t
    BY <1>0, Holder
  <1>4. StillToSend(e)' = StillToSend(e)
    <2>1. Peer(e) = d
      BY DEF d
    <2>2. Connected(e)' = Connected(e)
      BY <1>1 DEF Connected, IsOpen, PeerGone
    <2> HIDE DEF e
    <2>3. CASE lock[d] = Free
      BY <1>2, <2>1, <2>3 DEF StillToSend
    <2>4. CASE lock[d] # Free
      <3>1. PICK u \in Threads : u = lock[d] /\ u # t
        BY <1>3, <2>4
      <3>2. spc'[u] = spc[u] /\ out'[u] = out[u] /\ todo'[u] = todo[u] /\ lock'[d] = u
        BY <1>2, <3>1
      <3>3. Current(u)' = Current(u)
        BY <3>2 DEF Current
      <3>4. lock[Peer(e)] = u /\ lock'[Peer(e)] = u
        BY <2>1, <3>1, <3>2
      <3>5. StillToSend(e) = IF u = Free \/ ~Connected(e) THEN <<>>
                             ELSE IF spc[u] = "header" THEN out[u] \o Current(u).value
                             ELSE out[u]
        BY <3>4 DEF StillToSend
      <3>6. StillToSend(e)' = IF u = Free \/ ~Connected(e)' THEN <<>>
                              ELSE IF spc'[u] = "header" THEN out'[u] \o Current(u)'.value
                              ELSE out'[u]
        <4>1. StillToSend(e)' = LET v == lock'[Peer(e)] IN
                              IF v = Free \/ ~Connected(e)' THEN <<>>
                              ELSE IF spc'[v] = "header" THEN out'[v] \o Head(todo'[v]).value
                              ELSE out'[v]
          BY DEF StillToSend, Current
        <4>2. Current(u)' = Head(todo'[u])
          BY DEF Current
        <4> QED BY <3>4, <4>1, <4>2
      <3> QED BY <2>2, <3>2, <3>3, <3>5, <3>6
    <2> QED BY <2>3, <2>4
  <1>5. Unconsumed(e)' = Unconsumed(e)
    BY <1>1 DEF Unconsumed
  <1> QED BY <1>0, <1>2, <1>4, <1>5, StreamKept DEF Same

\* What it does to the stream to the other end.
LEMMA SendEffect ==
  ASSUME Basic, Basic', NEW t \in Threads, SendStep(t), NEW d, d = Peer(EndOf(t))
  PROVE  \/ Same(d) /\ torn'[d] = torn[d]
         \/ LockSocket(t) /\ Connected(EndOf(t)) /\ Grows(d, Current(t)) /\ torn'[d] = torn[d]
         \/ /\ SendFails(t) /\ Connected(EndOf(t)) /\ Unsent(t)
            /\ Shrinks(d, Current(t)) /\ torn'[d] = torn[d]
         \/ SendFails(t) /\ Breaks(d) /\ torn'[d]
  <1> DEFINE e == EndOf(t)
  <1>0. e \in Ends /\ d \in Ends /\ d # e /\ Peer(d) = e /\ Peer(e) = d
    BY EndsType, Twins
  <1>1. UNCHANGED <<socket, buf, rpc>>
    BY DEF SendStep, SendMessage, SerializeFails, LockSocket, SendSome, HeaderSent,
           MessageSent, SendFails, Return, chan
  <1>2. /\ Unconsumed(d)' = Unconsumed(d)
        /\ Connected(e)' = Connected(e) /\ Connected(d)' = Connected(d)
        /\ Connected(e) <=> Connected(d)
    <2>1. Unconsumed(d)' = Unconsumed(d) /\ Connected(e)' = Connected(e)
             /\ Connected(d)' = Connected(d)
      BY <1>1 DEF Unconsumed, Connected, IsOpen, PeerGone
    <2> QED BY <1>0, <2>1, Twins
  <1>3. /\ Unconsumed(d) \in Bytes /\ wire[d] \in Bytes /\ StillToSend(d) \in Bytes
        /\ Stream(d) = Unconsumed(d) \o (wire[d] \o StillToSend(d))
        /\ Stream(d)' = Unconsumed(d)' \o (wire'[d] \o StillToSend(d)')
        /\ wire'[d] \in Bytes /\ StillToSend(d)' \in Bytes
    <2>1. /\ Unconsumed(d) \in Bytes /\ wire[d] \in Bytes /\ StillToSend(d) \in Bytes
          /\ Stream(d) = Unconsumed(d) \o (wire[d] \o StillToSend(d))
      BY <1>0, StreamType DEF Parts
    <2>2. /\ Stream(d)' = Unconsumed(d)' \o (wire'[d] \o StillToSend(d)')
          /\ wire'[d] \in Bytes /\ StillToSend(d)' \in Bytes
      <3>1. Basic' => Parts'
        BY StreamType, PTL
      <3> QED BY <1>0, <3>1 DEF Parts
    <2> QED BY <2>1, <2>2
  <1> HIDE DEF e
  <1>4. ASSUME wire'[d] = wire[d], StillToSend(d)' = StillToSend(d),
               flight'[d] = flight[d]
        PROVE  Same(d)
    BY <1>2, <1>4, StreamKept, <1>0 DEF Same
  <1>5. t \in Threads /\ t # Free /\ EndOf(t) = e /\ Peer(EndOf(t)) = d
    BY ChannelAssumption DEF e
  <1>6. ~Connected(e) => StillToSend(d) = <<>> /\ StillToSend(d)' = <<>>
    BY <1>0, <1>2 DEF StillToSend
  <1>7. CASE SendMessage(t) \/ SerializeFails(t)
    <2>1. /\ ~InSend(t) /\ UNCHANGED <<lock, wire, flight, torn, out>>
          /\ \A u \in Threads : u # t => spc'[u] = spc[u] /\ todo'[u] = todo[u]
      BY <1>7 DEF SendMessage, SerializeFails, InSend, chan, hist, Basic, TypeOK
    <2>2. StillToSend(d)' = StillToSend(d)
      <3>1. CASE lock[e] = Free
        BY <1>0, <2>1, <3>1 DEF StillToSend
      <3>2. CASE lock[e] # Free
        <4>1. PICK u \in Threads : u = lock[e] /\ u # t
          BY <1>0, <2>1, <3>2, Holder
        <4>2. spc'[u] = spc[u] /\ todo'[u] = todo[u] /\ lock'[e] = u /\ out'[u] = out[u]
          BY <2>1, <4>1
        <4>3. Current(u)' = Current(u)
          BY <4>2 DEF Current
        <4>4. lock[Peer(d)] = u /\ lock'[Peer(d)] = u
          BY <1>0, <4>1, <4>2
        <4>5. StillToSend(d) = IF u = Free \/ ~Connected(d) THEN <<>>
                               ELSE IF spc[u] = "header" THEN out[u] \o Current(u).value
                               ELSE out[u]
          BY <4>4 DEF StillToSend
        <4>6. StillToSend(d)' = IF u = Free \/ ~Connected(d)' THEN <<>>
                                ELSE IF spc'[u] = "header" THEN out'[u] \o Current(u)'.value
                                ELSE out'[u]
          <5>1. StillToSend(d)' = LET v == lock'[Peer(d)] IN
                                IF v = Free \/ ~Connected(d)' THEN <<>>
                                ELSE IF spc'[v] = "header" THEN out'[v] \o Head(todo'[v]).value
                                ELSE out'[v]
            BY DEF StillToSend, Current
          <5>2. Current(u)' = Head(todo'[u])
            BY DEF Current
          <5> QED BY <4>4, <5>1, <5>2
        <4> QED BY <1>2, <4>2, <4>3, <4>5, <4>6
      <3> QED BY <3>1, <3>2
    <2>3. Same(d)
      BY <1>4, <2>1, <2>2
    <2> QED BY <2>1, <2>3
  <1>8. CASE LockSocket(t)
    <2>1. /\ lock[e] = Free /\ lock'[e] = t /\ spc'[t] = "header" /\ todo' = todo
          /\ out'[t] = PrintHeader(Current(t).tag, Len(Current(t).value))
          /\ UNCHANGED <<wire, torn>>
          /\ flight' = IF Connected(e) THEN [flight EXCEPT ![d] = Append(@, Current(t))]
                                       ELSE flight
          /\ spc[t] = "lock"
      BY <1>0, <1>5, <1>8 DEF LockSocket, LockIsFree, Basic, TypeOK
    <2>2. StillToSend(d) = <<>>
      BY <1>0, <2>1 DEF StillToSend
    <2>3. CASE ~Connected(e)
      <3>1. Same(d)
        BY <1>4, <1>6, <2>1, <2>3
      <3> QED BY <2>1, <3>1
    <2>4. CASE Connected(e)
      <3>1. Current(t)' = Current(t)
        BY <2>1 DEF Current
      <3>2. StillToSend(d)' = Frame(Current(t))
        <4>1. StillToSend(d)' = LET v == lock'[Peer(d)] IN
                              IF v = Free \/ ~Connected(d)' THEN <<>>
                              ELSE IF spc'[v] = "header" THEN out'[v] \o Head(todo'[v]).value
                              ELSE out'[v]
          BY DEF StillToSend, Current
        <4>2. Head(todo'[t]) = Current(t)
          BY <2>1 DEF Current
        <4>3. StillToSend(d)' = out'[t] \o Current(t).value
          BY <1>0, <1>2, <1>5, <2>1, <2>4, <4>1, <4>2
        <4> QED BY <2>1, <4>3 DEF Frame
      <3>3. Stream(d) = Unconsumed(d) \o wire[d]
        BY <1>3, <2>2, Regroup
      <3>4. Stream(d)' = (Unconsumed(d) \o wire[d]) \o Frame(Current(t))
        BY <1>2, <2>1, <3>2 DEF Stream
      <3>5. flight'[d] = Append(flight[d], Current(t))
        BY <1>0, <2>1, <2>4 DEF Basic, TypeOK
      <3> QED BY <1>5, <1>8, <2>1, <2>4, <3>3, <3>4, <3>5 DEF Grows
    <2> QED BY <2>3, <2>4
  <1>9. ASSUME InSend(t)
        PROVE  StillToSend(d) = IF ~Connected(e) THEN <<>>
                                ELSE IF spc[t] = "header" THEN out[t] \o Current(t).value
                                ELSE out[t]
    BY <1>5, <1>9, StillOf
  <1>10. ASSUME InSend(t), UNCHANGED lock
         PROVE  StillToSend(d)' = IF ~Connected(e) THEN <<>>
                                  ELSE IF spc'[t] = "header" THEN out'[t] \o Head(todo'[t]).value
                                  ELSE out'[t]
    <2>1. lock[e] = t /\ lock'[e] = t
      BY <1>5, <1>10 DEF Basic, LockInv
    <2>2. StillToSend(d)' = LET v == lock'[Peer(d)] IN
                          IF v = Free \/ ~Connected(d)' THEN <<>>
                          ELSE IF spc'[v] = "header" THEN out'[v] \o Head(todo'[v]).value
                          ELSE out'[v]
      BY DEF StillToSend, Current
    <2> QED BY <1>0, <1>2, <1>5, <2>1, <2>2
  <1>11. InSend(t) => /\ out[t] \in Bytes /\ Current(t).value \in Bytes /\ Current(t) \in TLV
                      /\ todo[t] # <<>>
    <2>1. InSend(t) => todo[t] # <<>>
      BY DEF InSend, Basic, TypeOK
    <2>2. InSend(t) => Current(t) \in Messages /\ Current(t).value \in Bytes
      BY <2>1, CurrentType DEF Basic
    <2> QED BY <2>1, <2>2, ChannelAssumption DEF Basic, TypeOK
  <1>12. CASE SendSome(t)
    <2>1. PICK n \in 1 .. Len(out[t]) :
            /\ out' = [out EXCEPT ![t] = SubSeq(@, n + 1, Len(@))]
            /\ \/ /\ ~PeerGone(e)
                  /\ wire' = [wire EXCEPT ![d] = @ \o SubSeq(out[t], 1, n)]
               \/ /\ PeerGone(e)
                  /\ UNCHANGED wire
      BY <1>5, <1>12 DEF SendSome
    <2>2. /\ InSend(t) /\ IsOpen(e) /\ UNCHANGED <<lock, spc, todo, flight, torn>>
      BY <1>5, <1>12 DEF SendSome, hist
    <2>3. CASE PeerGone(e)
      <3>1. ~Connected(e) /\ UNCHANGED wire
        BY <2>1, <2>3 DEF Connected
      <3>2. Same(d)
        BY <1>4, <1>6, <2>2, <3>1
      <3> QED BY <2>2, <3>2
    <2>4. CASE ~PeerGone(e)
      <3> DEFINE x == SubSeq(out[t], 1, n)
                 y == SubSeq(out[t], n + 1, Len(out[t]))
                 w == wire[d]
                 v == Current(t).value
      <3>1. out[t] \in Seq(Byte) /\ Len(out[t]) \in Nat
        BY <1>11, <2>2, LenProperties DEF Bytes
      <3>2. n \in 0 .. Len(out[t]) /\ n \in 1 - 1 .. Len(out[t]) /\ 1 \in 1 .. Len(out[t]) + 1
            /\ Len(out[t]) \in n .. Len(out[t])
        BY <3>1
      <3>3. x \in Bytes /\ y \in Bytes
        BY <3>1, <3>2, CutType DEF Bytes
      <3>4. x \o y = SubSeq(out[t], 1, Len(out[t])) /\ SubSeq(out[t], 1, Len(out[t])) = out[t]
        BY <3>1, <3>2, ConcatAdjacentSubSeq, SubSeqFull
      <3>5. out[t] = x \o y
        BY <3>4
      <3>6. wire'[d] = w \o x /\ out'[t] = y
        BY <1>0, <2>1, <2>4 DEF Basic, TypeOK
      <3>7. Connected(e)
        BY <2>2, <2>4 DEF Connected
      <3>8. w \in Bytes /\ v \in Bytes
        BY <1>3, <1>11, <2>2
      <3> HIDE DEF x, y, w, v
      <3>9. wire'[d] \o StillToSend(d)' = w \o StillToSend(d)
        <4>1. CASE spc[t] = "header"
          <5>1. StillToSend(d) = (x \o y) \o v /\ StillToSend(d)' = y \o v
            BY <1>9, <1>10, <2>2, <3>5, <3>6, <3>7, <4>1 DEF v, Current
          <5>2. (x \o y) \o v = x \o (y \o v) /\ y \o v \in Bytes
            BY <3>3, <3>8, Associate, Regroup
          <5>3. (w \o x) \o (y \o v) = w \o (x \o (y \o v))
            <6>1. PICK z \in Bytes : z = y \o v
              BY <5>2
            <6>2. x \in Bytes /\ w \in Bytes
              BY <3>3, <3>8
            <6>3. (w \o x) \o z = w \o (x \o z)
              BY <6>2, Associate
            <6> QED BY <6>1, <6>3
          <5> QED BY <3>6, <5>1, <5>2, <5>3
        <4>2. CASE spc[t] # "header"
          <5>1. StillToSend(d) = x \o y /\ StillToSend(d)' = y
            BY <1>9, <1>10, <2>2, <3>5, <3>6, <3>7, <4>2
          <5>2. (w \o x) \o y = w \o (x \o y)
            BY <3>3, <3>8, Associate
          <5> QED BY <3>6, <5>1, <5>2
        <4> QED BY <4>1, <4>2
      <3>10. Stream(d)' = Stream(d)
        BY <1>2, <1>3, <3>9 DEF w
      <3> QED BY <2>2, <3>10 DEF Same
    <2> QED BY <2>3, <2>4
  <1>13. CASE HeaderSent(t)
    <2>1. /\ InSend(t) /\ spc[t] = "header" /\ out[t] = <<>>
          /\ spc'[t] = "value" /\ out'[t] = Current(t).value
          /\ UNCHANGED <<lock, wire, flight, torn>>
      BY <1>13 DEF HeaderSent, InSend, chan, hist, Basic, TypeOK
    <2>2. <<>> \o Current(t).value = Current(t).value
      BY <1>11, <2>1, Regroup
    <2>3. StillToSend(d)' = StillToSend(d)
      BY <1>9, <1>10, <2>1, <2>2
    <2> QED BY <1>4, <2>1, <2>3
  <1>14. ASSUME Return(t)
         PROVE  StillToSend(d)' = <<>> /\ wire' = wire
    <2>1. lock'[e] = Free /\ wire' = wire
      BY <1>0, <1>5, <1>14 DEF Return, Basic, TypeOK
    <2>2. StillToSend(d)' = LET v == lock'[Peer(d)] IN
                          IF v = Free \/ ~Connected(d)' THEN <<>>
                          ELSE IF spc'[v] = "header" THEN out'[v] \o Head(todo'[v]).value
                          ELSE out'[v]
      BY DEF StillToSend, Current
    <2> QED BY <1>0, <2>1, <2>2
  <1>15. CASE MessageSent(t)
    <2>1. /\ InSend(t) /\ out[t] = <<>> /\ (spc[t] = "header" => Current(t).value = <<>>)
          /\ Return(t) /\ UNCHANGED <<flight, torn>>
      BY <1>15 DEF MessageSent
    <2>2. <<>> \o <<>> = <<>>
      BY Regroup
    <2>3. StillToSend(d) = <<>>
      BY <1>9, <2>1, <2>2
    <2> QED BY <1>4, <1>14, <2>1, <2>3
  <1>16. CASE SendFails(t)
    <2>1. InSend(t) /\ Return(t)
      BY <1>16 DEF SendFails
    <2>2. Stream(d)' = Unconsumed(d) \o wire[d]
      <3>1. wire[d] \o <<>> = wire[d]
        BY <1>3, Regroup
      <3> QED BY <1>2, <1>3, <1>14, <2>1, <3>1
    <2>3. Stream(d) = Stream(d)' \o StillToSend(d)
      BY <2>2 DEF Stream
    <2>4. CASE ~Connected(e)
      <3>1. UNCHANGED flight /\ torn'[d] = torn[d]
        <4>1. /\ UNCHANGED flight
              /\ torn' = [torn EXCEPT ![d] = @ \/ (Connected(e) /\ ~Unsent(t))]
          BY <1>5, <1>16, <2>4 DEF SendFails
        <4>2. torn[d] \in BOOLEAN /\ torn'[d] = (torn[d] \/ (Connected(e) /\ ~Unsent(t)))
          BY <1>0, <4>1 DEF Basic, TypeOK
        <4> QED BY <2>4, <4>1, <4>2
      <3>2. Same(d)
        BY <1>4, <1>6, <1>14, <2>1, <2>4, <3>1
      <3> QED BY <3>1, <3>2
    <2>5. CASE Connected(e) /\ Unsent(t)
      <3>1. /\ flight'[d] = SubSeq(flight[d], 1, Len(flight[d]) - 1)
            /\ torn'[d] = torn[d]
        <4>1. /\ flight' = [flight EXCEPT ![d] = SubSeq(@, 1, Len(@) - 1)]
              /\ torn' = [torn EXCEPT ![d] = @ \/ (Connected(e) /\ ~Unsent(t))]
          BY <1>5, <1>16, <2>5 DEF SendFails
        <4>2. torn[d] \in BOOLEAN /\ torn'[d] = (torn[d] \/ (Connected(e) /\ ~Unsent(t)))
          BY <1>0, <4>1 DEF Basic, TypeOK
        <4> QED BY <1>0, <2>5, <4>1, <4>2 DEF Basic, TypeOK
      <3>2. StillToSend(d) = Frame(Current(t))
        BY <1>5, <2>5, StillUnsent
      <3> QED BY <1>5, <1>16, <2>3, <2>5, <3>1, <3>2 DEF Shrinks
    <2>6. CASE Connected(e) /\ ~Unsent(t)
      <3>1. flight' = flight /\ torn'[d]
        <4>1. /\ UNCHANGED flight
              /\ torn' = [torn EXCEPT ![d] = @ \/ (Connected(e) /\ ~Unsent(t))]
          BY <1>5, <1>16, <2>6 DEF SendFails
        <4>2. torn'[d] = (torn[d] \/ (Connected(e) /\ ~Unsent(t)))
          BY <1>0, <4>1 DEF Basic, TypeOK
        <4> QED BY <2>6, <4>1, <4>2
      <3> QED BY <1>3, <1>16, <2>3, <3>1 DEF Breaks
    <2> QED BY <2>4, <2>5, <2>6
  <1> QED BY <1>7, <1>8, <1>12, <1>13, <1>15, <1>16 DEF SendStep

\* A step of a service thread leaves the stream to the other end alone.
LEMMA ServiceAside ==
  ASSUME Basic, NEW e \in Ends, ServiceStep(e)
  PROVE  Same(Peer(e))
  <1> DEFINE d == Peer(e)
  <1>0. d \in Ends /\ d # e /\ Peer(d) = e /\ Peer(e) = d
    BY Twins
  <1> HIDE DEF d
  <1>1. /\ UNCHANGED <<lock, send>>
        /\ buf'[d] = buf[d] /\ wire'[d] = wire[d] /\ rpc'[d] = rpc[d]
        /\ flight'[d] = flight[d]
        /\ (UNCHANGED socket) \/ lock[e] = Free
    <2>1. CASE Recv(e)
      BY <1>0, <2>1 DEF Recv, hist, Basic, TypeOK
    <2>2. CASE DropFrame(e)
      BY <1>0, <2>2 DEF DropFrame, Shift, Take, Basic, TypeOK
    <2>3. CASE Dispatch(e)
      BY <1>0, <2>3 DEF Dispatch, Take, Basic, TypeOK
    <2>4. CASE Close(e)
      BY <1>0, <2>4 DEF Close, LockIsFree, Basic, TypeOK
    <2>5. CASE RecvFails(e) \/ ParseEnds(e) \/ RejectFrame(e) \/ UnserializeFails(e)
               \/ CallbackReturns(e)
      BY <1>0, <2>5 DEF RecvFails, ParseEnds, RejectFrame, UnserializeFails,
                        CallbackReturns, Shift, hist, Basic, TypeOK
    <2> QED BY <2>1, <2>2, <2>3, <2>4, <2>5 DEF ServiceStep
  <1>2. Unconsumed(d)' = Unconsumed(d)
    BY <1>1 DEF Unconsumed
  <1>3. StillToSend(d)' = StillToSend(d)
    <2>1. CASE lock[e] = Free
      BY <1>0, <1>1, <2>1 DEF StillToSend
    <2>2. CASE UNCHANGED socket
      BY <1>1, <2>2 DEF StillToSend, Connected, IsOpen, PeerGone, Current, send
    <2> QED BY <1>1, <2>1, <2>2
  <1>4. Same(d)
    BY <1>0, <1>1, <1>2, <1>3, StreamKept DEF Same
  <1> QED BY <1>4 DEF d

\* What it does to the stream to its own.
LEMMA ServiceEffect ==
  ASSUME Basic, NEW e \in Ends, ServiceStep(e)
  PROVE  \/ Same(e) /\ rpc[e] # "close" /\ UNCHANGED executed
         \/ Forgets(e) /\ rpc'[e] = "close" /\ UNCHANGED executed
         \/ Takes(e) /\ rpc[e] # "close" /\ DropFrame(e)
         \/ Takes(e) /\ rpc[e] # "close" /\ Dispatch(e)
         \/ Gone(e) /\ Close(e)
  <1>0. /\ Unconsumed(e) \in Bytes /\ wire[e] \in Bytes /\ StillToSend(e) \in Bytes
        /\ Stream(e) = Unconsumed(e) \o (wire[e] \o StillToSend(e))
        /\ buf[e] \in Bytes
        /\ Peer(e) \in Ends /\ Peer(e) # e
    BY StreamType, Twins DEF Parts, Basic, TypeOK
  <1>1. ASSUME UNCHANGED <<lock, send, socket>> PROVE StillToSend(e)' = StillToSend(e)
    BY <1>1 DEF StillToSend, Connected, IsOpen, PeerGone, Current, send
  <1>2. CASE Recv(e)
    <2>1. PICK n \in 1 .. Len(wire[e]) :
            /\ buf'  = [buf EXCEPT ![e] = @ \o SubSeq(wire[e], 1, n)]
            /\ wire' = [wire EXCEPT ![e] = SubSeq(@, n + 1, Len(@))]
      BY <1>2 DEF Recv
    <2>2. /\ rpc[e] = "select" /\ rpc'[e] = "parse"
          /\ UNCHANGED <<socket, lock, send, flight, executed>>
      BY <1>2 DEF Recv, hist, Basic, TypeOK
    <2> DEFINE x == SubSeq(wire[e], 1, n)
               y == SubSeq(wire[e], n + 1, Len(wire[e]))
               b == buf[e]
               r == StillToSend(e)
    <2>3. wire[e] \in Seq(Byte) /\ Len(wire[e]) \in Nat
      BY <1>0, LenProperties DEF Bytes
    <2>4. n \in 0 .. Len(wire[e]) /\ n \in 1 - 1 .. Len(wire[e]) /\ 1 \in 1 .. Len(wire[e]) + 1
          /\ Len(wire[e]) \in n .. Len(wire[e])
      BY <2>3
    <2>5. x \in Bytes /\ y \in Bytes
      BY <2>3, <2>4, CutType DEF Bytes
    <2>6. x \o y = SubSeq(wire[e], 1, Len(wire[e])) /\ SubSeq(wire[e], 1, Len(wire[e])) = wire[e]
      BY <2>3, <2>4, ConcatAdjacentSubSeq, SubSeqFull
    <2>7. buf'[e] = b \o x /\ wire'[e] = y
      BY <2>1 DEF Basic, TypeOK
    <2>8. b \in Bytes /\ r \in Bytes
      BY <1>0
    <2> HIDE DEF x, y, b, r
    <2>9. Unconsumed(e) = b /\ Unconsumed(e)' = b \o x
      BY <2>2, <2>7 DEF Unconsumed, b
    <2>10. StillToSend(e) = r /\ StillToSend(e)' = r
      BY <1>1, <2>2 DEF r
    <2>11. Stream(e) = b \o ((x \o y) \o r) /\ Stream(e)' = ((b \o x) \o y) \o r
      BY <1>0, <2>6, <2>7, <2>9, <2>10 DEF Stream
    <2>12. ((b \o x) \o y) \o r = b \o ((x \o y) \o r)
      <3>1. (b \o x) \o y = b \o (x \o y)
        BY <2>5, <2>8, Associate
      <3>2. PICK z \in Bytes : z = x \o y
        BY <2>5, Regroup
      <3>3. (b \o z) \o r = b \o (z \o r)
        BY <2>8, Associate
      <3> QED BY <3>1, <3>2, <3>3
    <2> QED BY <2>2, <2>11, <2>12 DEF Same
  <1>3. CASE RecvFails(e)
    <2>1. /\ rpc[e] = "select" /\ rpc'[e] = "close"
          /\ UNCHANGED <<socket, lock, buf, wire, send, flight, executed>>
      BY <1>3 DEF RecvFails, hist, Basic, TypeOK
    <2>2. Unconsumed(e)' = Unconsumed(e)
      BY <2>1 DEF Unconsumed
    <2> QED BY <1>1, <2>1, <2>2, StreamKept DEF Same
  <1>4. CASE ParseEnds(e) \/ UnserializeFails(e)
    <2>1. /\ rpc[e] = "parse" /\ rpc'[e] \in {"select", "close"}
          /\ UNCHANGED <<socket, lock, buf, wire, send, flight, executed>>
      BY <1>4 DEF ParseEnds, UnserializeFails, hist, Basic, TypeOK
    <2>2. Unconsumed(e)' = Unconsumed(e)
      BY <2>1 DEF Unconsumed
    <2> QED BY <1>1, <2>1, <2>2, StreamKept DEF Same
  <1>5. CASE RejectFrame(e)
    <2>1. /\ rpc[e] = "parse" /\ rpc'[e] = "close" /\ buf'[e] = <<>>
          /\ UNCHANGED <<socket, lock, wire, send, flight, executed>>
      BY <1>5 DEF RejectFrame, hist, Basic, TypeOK
    <2>2. Unconsumed(e)' = <<>> /\ StillToSend(e)' = StillToSend(e)
      BY <1>1, <2>1 DEF Unconsumed
    <2>3. Stream(e)' = wire[e] \o StillToSend(e)
      <3>1. <<>> \o wire[e] = wire[e]
        BY <1>0, Regroup
      <3>2. Stream(e)' = (<<>> \o wire[e]) \o StillToSend(e)
        BY <2>1, <2>2 DEF Stream
      <3> QED BY <3>1, <3>2
    <2>4. Stream(e) = Unconsumed(e) \o Stream(e)'
      BY <1>0, <2>3
    <2> QED BY <1>0, <2>1, <2>4 DEF Forgets
  <1>6. ASSUME HasFrame(buf[e]), rpc[e] = "parse", UNCHANGED <<socket, lock, wire, send>>,
               Unconsumed(e)' = ShiftFrame(buf[e]), Take(e)
        PROVE  Takes(e)
    <2>1. Unconsumed(e) = buf[e] /\ flight'[e] = After(flight[e], Scan(buf[e]))
      BY <1>6 DEF Unconsumed, Take, Basic, TypeOK
    <2> DEFINE r == wire[e] \o StillToSend(e)
    <2>2. r \in Bytes
      BY <1>0, Regroup
    <2>3. Stream(e) = buf[e] \o r
      BY <1>0, <2>1
    <2>4. Stream(e)' = ShiftFrame(buf[e]) \o r
      <3>1. Stream(e)' = (ShiftFrame(buf[e]) \o wire[e]) \o StillToSend(e)
        BY <1>1, <1>6 DEF Stream
      <3>2. PICK z \in Bytes : z = ShiftFrame(buf[e])
        BY <1>0, <1>6, FrameType
      <3>3. PICK w \in Bytes : w = wire[e]
        BY <1>0
      <3>4. PICK k \in Bytes : k = StillToSend(e)
        BY <1>0
      <3>5. (z \o w) \o k = z \o (w \o k)
        BY Associate
      <3> QED BY <3>1, <3>2, <3>3, <3>4, <3>5
    <2> HIDE DEF r
    <2> QED BY <1>6, <2>1, <2>2, <2>3, <2>4 DEF Takes
  <1>7. CASE DropFrame(e)
    <2>1. /\ HasFrame(buf[e]) /\ rpc[e] = "parse" /\ rpc' = rpc
          /\ UNCHANGED <<socket, lock, wire, send>>
          /\ buf'[e] = ShiftFrame(buf[e]) /\ Take(e)
      BY <1>7 DEF DropFrame, Shift, Basic, TypeOK
    <2>2. Unconsumed(e)' = ShiftFrame(buf[e])
      BY <2>1 DEF Unconsumed
    <2> QED BY <1>6, <1>7, <2>1, <2>2
  <1>8. CASE Dispatch(e)
    <2>1. /\ HasFrame(buf[e]) /\ rpc[e] = "parse" /\ rpc'[e] = "callback"
          /\ UNCHANGED <<socket, lock, wire, send, buf>> /\ Take(e)
      BY <1>8 DEF Dispatch, Basic, TypeOK
    <2>2. Unconsumed(e)' = ShiftFrame(buf[e])
      BY <2>1 DEF Unconsumed
    <2> QED BY <1>6, <1>8, <2>1, <2>2
  <1>9. CASE CallbackReturns(e)
    <2>1. /\ rpc[e] = "callback" /\ rpc'[e] = "parse" /\ buf'[e] = ShiftFrame(buf[e])
          /\ UNCHANGED <<socket, lock, wire, send, flight, executed>>
      BY <1>9 DEF CallbackReturns, Shift, hist, Basic, TypeOK
    <2>2. Unconsumed(e)' = Unconsumed(e)
      BY <2>1 DEF Unconsumed
    <2> QED BY <1>1, <2>1, <2>2, StreamKept DEF Same
  <1>10. CASE Close(e)
    <2>1. /\ socket'[e] = NoSocket /\ buf'[e] = <<>> /\ wire'[e] = <<>> /\ rpc'[e] = "select"
          /\ flight'[e] = <<>>
      BY <1>10 DEF Close, Basic, TypeOK
    <2>2. StillToSend(e)' = <<>> /\ Unconsumed(e)' = <<>>
      BY <2>1 DEF StillToSend, Connected, IsOpen, Unconsumed
    <2>3. <<>> \o <<>> = <<>>
      BY Regroup
    <2>4. Stream(e)' = <<>>
      BY <2>1, <2>2, <2>3 DEF Stream
    <2> QED BY <1>10, <2>1, <2>4 DEF Gone
  <1> QED BY <1>2, <1>3, <1>4, <1>5, <1>7, <1>8, <1>9, <1>10 DEF ServiceStep

\* Opening, stopping and doing nothing leave all streams alone.
LEMMA ControlAside ==
  ASSUME Basic, Open \/ (\E e \in Ends : Stop(e)) \/ Idle \/ UNCHANGED vars
  PROVE  \A e \in Ends : Same(e)
  <1> SUFFICES ASSUME NEW e \in Ends PROVE Same(e)
    OBVIOUS
  <1>0. Peer(e) \in Ends
    BY Twins
  <1>1. CASE Open
    <2>1. lock[Peer(e)] = Free /\ UNCHANGED <<lock, buf, wire, rpc, flight>>
      BY <1>0, <1>1 DEF Open, LockIsFree
    <2>2. StillToSend(e)' = StillToSend(e) /\ Unconsumed(e)' = Unconsumed(e)
      BY <2>1 DEF StillToSend, Unconsumed
    <2> QED BY <2>1, <2>2, StreamKept DEF Same
  <1>2. ASSUME UNCHANGED <<socket, lock, buf, wire, send, flight>>,
               Unconsumed(e)' = Unconsumed(e)
        PROVE  Same(e)
    <2>1. StillToSend(e)' = StillToSend(e)
      BY <1>2 DEF StillToSend, Connected, IsOpen, PeerGone, Current, send
    <2> QED BY <1>2, <2>1, StreamKept DEF Same
  <1>3. ASSUME NEW x \in Ends, Stop(x) PROVE Same(e)
    <2>1. /\ UNCHANGED <<socket, lock, buf, wire, send, flight>>
          /\ rpc' = [rpc EXCEPT ![x] = "close"] /\ rpc[x] = "select"
      BY <1>3 DEF Stop, hist
    <2>2. Unconsumed(e)' = Unconsumed(e)
      BY <2>1 DEF Unconsumed, Basic, TypeOK
    <2> QED BY <1>2, <2>1, <2>2
  <1>4. CASE Idle \/ UNCHANGED vars
    <2>1. UNCHANGED <<socket, lock, buf, wire, rpc, send, flight>>
      BY <1>4 DEF Idle, vars, chan, send, hist
    <2>2. Unconsumed(e)' = Unconsumed(e)
      BY <2>1 DEF Unconsumed
    <2> QED BY <1>2, <2>1, <2>2
  <1> QED BY <1>1, <1>3, <1>4

-----------------------------------------------------------------------------
(* The receivers are in step with the senders.                              *)

\* An open connection on which nothing has gone wrong for e.
Intact(e) == IsOpen(e) /\ ~torn[e] /\ rpc[e] # "close"

\* What is on its way to e is, byte for byte, the messages under way.
InSync(e) == Intact(e) => Stream(e) = Frames(flight[e])

\* The message a thread has yet to start is the last of those under way.
LastSent(t) ==
  LET d == Peer(EndOf(t)) IN
  Unsent(t) /\ Connected(EndOf(t)) /\ Intact(d) =>
    flight[d] # <<>> /\ flight[d][Len(flight[d])] = Current(t)

SyncInv == (\A e \in Ends : InSync(e)) /\ (\A t \in Threads : LastSent(t))

\* Nothing is on its way to a closed end.
LEMMA ClosedIsEmpty ==
  ASSUME Basic, NEW e \in Ends, ~IsOpen(e)
  PROVE  Stream(e) = <<>> /\ flight[e] = <<>>
  <1>1. buf[e] = <<>> /\ wire[e] = <<>> /\ flight[e] = <<>> /\ rpc[e] = "select"
    BY DEF Basic, Sockets
  <1>2. Unconsumed(e) = <<>> /\ StillToSend(e) = <<>>
    BY <1>1 DEF Unconsumed, StillToSend, Connected
  <1>3. <<>> \o <<>> = <<>>
    BY Regroup
  <1> QED BY <1>1, <1>2, <1>3 DEF Stream

\* What a step may do to the stream to an end.
LEMMA Effects ==
  ASSUME Basic, Basic', [Next]_vars, NEW d \in Ends
  PROVE  \/ Same(d) /\ (Intact(d)' => Intact(d) \/ ~IsOpen(d))
         \/ \E t \in Threads : /\ d = Peer(EndOf(t)) /\ LockSocket(t) /\ Connected(EndOf(t))
                               /\ Grows(d, Current(t)) /\ (Intact(d)' => Intact(d))
         \/ \E t \in Threads : /\ d = Peer(EndOf(t)) /\ SendFails(t) /\ Connected(EndOf(t))
                               /\ Unsent(t) /\ Shrinks(d, Current(t))
                               /\ (Intact(d)' => Intact(d))
         \/ (Breaks(d) \/ Forgets(d) \/ Gone(d)) /\ ~Intact(d)'
         \/ Takes(d) /\ (DropFrame(d) \/ Dispatch(d)) /\ (Intact(d)' => Intact(d))
  <1>1. ASSUME NEW t \in Threads, SendStep(t)
        PROVE  \/ Same(d) /\ (Intact(d)' => Intact(d))
               \/ /\ d = Peer(EndOf(t)) /\ LockSocket(t) /\ Connected(EndOf(t))
                  /\ Grows(d, Current(t)) /\ (Intact(d)' => Intact(d))
               \/ /\ d = Peer(EndOf(t)) /\ SendFails(t) /\ Connected(EndOf(t))
                  /\ Unsent(t) /\ Shrinks(d, Current(t)) /\ (Intact(d)' => Intact(d))
               \/ Breaks(d) /\ ~Intact(d)'
    <2>1. UNCHANGED <<socket, rpc>>
      BY <1>1 DEF SendStep, SendMessage, SerializeFails, LockSocket, SendSome, HeaderSent,
                  MessageSent, SendFails, Return, chan
    <2>2. torn'[d] = torn[d] => (Intact(d)' => Intact(d))
      BY <2>1 DEF Intact, IsOpen
    <2>3. torn'[d] => ~Intact(d)'
      BY DEF Intact
    <2>4. EndOf(t) \in Ends /\ (d = EndOf(t) \/ d = Peer(EndOf(t)))
      BY EndsType, Twins
    <2>5. CASE d = EndOf(t)
      BY <1>1, <2>2, <2>5, SendAside
    <2>6. CASE d = Peer(EndOf(t))
      BY <1>1, <2>2, <2>3, <2>6, SendEffect
    <2> QED BY <2>4, <2>5, <2>6
  <1>2. ASSUME NEW e \in Ends, ServiceStep(e)
        PROVE  \/ Same(d) /\ (Intact(d)' => Intact(d))
               \/ (Forgets(d) \/ Gone(d)) /\ ~Intact(d)'
               \/ Takes(d) /\ (DropFrame(d) \/ Dispatch(d)) /\ (Intact(d)' => Intact(d))
    <2>1. /\ UNCHANGED torn
          /\ UNCHANGED socket \/ Close(e)
          /\ d # e => rpc'[d] = rpc[d] /\ socket'[d] = socket[d]
      <3>1. CASE Close(e)
        BY <3>1 DEF Close, Basic, TypeOK
      <3>2. CASE ~Close(e)
        BY <1>2, <3>2
           DEF ServiceStep, Recv, RecvFails, ParseEnds, RejectFrame, DropFrame,
               UnserializeFails, Dispatch, CallbackReturns, hist, Basic, TypeOK
      <3> QED BY <3>1, <3>2
    <2>2. CASE d # e
      <3>1. Intact(d)' => Intact(d)
        BY <2>1, <2>2 DEF Intact, IsOpen
      <3> QED BY <1>2, <2>2, <3>1, ServiceAside, Twins
    <2>3. CASE d = e
      <3>1. Close(e) => rpc[e] = "close" /\ ~Intact(e)'
        BY DEF Close, Intact, IsOpen, Basic, TypeOK
      <3>2. rpc[e] # "close" => (Intact(e)' => Intact(e))
        BY <2>1, <3>1 DEF Intact, IsOpen
      <3>3. rpc'[e] = "close" => ~Intact(e)'
        BY DEF Intact
      <3> QED BY <1>2, <2>3, <3>1, <3>2, <3>3, ServiceEffect
    <2> QED BY <2>2, <2>3
  <1>3. CASE Open \/ (\E e \in Ends : Stop(e)) \/ Idle \/ UNCHANGED vars
    <2>1. Same(d)
      BY <1>3, ControlAside
    <2>2. Intact(d)' => Intact(d) \/ ~IsOpen(d)
      <3>1. CASE Open
        BY <3>1 DEF Open
      <3>2. CASE \E e \in Ends : Stop(e)
        BY <3>2 DEF Stop, hist, Intact, IsOpen, Basic, TypeOK
      <3>3. CASE Idle \/ UNCHANGED vars
        BY <3>3 DEF Idle, vars, chan, hist, Intact, IsOpen
      <3> QED BY <1>3, <3>1, <3>2, <3>3
    <2> QED BY <2>1, <2>2
  <1> QED BY <1>1, <1>2, <1>3 DEF Next

\* The last message of a queue.
LEMMA LastOfQueue ==
  ASSUME NEW q \in Seq(Messages), q # <<>>
  PROVE  LET f == SubSeq(q, 1, Len(q) - 1) IN
         /\ f \in Seq(Messages) /\ q[Len(q)] \in Messages
         /\ q = Append(f, q[Len(q)])
  <1> DEFINE f == SubSeq(q, 1, Len(q) - 1)
             k == Len(q) - 1
  <1>1. Len(q) \in Nat \ {0} /\ Len(q) \in 1 .. Len(q)
    BY EmptySeq, LenProperties
  <1>2. q[Len(q)] \in Messages /\ \A i \in 1 .. Len(q) : q[i] \in Messages
    BY <1>1, ElementOfSeq
  <1>3. k \in 0 .. Len(q) /\ Len(q) = k + 1 /\ k \in Nat
    BY <1>1
  <1>4. f \in Seq(Messages) /\ Len(f) = k /\ \A i \in 1 .. k : f[i] = q[i]
    <2> HIDE DEF k
    <2>1. /\ SubSeq(q, 1, k) \in Seq(Messages) /\ Len(SubSeq(q, 1, k)) = k
          /\ \A i \in 1 .. k : SubSeq(q, 1, k)[i] = q[i]
      BY <1>3, FrontType
    <2> QED BY <2>1 DEF k
  <1> HIDE DEF f, k
  <1>5. /\ Append(f, q[Len(q)]) \in Seq(Messages)
        /\ Len(Append(f, q[Len(q)])) = k + 1
        /\ \A i \in 1 .. k : Append(f, q[Len(q)])[i] = f[i]
        /\ Append(f, q[Len(q)])[k + 1] = q[Len(q)]
    BY <1>2, <1>4, AppendProperties
  <1>6. \A i \in 1 .. Len(q) : Append(f, q[Len(q)])[i] = q[i]
    <2> TAKE i \in 1 .. Len(q)
    <2>1. i \in 1 .. k \/ i = k + 1
      BY <1>3
    <2> QED BY <1>3, <1>4, <1>5, <2>1
  <1>7. q = Append(f, q[Len(q)])
    BY <1>3, <1>5, <1>6, SeqEqual
  <1> QED BY <1>2, <1>4, <1>7 DEF f

\* A step keeps a receiver in step.
LEMMA InSyncStep ==
  ASSUME Basic, Basic', SyncInv, [Next]_vars, NEW d \in Ends
  PROVE  InSync(d)'
  <1> SUFFICES ASSUME Intact(d)' PROVE Stream(d)' = Frames(flight'[d])
    BY DEF InSync, Frames
  <1>1. flight[d] \in Seq(Messages) /\ flight'[d] \in Seq(Messages)
    BY DEF Basic, TypeOK
  <1>2. /\ Stream(d) \in Bytes
        /\ Stream(d)' \in Bytes
    <2>1. Basic' => Parts'
      BY StreamType, PTL
    <2> QED BY <2>1, StreamType DEF Parts
  <1>3. Intact(d) => Stream(d) = Frames(flight[d])
    BY DEF SyncInv, InSync
  <1>4. CASE Same(d) /\ (Intact(d) \/ ~IsOpen(d))
    <2>1. Stream(d) = Frames(flight[d])
      BY <1>1, <1>3, <1>4, ClosedIsEmpty, FramesShape
    <2> QED BY <1>4, <2>1 DEF Same
  <1>5. ASSUME NEW t \in Threads, LockSocket(t), Grows(d, Current(t)), Intact(d)
        PROVE  Stream(d)' = Frames(flight'[d])
    <2>1. Current(t) \in Messages
      BY <1>5, CurrentType DEF LockSocket, Basic, TypeOK
    <2> QED BY <1>1, <1>3, <1>5, <2>1, FramesShape DEF Grows
  <1>6. ASSUME NEW t \in Threads, d = Peer(EndOf(t)), Connected(EndOf(t)), Unsent(t),
               SendFails(t), Shrinks(d, Current(t)), Intact(d)
        PROVE  Stream(d)' = Frames(flight'[d])
    <2>1. flight[d] # <<>> /\ flight[d][Len(flight[d])] = Current(t)
      BY <1>6 DEF SyncInv, LastSent
    <2>2. flight'[d] \in Seq(Messages) /\ Current(t) \in Messages
          /\ flight[d] = Append(flight'[d], Current(t))
      BY <1>1, <1>6, <2>1, LastOfQueue DEF Shrinks
    <2>3. Frames(flight[d]) = Frames(flight'[d]) \o Frame(Current(t))
      BY <2>2, FramesShape
    <2>4. Stream(d)' \o Frame(Current(t)) = Frames(flight'[d]) \o Frame(Current(t))
      BY <1>3, <1>6, <2>3 DEF Shrinks
    <2>5. Frames(flight'[d]) \in Bytes /\ Frame(Current(t)) \in Bytes
      BY <2>2, FramesShape, FrameShape, ChannelAssumption
    <2> QED BY <1>2, <2>4, <2>5, Cancel
  <1>7. CASE Takes(d) /\ Intact(d)
    <2>1. PICK r \in Bytes : /\ Stream(d) = buf[d] \o r
                             /\ Stream(d)' = ShiftFrame(buf[d]) \o r
      BY <1>7 DEF Takes
    <2>2. HasFrame(buf[d]) /\ flight'[d] = After(flight[d], Scan(buf[d])) /\ buf[d] \in Bytes
      BY <1>7 DEF Takes, Basic, TypeOK
    <2>3. /\ flight[d] # <<>> /\ Scan(buf[d]) = flight[d][1]
          /\ ShiftFrame(buf[d]) \o r = Frames(Tail(flight[d]))
      BY <1>1, <1>3, <1>7, <2>1, <2>2, ParseFirst
    <2>4. flight'[d] = Tail(flight[d])
      BY <1>1, <2>2, <2>3, AfterFirst
    <2> QED BY <2>1, <2>3, <2>4
  <1> QED BY <1>4, <1>5, <1>6, <1>7, Effects

\* A step keeps unsent messages last.
LEMMA LastSentStep ==
  ASSUME Basic, Basic', SyncInv, [Next]_vars, NEW t \in Threads
  PROVE  LastSent(t)'
  <1> DEFINE e == EndOf(t)
             d == Peer(e)
  <1>0. e \in Ends /\ d \in Ends /\ d # e /\ Peer(d) = e /\ EndOf(t) = e /\ Peer(e) = d
    BY EndsType, Twins
  <1> SUFFICES ASSUME Unsent(t)', Connected(e)', Intact(d)'
               PROVE  /\ flight'[d] # <<>>
                      /\ flight'[d][Len(flight'[d])] = Head(todo'[t])
    BY DEF LastSent, Current
  <1> HIDE DEF e, d
  <1>1. flight[d] \in Seq(Messages)
    BY <1>0 DEF Basic, TypeOK
  <1>2. ASSUME Unsent(t), Connected(e), Intact(d), flight'[d] = flight[d], todo'[t] = todo[t]
        PROVE  /\ flight'[d] # <<>>
               /\ flight'[d][Len(flight'[d])] = Head(todo'[t])
    BY <1>0, <1>2 DEF SyncInv, LastSent, Current
  <1>3. ASSUME spc'[t] = spc[t], out'[t] = out[t] PROVE Unsent(t)
    BY <1>3 DEF Unsent
  <1>4. ASSUME NEW u \in Threads, SendStep(u)
        PROVE  /\ flight'[d] # <<>>
               /\ flight'[d][Len(flight'[d])] = Head(todo'[t])
    <2>1. UNCHANGED <<socket, rpc>>
      BY <1>4 DEF SendStep, SendMessage, SerializeFails, LockSocket, SendSome, HeaderSent,
                  MessageSent, SendFails, Return, chan
    <2>2. Connected(e) /\ (torn'[d] = torn[d] => Intact(d))
      BY <2>1 DEF Connected, Intact, IsOpen, PeerGone
    <2>3. CASE u = t
      <3>1. LockSocket(t)
        <4>1. CASE SendMessage(t) \/ SerializeFails(t) \/ HeaderSent(t)
          BY <4>1 DEF SendMessage, SerializeFails, HeaderSent, Unsent, Basic, TypeOK
        <4>2. CASE MessageSent(t) \/ SendFails(t)
          BY <4>2 DEF MessageSent, SendFails, Return, Unsent, Basic, TypeOK
        <4>3. CASE SendSome(t)
          <5>1. PICK n \in 1 .. Len(out[t]) : out' = [out EXCEPT ![t] = SubSeq(@, n + 1, Len(@))]
            BY <4>3 DEF SendSome
          <5>2. out[t] \in Seq(Byte) /\ Len(out[t]) \in Nat
            BY LenProperties DEF Basic, TypeOK, Bytes
          <5>3. n \in 0 .. Len(out[t])
            BY <5>2
          <5>4. Len(SubSeq(out[t], n + 1, Len(out[t]))) = Len(out[t]) - n
            BY <5>2, <5>3, CutType
          <5>5. out'[t] = SubSeq(out[t], n + 1, Len(out[t])) /\ spc' = spc
            BY <4>3, <5>1 DEF SendSome, Basic, TypeOK
          <5>6. spc[t] = "header" => Len(out[t]) <= 12
            BY DEF Basic, Senders, HdrLen
          <5>7. spc[t] = "header" /\ Len(out'[t]) = 12
            BY <5>5 DEF Unsent, HdrLen
          <5> QED BY <5>2, <5>4, <5>5, <5>6, <5>7
        <4> QED BY <1>4, <2>3, <4>1, <4>2, <4>3 DEF SendStep
      <3>2. flight'[d] = Append(flight[d], Current(t)) /\ todo' = todo
        BY <1>0, <2>2, <3>1 DEF LockSocket, Basic, TypeOK
      <3>3. Current(t) \in Messages
        BY <3>1, CurrentType DEF LockSocket, Basic, TypeOK
      <3>4. /\ Len(Append(flight[d], Current(t))) = Len(flight[d]) + 1
            /\ Append(flight[d], Current(t))[Len(flight[d]) + 1] = Current(t)
            /\ Append(flight[d], Current(t)) # <<>>
        BY <1>1, <3>3, AppendProperties
      <3> QED BY <3>2, <3>4 DEF Current
    <2>4. CASE u # t
      <3>1. spc'[t] = spc[t] /\ out'[t] = out[t] /\ todo'[t] = todo[t]
        BY <1>4, <2>4 DEF SendStep, SendMessage, SerializeFails, LockSocket, SendSome,
                          HeaderSent, MessageSent, SendFails, Return, Basic, TypeOK
      <3>2. Unsent(t)
        BY <1>3, <3>1
      <3>3. flight'[d] = flight[d] /\ torn'[d] = torn[d]
        <4>1. EndOf(u) \in Ends /\ (EndOf(u) = e \/ EndOf(u) = d)
          BY <1>0, EndsType, Twins
        <4>2. CASE EndOf(u) = d
          BY <1>4, <4>2, SendAside DEF Same
        <4>3. CASE EndOf(u) = e
          <5>1. lock[e] = t /\ t # Free
            BY <1>0, <3>2, ChannelAssumption DEF Basic, LockInv, InSend, Unsent
          <5>2. ~InSend(u) /\ ~LockSocket(u)
            BY <2>4, <4>3, <5>1 DEF Basic, LockInv, LockSocket, LockIsFree
          <5>3. SendMessage(u) \/ SerializeFails(u)
            BY <1>4, <5>2 DEF SendStep, SendSome, HeaderSent, MessageSent, SendFails, InSend
          <5> QED BY <5>3 DEF SendMessage, SerializeFails, hist
        <4> QED BY <4>1, <4>2, <4>3
      <3> QED BY <1>2, <2>2, <3>1, <3>2, <3>3
    <2> QED BY <2>3, <2>4
  <1>5. ASSUME NEW x \in Ends, ServiceStep(x)
        PROVE  /\ flight'[d] # <<>>
               /\ flight'[d][Len(flight'[d])] = Head(todo'[t])
    <2>1. ~Close(x)
      <3>1. ASSUME Close(x) PROVE FALSE
        <4>1. socket'[x] = NoSocket
          BY <3>1 DEF Close, Basic, TypeOK
        <4>2. x = e \/ x = d
          BY <1>0, Twins
        <4> QED BY <1>0, <4>1, <4>2 DEF Connected, IsOpen, Intact
      <3> QED BY <3>1
    <2>2. /\ UNCHANGED <<socket, torn, send>>
          /\ x # d => rpc'[d] = rpc[d]
      BY <1>0, <1>5, <2>1
         DEF ServiceStep, Recv, RecvFails, ParseEnds, RejectFrame, DropFrame,
             UnserializeFails, Dispatch, CallbackReturns, hist, Basic, TypeOK
    <2>3. Connected(e) /\ Unsent(t) /\ todo' = todo
      BY <2>2 DEF Connected, IsOpen, PeerGone, Unsent, send
    <2>4. rpc[d] # "close" => Intact(d)
      BY <2>2 DEF Intact, IsOpen
    <2>5. CASE x # d
      <3>1. x = e /\ Same(d)
        BY <1>0, <1>5, <2>5, Twins, ServiceAside
      <3>2. Intact(d)
        BY <2>2, <2>4, <2>5 DEF Intact
      <3> QED BY <1>2, <2>3, <3>1, <3>2 DEF Same
    <2>6. CASE x = d
      <3>1. ~Forgets(d) \/ rpc'[d] # "close"
        BY DEF Intact
      <3>2. rpc'[d] # "close"
        BY DEF Intact
      <3>3. \/ Same(d) /\ rpc[d] # "close"
            \/ Takes(d) /\ rpc[d] # "close" /\ (DropFrame(d) \/ Dispatch(d))
        BY <1>5, <2>1, <2>6, <3>2, ServiceEffect
      <3>4. Intact(d)
        BY <2>4, <3>3
      <3>5. CASE Same(d)
        BY <1>2, <2>3, <3>4, <3>5 DEF Same
      <3>6. CASE Takes(d) /\ (DropFrame(d) \/ Dispatch(d))
        <4>1. PICK r \in Bytes : Stream(d) = buf[d] \o r
          BY <3>6 DEF Takes
        <4>2. /\ HasFrame(buf[d]) /\ flight'[d] = After(flight[d], Scan(buf[d]))
              /\ buf[d] \in Bytes /\ Unconsumed(d) = buf[d]
          BY <1>0, <3>6 DEF Takes, Basic, TypeOK, DropFrame, Dispatch, Unconsumed
        <4>3. Stream(d) = Frames(flight[d])
          BY <1>0, <3>4 DEF SyncInv, InSync
        <4>4. /\ flight[d] # <<>> /\ Scan(buf[d]) = flight[d][1]
          BY <1>1, <4>1, <4>2, <4>3, ParseFirst
        <4>5. flight'[d] = Tail(flight[d])
          BY <1>1, <4>2, <4>4, AfterFirst
        <4>6. flight[d][Len(flight[d])] = Current(t)
          BY <1>0, <2>3, <3>4 DEF SyncInv, LastSent
        <4>7. Len(flight[d]) \in Nat \ {0}
          BY <1>1, <4>4, EmptySeq, LenProperties
        <4>8. Len(flight[d]) # 1
          <5> SUFFICES ASSUME Len(flight[d]) = 1 PROVE FALSE
            OBVIOUS
          <5> DEFINE m == Current(t)
          <5>1. /\ Frames(flight[d]) = Frame(m) \o Frames(Tail(flight[d]))
                /\ flight[d][1] = m
            BY <1>1, <4>4, <4>6, FramesShape
          <5>2. Tail(flight[d]) \in Seq(Messages) /\ Len(Tail(flight[d])) = 0
            BY <1>1, <4>4, HeadTailProperties
          <5>3. Tail(flight[d]) = <<>>
            BY <5>2, EmptySeq
          <5>4. m \in TLV
            <6>1. 1 \in 1 .. Len(flight[d])
              BY <4>7
            <6> QED BY <1>1, <5>1, <6>1, ElementOfSeq, ChannelAssumption
          <5> HIDE DEF m
          <5>5. Frames(flight[d]) = Frame(m) /\ Frame(m) \in Bytes
            BY <5>1, <5>2, <5>3, <5>4, FramesShape, FrameShape, Regroup
          <5>6. StillToSend(d) = Frame(m)
            BY <1>0, <2>3, StillUnsent DEF m
          <5>7. wire[d] \in Bytes /\ Stream(d) = buf[d] \o (wire[d] \o Frame(m))
            BY <1>0, <4>2, <5>6, StreamType DEF Parts
          <5>8. /\ Len(wire[d] \o Frame(m)) = Len(wire[d]) + Len(Frame(m))
                /\ wire[d] \o Frame(m) \in Bytes
            BY <5>5, <5>7, TwoParts, Regroup
          <5>9. Len(buf[d] \o (wire[d] \o Frame(m))) = Len(buf[d]) + (Len(wire[d]) + Len(Frame(m)))
            BY <4>2, <5>8, TwoParts
          <5>10. Len(Frame(m)) = Len(buf[d]) + (Len(wire[d]) + Len(Frame(m)))
            BY <4>3, <5>5, <5>7, <5>9
          <5>11. /\ Len(buf[d]) \in Nat /\ Len(wire[d]) \in Nat /\ Len(Frame(m)) \in Nat
                 /\ Len(buf[d]) >= 12
            BY <4>2, <5>5, <5>7, LenProperties DEF Bytes, HasFrame, GoodHeader, HasHeader, HdrLen
          <5>12. PICK i, j, k \in Nat : i = Len(buf[d]) /\ j = Len(wire[d]) /\ k = Len(Frame(m))
            BY <5>11
          <5>13. k = i + (j + k) /\ i >= 12
            BY <5>10, <5>11, <5>12
          <5> QED BY <5>13
        <4>9. /\ Tail(flight[d]) \in Seq(Messages) /\ Len(Tail(flight[d])) = Len(flight[d]) - 1
              /\ \A i \in 1 .. Len(Tail(flight[d])) : Tail(flight[d])[i] = flight[d][i + 1]
          BY <1>1, <4>4, HeadTailProperties
        <4>10. PICK n \in Nat : n + 1 = Len(flight[d]) /\ n >= 1
          <5>1. \A l \in Nat \ {0} : l # 1 => l - 1 \in Nat /\ (l - 1) + 1 = l /\ l - 1 >= 1
            OBVIOUS
          <5> QED BY <4>7, <4>8, <5>1
        <4>11. Len(Tail(flight[d])) = n /\ n \in 1 .. n
          BY <4>9, <4>10
        <4>12. Tail(flight[d])[n] = flight[d][n + 1]
          BY <4>9, <4>11
        <4>13. Tail(flight[d]) # <<>>
          <5>1. PICK q \in Seq(Messages) : q = Tail(flight[d])
            BY <4>9
          <5>2. Len(q) = n
            BY <4>11, <5>1
          <5>3. q # <<>>
            BY <4>10, <5>2, EmptySeq
          <5> QED BY <5>1, <5>3
        <4> QED BY <2>3, <4>5, <4>6, <4>10, <4>11, <4>12, <4>13 DEF Current
      <3> QED BY <3>3, <3>5, <3>6
    <2> QED BY <2>5, <2>6
  <1>6. ASSUME NEW x \in Ends, Stop(x)
        PROVE  /\ flight'[d] # <<>>
               /\ flight'[d][Len(flight'[d])] = Head(todo'[t])
    <2>1. /\ UNCHANGED <<socket, torn, flight, send>> /\ rpc[d] # "close"
      BY <1>0, <1>6 DEF Stop, hist, Intact, Basic, TypeOK
    <2>2. Connected(e) /\ Unsent(t) /\ todo' = todo /\ Intact(d)
      BY <2>1 DEF Connected, IsOpen, PeerGone, Unsent, send, Intact
    <2> QED BY <1>2, <2>1, <2>2
  <1>7. CASE Open
    <2>1. UNCHANGED send /\ lock[e] = Free
      BY <1>0, <1>7 DEF Open, LockIsFree
    <2>2. InSend(t)
      BY <2>1 DEF Unsent, InSend, send
    <2> QED BY <1>0, <2>1, <2>2, ChannelAssumption DEF Basic, LockInv
  <1>8. CASE Idle \/ UNCHANGED vars
    <2>1. UNCHANGED <<socket, torn, flight, send, rpc>>
      BY <1>8 DEF Idle, vars, chan, send, hist
    <2>2. Connected(e) /\ Unsent(t) /\ todo' = todo /\ Intact(d)
      BY <2>1 DEF Connected, IsOpen, PeerGone, Unsent, send, Intact
    <2> QED BY <1>2, <2>1, <2>2
  <1> QED BY <1>4, <1>5, <1>6, <1>7, <1>8 DEF Next

\* Receivers are always in step.
LEMMA SyncCorrect == Spec => []SyncInv
  <1>1. Basic /\ Init => SyncInv
    <2> SUFFICES ASSUME Init PROVE SyncInv
      OBVIOUS
    <2> QED BY EndsType, Twins DEF Init, SyncInv, InSync, LastSent, Intact, IsOpen, Unsent
  <1>2. Basic /\ Basic' /\ SyncInv /\ [Next]_vars => SyncInv'
    <2> SUFFICES ASSUME Basic, Basic', SyncInv, [Next]_vars PROVE SyncInv'
      OBVIOUS
    <2>1. \A e \in Ends : InSync(e)'
      BY InSyncStep
    <2>2. \A t \in Threads : LastSent(t)'
      BY LastSentStep
    <2> QED BY <2>1, <2>2 DEF SyncInv
  <1> QED BY <1>1, <1>2, BasicCorrect, PTL DEF Spec

\* As long as no send has failed halfway, received, carried and unsent bytes are
\* those of the messages under way, in order: headers and values of different
\* threads never mix (the lock of SendTLV), nothing of an earlier connection is
\* left over (Close), and the parser stands at a frame boundary (RecvString).
THEOREM StreamCorrect == Spec => []StreamInSync
  <1>1. SyncInv => StreamInSync
    BY DEF SyncInv, InSync, Intact, StreamInSync, Stream, Frames
  <1> QED BY <1>1, SyncCorrect, PTL

\* What is taken from the buffer then.
LEMMA TakesOldest ==
  ASSUME Basic, SyncInv, NEW e \in Ends, Intact(e), Dispatch(e) \/ DropFrame(e)
  PROVE  /\ flight[e] # <<>> /\ Scan(buf[e]) = flight[e][1]
         /\ After(flight[e], Scan(buf[e])) = Tail(flight[e])
  <1>1. /\ HasFrame(buf[e]) /\ rpc[e] = "parse"
        /\ flight[e] \in Seq(Messages) /\ buf[e] \in Bytes
    BY DEF Dispatch, DropFrame, Basic, TypeOK
  <1>2. /\ wire[e] \o StillToSend(e) \in Bytes
        /\ buf[e] \o (wire[e] \o StillToSend(e)) = Frames(flight[e])
    <2>1. Unconsumed(e) = buf[e]
      BY <1>1 DEF Unconsumed
    <2> QED BY <2>1, StreamType, Regroup DEF Parts, SyncInv, InSync
  <1>3. flight[e] # <<>> /\ Scan(buf[e]) = flight[e][1]
    BY <1>1, <1>2, ParseFirst
  <1> QED BY <1>1, <1>3, AfterFirst

\* On such a connection a callback is given, and a message without callback drops,
\* the oldest message under way, and no other: nothing is skipped, repeated or
\* made up by the parser.
THEOREM OldestFirst ==
  Spec => [][\A e \in Ends :
               Intact(e) /\ (Dispatch(e) \/ DropFrame(e)) =>
                 /\ flight[e] # <<>> /\ Scan(buf[e]) = flight[e][1]
                 /\ flight'[e] = Tail(flight[e])]_vars
  <1>1. ASSUME Basic, SyncInv, NEW e \in Ends, Intact(e), Dispatch(e) \/ DropFrame(e)
        PROVE  /\ flight[e] # <<>> /\ Scan(buf[e]) = flight[e][1]
               /\ flight'[e] = Tail(flight[e])
    <2>1. flight'[e] = After(flight[e], Scan(buf[e]))
      BY <1>1 DEF Dispatch, DropFrame, Take, Basic, TypeOK
    <2> QED BY <1>1, <2>1, TakesOldest
  <1>2. Basic /\ SyncInv =>
          [\A e \in Ends :
               Intact(e) /\ (Dispatch(e) \/ DropFrame(e)) =>
                 /\ flight[e] # <<>> /\ Scan(buf[e]) = flight[e][1]
                 /\ flight'[e] = Tail(flight[e])]_vars
    BY <1>1
  <1> QED BY <1>2, BasicCorrect, SyncCorrect, PTL

-----------------------------------------------------------------------------
(* The promise.                                                             *)

\* A message is taken from a queue with all before it, or not at all.
LEMMA AfterIsRest ==
  ASSUME NEW q \in Seq(Messages), NEW m
  PROVE  \E i, j \in 0 .. Len(q) + 1 :
           i >= 1 /\ j <= Len(q) /\ After(q, m) = SubSeq(q, i, j)
  <1>1. Len(q) \in Nat /\ DOMAIN q = 1 .. Len(q)
    BY LenProperties
  <1>2. CASE ~ \E i \in DOMAIN q : q[i] = m
    <2>1. After(q, m) = SubSeq(q, 1, Len(q))
      BY <1>2, SubSeqFull DEF After
    <2>2. 1 \in 0 .. Len(q) + 1 /\ Len(q) \in 0 .. Len(q) + 1 /\ 1 >= 1 /\ Len(q) <= Len(q)
      BY <1>1
    <2> QED BY <2>1, <2>2
  <1>3. CASE \E i \in DOMAIN q : q[i] = m
    <2>1. PICK i \in DOMAIN q : After(q, m) = SubSeq(q, i + 1, Len(q))
      BY <1>3, FirstOccurrence DEF After
    <2>2. PICK k \in Nat : k = i + 1 /\ k \in 0 .. Len(q) + 1 /\ k >= 1
      BY <1>1
    <2>3. Len(q) \in 0 .. Len(q) + 1 /\ Len(q) <= Len(q)
      BY <1>1
    <2> QED BY <2>1, <2>2, <2>3
  <1> QED BY <1>2, <1>3

\* The parser's steps on a stream that is whole.
LEMMA PromiseIntact ==
  ASSUME Basic, SyncInv, NEW e \in Ends, Dispatch(e) \/ DropFrame(e), ~torn[e]
  PROVE  Promise!Execute(e) \/ Promise!Skip(e)
  <1>1. Intact(e)
    <2>1. rpc[e] = "parse"
      BY DEF Dispatch, DropFrame
    <2> QED BY <2>1 DEF Intact, Basic, Sockets
  <1>2. /\ flight[e] # <<>> /\ Scan(buf[e]) = flight[e][1]
        /\ After(flight[e], Scan(buf[e])) = Tail(flight[e])
    BY <1>1, TakesOldest
  <1>3. flight[e] \in Seq(Messages)
    BY DEF Basic, TypeOK
  <1>4. PICK m \in Messages : m = Head(flight[e]) /\ m = Scan(buf[e])
    <2>1. Head(flight[e]) \in Messages /\ Head(flight[e]) = flight[e][1]
      BY <1>2, <1>3, HeadTailProperties
    <2> QED BY <1>2, <2>1
  <1>5. flight' = [flight EXCEPT ![e] = Tail(@)] /\ UNCHANGED torn
    BY <1>2 DEF Dispatch, DropFrame, Take
  <1>6. m.tag = ScanTag(buf[e])
    BY <1>4 DEF Scan
  <1>7. CASE Dispatch(e)
    <2>1. executed' = [executed EXCEPT ![e] = Append(@, m)] /\ m.tag \in Ops
      BY <1>4, <1>6, <1>7 DEF Dispatch
    <2>2. m \in {k \in Messages : k.tag \in Ops}
      BY <2>1
    <2> QED BY <1>2, <1>4, <1>5, <2>1, <2>2 DEF Promise!Execute
  <1>8. CASE DropFrame(e)
    <2>1. UNCHANGED executed /\ m.tag \notin Ops
      BY <1>6, <1>8 DEF DropFrame
    <2>2. m \notin {k \in Messages : k.tag \in Ops}
      BY <2>1
    <2> QED BY <1>2, <1>4, <1>5, <2>1, <2>2 DEF Promise!Skip
  <1> QED BY <1>7, <1>8

\* The parser's steps on a stream that is not.
LEMMA PromiseStray ==
  ASSUME Basic, NEW e \in Ends, Dispatch(e) \/ DropFrame(e), torn[e]
  PROVE  Promise!Stray(e)
  <1>1. /\ flight' = [flight EXCEPT ![e] = After(flight[e], Scan(buf[e]))]
        /\ UNCHANGED torn
    BY DEF Dispatch, DropFrame, Take
  <1>2. \E i, j \in 0 .. Len(flight[e]) + 1 :
          i >= 1 /\ j <= Len(flight[e]) /\ flight' = [flight EXCEPT ![e] = SubSeq(@, i, j)]
    <2>1. flight[e] \in Seq(Messages)
      BY DEF Basic, TypeOK
    <2>2. PICK i \in 0 .. Len(flight[e]) + 1, j \in 0 .. Len(flight[e]) + 1 :
            i >= 1 /\ j <= Len(flight[e]) /\ After(flight[e], Scan(buf[e])) = SubSeq(flight[e], i, j)
      BY <2>1, AfterIsRest
    <2> QED BY <1>1, <2>2
  <1>3. \/ UNCHANGED executed
        \/ /\ Len(executed'[e]) = Len(executed[e]) + 1
           /\ executed' = [executed EXCEPT ![e] = Append(@, executed'[e][Len(@) + 1])]
    <2>1. CASE DropFrame(e)
      BY <2>1 DEF DropFrame
    <2>2. CASE Dispatch(e)
      <3>1. PICK m \in TLV : m = Scan(buf[e])
        BY <2>2, FrameType DEF Dispatch, Basic, TypeOK
      <3>2. /\ executed' = [executed EXCEPT ![e] = Append(executed[e], m)]
            /\ executed'[e] = Append(executed[e], m) /\ executed[e] \in Seq(TLV)
        BY <2>2, <3>1 DEF Dispatch, Basic, TypeOK
      <3>3. /\ Len(Append(executed[e], m)) = Len(executed[e]) + 1
            /\ Append(executed[e], m)[Len(executed[e]) + 1] = m
        BY <3>2, AppendProperties
      <3> QED BY <3>2, <3>3
    <2> QED BY <2>1, <2>2
  <1> QED BY <1>1, <1>2, <1>3 DEF Promise!Stray

\* A step of the channels is a step of the promise, or none.
LEMMA PromiseStep ==
  ASSUME Basic, SyncInv, [Next]_vars
  PROVE  [Promise!Next]_(Promise!vars)
  <1>0. /\ flight \in [Ends -> Seq(Messages)] /\ executed \in [Ends -> Seq(TLV)]
        /\ torn \in [Ends -> BOOLEAN]
    BY DEF Basic, TypeOK
  <1>1. CASE UNCHANGED <<flight, executed, torn>>
    BY <1>1 DEF Promise!vars
  <1>2. ASSUME NEW t \in Threads, SendStep(t)
        PROVE  Promise!Next \/ UNCHANGED <<flight, executed, torn>>
    <2>0. PICK e \in Ends, d \in Ends : e = EndOf(t) /\ d = Peer(e)
      BY EndsType
    <2>1. CASE LockSocket(t) /\ Connected(e)
      <3>1. flight' = [flight EXCEPT ![d] = Append(@, Current(t))]
            /\ UNCHANGED <<executed, torn>>
        BY <2>0, <2>1 DEF LockSocket
      <3>2. Current(t) \in Messages
        BY <2>1, CurrentType DEF LockSocket, Basic, TypeOK
      <3>3. Promise!Send(d, Current(t))
        BY <3>1 DEF Promise!Send
      <3> QED BY <3>2, <3>3 DEF Promise!Next
    <2>2. CASE LockSocket(t) /\ ~Connected(e)
      BY <2>0, <2>2 DEF LockSocket
    <2>3. CASE SendFails(t) /\ Connected(e) /\ Unsent(t)
      <3>1. flight' = [flight EXCEPT ![d] = SubSeq(@, 1, Len(@) - 1)] /\ UNCHANGED executed
        BY <2>0, <2>3 DEF SendFails, Return
      <3>2. UNCHANGED torn
        <4>1. torn' = [torn EXCEPT ![d] = @ \/ FALSE]
          BY <2>0, <2>3 DEF SendFails
        <4> QED BY <1>0, <4>1
      <3>3. CASE flight[d] = <<>>
        <4>1. SubSeq(flight[d], 1, Len(flight[d]) - 1) = <<>>
          BY <3>3, SubSeqEmpty, EmptyLength
        <4>2. flight' = flight
          BY <1>0, <3>1, <3>3, <4>1
        <4> QED BY <3>1, <3>2, <4>2
      <3>4. CASE flight[d] # <<>>
        BY <3>1, <3>2, <3>4 DEF Promise!TakeBack, Promise!Next
      <3> QED BY <3>3, <3>4
    <2>4. CASE SendFails(t) /\ Connected(e) /\ ~Unsent(t)
      <3>1. UNCHANGED <<flight, executed>>
        BY <2>0, <2>4 DEF SendFails, Return
      <3>2. torn' = [torn EXCEPT ![d] = TRUE]
        <4>1. torn' = [torn EXCEPT ![d] = @ \/ TRUE]
          BY <2>0, <2>4 DEF SendFails
        <4> QED BY <1>0, <4>1
      <3> QED BY <3>1, <3>2 DEF Promise!Break, Promise!Next
    <2>5. CASE SendFails(t) /\ ~Connected(e)
      <3>1. UNCHANGED <<flight, executed>>
        BY <2>0, <2>5 DEF SendFails, Return
      <3>2. torn' = [torn EXCEPT ![d] = @ \/ FALSE]
        BY <2>0, <2>5 DEF SendFails
      <3>3. UNCHANGED torn
        BY <1>0, <3>2
      <3> QED BY <3>1, <3>3
    <2>6. CASE SendMessage(t) \/ SerializeFails(t) \/ SendSome(t) \/ HeaderSent(t) \/ MessageSent(t)
      BY <2>6 DEF SendMessage, SerializeFails, SendSome, HeaderSent, MessageSent, Return, hist
    <2> QED BY <1>2, <2>1, <2>2, <2>3, <2>4, <2>5, <2>6 DEF SendStep
  <1>3. ASSUME NEW e \in Ends, ServiceStep(e)
        PROVE  Promise!Next \/ UNCHANGED <<flight, executed, torn>>
    <2>1. CASE DropFrame(e) \/ Dispatch(e)
      <3>1. CASE torn[e]
        BY <2>1, <3>1, PromiseStray DEF Promise!Next
      <3>2. CASE ~torn[e]
        BY <2>1, <3>2, PromiseIntact DEF Promise!Next
      <3> QED BY <3>1, <3>2
    <2>2. CASE Close(e)
      <3>1. Promise!Disconnect(e)
        BY <2>2 DEF Close, Promise!Disconnect
      <3> QED BY <3>1 DEF Promise!Next
    <2>3. CASE Recv(e) \/ RecvFails(e) \/ ParseEnds(e) \/ RejectFrame(e) \/ UnserializeFails(e)
               \/ CallbackReturns(e)
      BY <2>3 DEF Recv, RecvFails, ParseEnds, RejectFrame, UnserializeFails, CallbackReturns, hist
    <2> QED BY <1>3, <2>1, <2>2, <2>3 DEF ServiceStep
  <1>4. CASE Open
    <2>1. \A e \in Ends : flight[e] = <<>>
      BY <1>4 DEF Open, Basic, Sockets
    <2>2. torn' = [e \in Ends |-> FALSE] /\ UNCHANGED <<flight, executed>>
      BY <1>4 DEF Open
    <2> QED BY <2>1, <2>2 DEF Promise!Reconnect, Promise!Next
  <1>5. CASE (\E e \in Ends : Stop(e)) \/ Idle \/ UNCHANGED vars
    BY <1>1, <1>5 DEF Stop, Idle, vars, hist
  <1> QED BY <1>1, <1>2, <1>3, <1>4, <1>5 DEF Next

\* The channels keep the promise of gep_channel_array.h as long as they can, for any
\* messages and any bytes in them, whatever partial sends, timeouts, refused
\* messages and reconnections there are: until a send to an end has failed halfway,
\* that end executes the messages sent to it, in the order of the sends, each once,
\* leaves out none it has a callback for before the connection ends, and executes
\* nothing else; a new connection starts anew.
THEOREM PromiseKept == Spec => ZeroOrOneSpec
  <1>1. Init => Promise!Init
    BY DEF Init, Promise!Init
  <1>2. Basic /\ SyncInv /\ [Next]_vars => [Promise!Next]_(Promise!vars)
    BY PromiseStep
  <1> QED BY <1>1, <1>2, BasicCorrect, SyncCorrect, PTL
          DEF Spec, ZeroOrOneSpec, Promise!Spec
=============================================================================
