----------------------------- MODULE UtilsProofs -----------------------------
(***************************************************************************)
(* The conversions of utils.h lose nothing, and the printing functions of  *)
(* utils.cc print what fits and keep to the buffer, for any data.          *)
(***************************************************************************)
EXTENDS Utils, SequenceLemmas

LOCAL INSTANCE SequencesExt

-----------------------------------------------------------------------------
(* The conversions.                                                         *)

\* A time in microseconds, before or after the epoch, is what its struct timeval
\* converts back to, so the timeouts of select() are those of the protocol
\* (usecs_to_timeval, which divides, and timeval_to_usecs).
THEOREM TimevalRoundTrip ==
  ASSUME NEW usecs \in Int
  PROVE  timeval_to_usecs(usecs_to_timeval(usecs)) = usecs
<1>1. CASE usecs >= 0
  BY <1>1, SMT DEF timeval_to_usecs, usecs_to_timeval, kUsecsPerSec
<1>2. CASE usecs < 0
  BY <1>2, SMT DEF timeval_to_usecs, usecs_to_timeval, kUsecsPerSec
<1>3. QED
  BY <1>1, <1>2, SMT

-----------------------------------------------------------------------------
(* Texts.                                                                   *)

Words == Seq(Chars)

\* The text a byte is printed as.
Piece(b) == IF fun = "hex" THEN Hex(b) ELSE Printable(b)

\* The texts of the bytes from k on.
Rest(k) == [j \in 1 .. Len(data) + 1 - k |-> Piece(data[k + j - 1])]

\* A text has characters.
LEMMA TextType ==
  ASSUME NEW kind \in Bytes \cup {"day", "fraction", "zone"}, NEW n \in Nat
  PROVE  Text(kind, n) \in Words /\ Len(Text(kind, n)) = n
  BY DEF Text, Chars, Words

\* The texts that are printed.
LEMMA Texts ==
  /\ \A b \in Bytes : Hex(b) \in Words /\ Printable(b) \in Words
  /\ \A full \in BOOLEAN : /\ DayAndTime(full) \in Words
                           /\ Len(DayAndTime(full)) = IF full THEN 19 ELSE 11
  /\ Fraction \in Words /\ Len(Fraction) = 4
  /\ Zone \in Words /\ Len(Zone) = 5
  <1>1. ASSUME NEW b \in Bytes PROVE Hex(b) \in Words /\ Printable(b) \in Words
    BY TextType DEF Hex, Printable
  <1>2. ASSUME NEW full \in BOOLEAN
        PROVE  /\ DayAndTime(full) \in Words
               /\ Len(DayAndTime(full)) = IF full THEN 19 ELSE 11
    BY TextType DEF DayAndTime
  <1>3. Fraction \in Words /\ Len(Fraction) = 4 /\ Zone \in Words /\ Len(Zone) = 5
    BY TextType DEF Fraction, Zone
  <1> QED BY <1>1, <1>2, <1>3

\* Any three texts can be put together in any order of putting.
LEMMA Associate == \A a, b, c \in Words : (a \o b) \o c = a \o (b \o c)
  BY ConcatAssociative, SMTT(30) DEF Words

-----------------------------------------------------------------------------
(* The buffer.                                                              *)

Cell  == Chars \cup {NUL, Untouched}
Cells == [Memory -> Cell]

\* The buffer m of some size has the beginning of d, ...
Content(m, d, size) == \A a \in 0 .. Upto(Len(d), size - 1) - 1 : m[a] = d[a + 1]

\* ... and its end.
Holds(m, d, size) == Content(m, d, size) /\ m[Upto(Len(d), size - 1)] = NUL

\* b characters are there, and the end if there is no room left.
Begins(m, d, size, b) == /\ Content(m, d, size) /\ b = Upto(Len(d), size)
                         /\ Len(d) >= size => m[size - 1] = NUL

\* The memory that is looked at goes well beyond any buffer.
LEMMA InMemory ==
  /\ MaxSize \in Nat /\ \A a \in Memory : a \in Nat
  /\ \A a \in Nat : a <= MaxSize => a \in Memory
  BY UtilsAssumption DEF Memory

\* What a write changes: from at on, p has the n characters of t that fit, and a NUL.
Wrote(p, m, at, n, t) ==
  /\ \A a \in Memory : a >= at /\ a < at + n => p[a] = t[a - at + 1]
  /\ \A a \in Memory : a = at + n => p[a] = NUL
  /\ \A a \in Memory : a < at \/ a > at + n => p[a] = m[a]
  /\ p = [a \in Memory |-> p[a]]

\* That is what vsnprintf does with room for a NUL and r characters.
LEMMA PutWrites ==
  ASSUME NEW m, NEW at \in Nat, NEW r \in Nat, NEW t \in Words
  PROVE  /\ Wrote(Put(m, at, r + 1, t), m, at, Upto(Len(t), r), t)
         /\ NiceLen(r + 1, t) = Upto(Len(t), r + 1)
  <1> DEFINE p == Put(m, at, r + 1, t)
  <1>1. PICK y \in Nat : y = Len(t)
    BY LenProperties DEF Words
  <1>2. PICK n \in Nat : n = Upto(y, r)
    <2>1. Upto(y, r) \in Nat
      BY DEF Upto
    <2> QED BY <2>1
  <1>3. r + 1 > 0 /\ r + 1 - 1 = r
    OBVIOUS
  <1>4. p = [a \in Memory |-> CASE r + 1 > 0 /\ a \in at .. at + n - 1 -> t[a - at + 1]
                                [] r + 1 > 0 /\ a = at + n             -> NUL
                                [] OTHER                               -> m[a]]
    BY <1>1, <1>2, <1>3 DEF Put
  <1>5. p = [a \in Memory |-> p[a]]
    BY <1>4
  <1> HIDE DEF p
  <1>6. ASSUME NEW a \in Memory
        PROVE  /\ a >= at /\ a < at + n => p[a] = t[a - at + 1]
               /\ a = at + n => p[a] = NUL
               /\ a < at \/ a > at + n => p[a] = m[a]
    <2>1. a \in Int
      BY InMemory
    <2>2. a \in at .. at + n - 1 <=> a >= at /\ a < at + n
      BY <2>1
    <2> QED BY <1>3, <1>4, <2>1, <2>2
  <1>7. NiceLen(r + 1, t) = Upto(y, r + 1)
    BY <1>1 DEF NiceLen, Upto
  <1>8. Wrote(p, m, at, n, t)
    BY <1>5, <1>6 DEF Wrote
  <1> QED BY <1>1, <1>2, <1>7, <1>8 DEF p

\* What nice_snprintf adds to a buffer that holds d, be there room or not.
LEMMA PutAdds ==
  ASSUME NEW size \in Nat, size > 0, size <= MaxSize, NEW m \in Cells,
         NEW d \in Words, NEW t \in Words, NEW b, Begins(m, d, size, b)
  PROVE  /\ Put(m, b, size - b, t) \in Cells
         /\ Holds(Put(m, b, size - b, t), d \o t, size)
         /\ \A a \in Memory : a >= size => Put(m, b, size - b, t)[a] = m[a]
         /\ b + NiceLen(size - b, t) = Upto(Len(d \o t), size)
  <1> DEFINE p == Put(m, b, size - b, t)
             e == d \o t
  <1>1. PICK x \in Nat : x = Len(d)
    BY LenProperties DEF Words
  <1>2. PICK y \in Nat : y = Len(t)
    BY LenProperties DEF Words
  <1>3. /\ Len(e) = x + y
        /\ \A k \in 1 .. x : e[k] = d[k]
        /\ \A k \in 1 .. y : e[x + k] = t[k]
    <2>1. /\ Len(e) = x + y
          /\ \A k \in 1 .. x + y : e[k] = IF k <= x THEN d[k] ELSE t[k - x]
      BY <1>1, <1>2, ConcatProperties DEF Words
    <2>2. ASSUME NEW k \in 1 .. y PROVE e[x + k] = t[k]
      <3>1. x + k \in 1 .. x + y /\ ~(x + k <= x) /\ x + k - x = k
        OBVIOUS
      <3> HIDE DEF e
      <3> QED BY <2>1, <3>1
    <2> HIDE DEF e
    <2> QED BY <2>1, <2>2
  <1>4. \A k \in 1 .. y : t[k] \in Chars
    BY <1>2, ElementOfSeq DEF Words
  <1>5. b = IF x < size THEN x ELSE size
    BY <1>1 DEF Upto, Begins
  <1> HIDE DEF e
  <1>6. CASE x < size
    <2>1. PICK r \in Nat : size - x = r + 1
      <3>1. size - x - 1 \in Nat /\ size - x = (size - x - 1) + 1
        BY <1>6
      <3> QED BY <3>1
    <2>2. Upto(y, r) \in Nat /\ Upto(y, r) <= y /\ Upto(y, r) <= r
      BY DEF Upto
    <2>3. PICK n \in Nat : n = Upto(y, r) /\ n <= y /\ x + n <= size - 1
      BY <2>1, <2>2
    <2>4. Wrote(p, m, x, n, t) /\ NiceLen(size - b, t) = Upto(y, r + 1)
      <3>1. b = x /\ size - b = r + 1
        BY <1>5, <1>6, <2>1
      <3>2. /\ Wrote(Put(m, x, r + 1, t), m, x, Upto(Len(t), r), t)
            /\ NiceLen(r + 1, t) = Upto(Len(t), r + 1)
        BY PutWrites
      <3> QED BY <1>2, <2>3, <3>1, <3>2
    <2> HIDE DEF p
    <2>5. ASSUME NEW a \in Nat, a >= x, a < x + n
          PROVE  a \in Memory /\ p[a] = t[a - x + 1] /\ a - x + 1 \in 1 .. y
      <3>1. a \in Memory
        BY <1>6, <2>3, <2>5, InMemory
      <3>2. a - x + 1 \in 1 .. y
        BY <2>3, <2>5
      <3> QED BY <2>4, <2>5, <3>1, <3>2 DEF Wrote
    <2>6. x + n \in Memory /\ p[x + n] = NUL
      <3>1. x + n \in Nat /\ x + n <= MaxSize
        BY <2>3, InMemory
      <3>2. x + n \in Memory
        BY <3>1, InMemory
      <3> QED BY <2>4, <3>2 DEF Wrote
    <2>7. \A a \in Memory : a < x \/ a > x + n => p[a] = m[a]
      BY <2>4 DEF Wrote
    <2>8. p \in Cells
      <3>1. \A a \in Memory : m[a] \in Cell
        BY DEF Cells
      <3>2. ASSUME NEW a \in Memory PROVE p[a] \in Cell
        <4>1. CASE a >= x /\ a < x + n
          BY <1>4, <2>5, <4>1, InMemory DEF Cell
        <4>2. CASE a = x + n
          BY <2>6, <4>2 DEF Cell
        <4>3. CASE a < x \/ a > x + n
          BY <2>7, <3>1, <4>3
        <4> QED BY <4>1, <4>2, <4>3, InMemory
      <3>3. p = [a \in Memory |-> p[a]]
        BY <2>4 DEF Wrote
      <3> QED BY <3>2, <3>3 DEF Cells
    <2>9. Upto(x + y, size - 1) = x + n /\ Upto(x, size - 1) = x
      BY <1>6, <2>1, <2>3 DEF Upto
    <2>10. ASSUME NEW a \in 0 .. x + n - 1 PROVE p[a] = e[a + 1]
      <3>1. CASE a < x
        <4>1. a \in Memory /\ a + 1 \in 1 .. x /\ a \in 0 .. x - 1
          BY <1>6, <3>1, InMemory
        <4>2. m[a] = d[a + 1]
          BY <1>1, <2>9, <4>1 DEF Content, Begins
        <4> QED BY <1>3, <2>7, <3>1, <4>1, <4>2
      <3>2. CASE a >= x
        <4>1. p[a] = t[a - x + 1] /\ a - x + 1 \in 1 .. y
          BY <2>5, <3>2
        <4>2. PICK k \in 1 .. y : k = a - x + 1
          BY <4>1
        <4>3. x + k = a + 1
          BY <4>2
        <4> QED BY <1>3, <4>1, <4>2, <4>3
      <3> QED BY <3>1, <3>2
    <2>11. Holds(p, e, size)
      BY <1>3, <2>6, <2>9, <2>10 DEF Holds, Content
    <2>12. \A a \in Memory : a >= size => p[a] = m[a]
      BY <2>3, <2>7, InMemory
    <2>13. b + NiceLen(size - b, t) = Upto(Len(e), size)
      <3>1. b = x /\ size = x + (r + 1)
        BY <1>5, <1>6, <2>1
      <3> QED BY <1>3, <2>4, <3>1 DEF Upto
    <2> QED BY <2>8, <2>11, <2>12, <2>13 DEF p, e
  <1>7. CASE x >= size
    <2>1. \A a \in Memory : p[a] = m[a]
      <3>1. ~(size - b > 0)
        BY <1>5, <1>7
      <3> QED BY <3>1 DEF Put
    <2>2. p \in Cells
      <3>1. p \in [Memory -> {p[a] : a \in Memory}]
        BY DEF Put
      <3> HIDE DEF p
      <3> QED BY <2>1, <3>1 DEF Cells
    <2> HIDE DEF p
    <2>3. Upto(x + y, size - 1) = size - 1 /\ Upto(x, size - 1) = size - 1 /\ size - 1 \in Memory
      BY <1>7, InMemory DEF Upto
    <2>4. ASSUME NEW a \in 0 .. size - 1 - 1 PROVE p[a] = e[a + 1]
      <3>1. a \in Memory /\ a + 1 \in 1 .. x
        BY <1>7, InMemory
      <3>2. m[a] = d[a + 1]
        BY <1>1, <2>3 DEF Content, Begins
      <3> QED BY <1>3, <2>1, <3>1, <3>2
    <2>5. Holds(p, e, size)
      BY <1>1, <1>3, <1>7, <2>1, <2>3, <2>4 DEF Holds, Content, Begins
    <2>6. b + NiceLen(size - b, t) = Upto(Len(e), size)
      <3>1. b = size /\ size - b = 0
        BY <1>5, <1>7
      <3>2. NiceLen(0, t) = 0
        BY <1>2 DEF NiceLen
      <3>3. Upto(x + y, size) = size
        BY <1>7 DEF Upto
      <3> QED BY <1>3, <3>1, <3>2, <3>3
    <2> QED BY <2>1, <2>2, <2>5, <2>6 DEF p, e
  <1> QED BY <1>6, <1>7
\* The characters printed so far are those of d that fit.
Printed(d) == Holds(mem, d, bufsize) /\ bi = Upto(Len(d), bufsize)

\* Nothing is written beyond the buffer.
Inside == \A a \in Memory : a >= bufsize => mem[a] = Untouched

\* The shape of the state.
Shape ==
  /\ fun \in {"hex", "printable", "date", "full date"} /\ bufsize \in Sizes
  /\ data \in Seq(Bytes) /\ mem \in Cells /\ pc \in {"loop", "return"}
  /\ i \in Nat

\* A buffer has a size.
LEMMA SizeType ==
  Shape => bufsize \in Nat /\ bufsize > 0 /\ bufsize <= MaxSize /\ MaxSize \in Nat
  <1>1. ASSUME Shape PROVE bufsize \in 1 .. MaxSize
    <2>1. bufsize \in Sizes /\ Sizes \subseteq 1 .. MaxSize
      BY <1>1, UtilsAssumption DEF Shape
    <2> QED BY <2>1
  <1> QED BY <1>1, UtilsAssumption

\* What is printed can be added to.
LEMMA PrintedBegins ==
  ASSUME Shape, NEW d \in Words, Printed(d)
  PROVE  Begins(mem, d, bufsize, bi)
  <1>1. bufsize \in Nat /\ Len(d) \in Nat
    BY SizeType, LenProperties DEF Words
  <1>2. Len(d) >= bufsize => Upto(Len(d), bufsize - 1) = bufsize - 1
    BY <1>1 DEF Upto
  <1> QED BY <1>2 DEF Printed, Holds, Begins

\* snprintf adds a text to what is printed.
LEMMA WriteAdds ==
  ASSUME Shape, NEW d \in Words, NEW t \in Words, Begins(mem, d, bufsize, bi),
         Write(t), UNCHANGED bufsize
  PROVE  /\ d \o t \in Words /\ mem' \in Cells /\ Printed(d \o t)'
         /\ Inside => Inside'
  <1>1. /\ Put(mem, bi, bufsize - bi, t) \in Cells
        /\ Holds(Put(mem, bi, bufsize - bi, t), d \o t, bufsize)
        /\ \A a \in Memory : a >= bufsize => Put(mem, bi, bufsize - bi, t)[a] = mem[a]
        /\ bi + NiceLen(bufsize - bi, t) = Upto(Len(d \o t), bufsize)
    <2>1. bufsize \in Nat /\ bufsize > 0 /\ bufsize <= MaxSize
      BY SizeType
    <2>2. mem \in Cells
      BY DEF Shape
    <2> QED BY <2>1, <2>2, PutAdds
  <1>2. mem' = Put(mem, bi, bufsize - bi, t) /\ bi' = bi + NiceLen(bufsize - bi, t)
    BY DEF Write
  <1>3. d \o t \in Words
    BY ConcatProperties DEF Words
  <1> QED BY <1>1, <1>2, <1>3 DEF Printed, Inside

\* The string in the buffer.
LEMMA StringIs ==
  ASSUME Shape, NEW d \in Words, Printed(d)
  PROVE  LET n == Upto(Len(d), bufsize - 1) IN
         /\ n \in Memory /\ mem[n] = NUL /\ n <= Len(d)
         /\ StrLen = n /\ String = SubSeq(d, 1, n)
  <1>1. PICK x \in Nat : x = Len(d)
    BY LenProperties DEF Words
  <1>2. PICK n \in Nat : n = Upto(x, bufsize - 1) /\ n <= x /\ n <= MaxSize
    <2>1. Upto(x, bufsize - 1) \in Nat /\ Upto(x, bufsize - 1) <= x /\ Upto(x, bufsize - 1) <= MaxSize
      BY SizeType DEF Upto
    <2> QED BY <2>1
  <1>3. n \in Memory /\ mem[n] = NUL
    BY <1>1, <1>2, InMemory DEF Printed, Holds
  <1>4. \A a \in 0 .. n - 1 : mem[a] = d[a + 1]
    BY <1>1, <1>2 DEF Printed, Holds, Content
  <1>5. \A k \in 1 .. n : d[k] \in Chars
    BY <1>1, <1>2, ElementOfSeq DEF Words
  <1>6. \A a \in 0 .. n - 1 : mem[a] # NUL
    <2> SUFFICES ASSUME NEW a \in 0 .. n - 1 PROVE mem[a] # NUL
      OBVIOUS
    <2>1. a + 1 \in 1 .. n
      OBVIOUS
    <2> QED BY <1>4, <1>5, <2>1, UtilsAssumption
  <1>7. ASSUME NEW l \in Memory, mem[l] = NUL, \A a \in 0 .. l - 1 : mem[a] # NUL
        PROVE  l = n
    <2>1. l \in Nat
      BY InMemory
    <2>2. ~(l < n) /\ ~(n < l)
      BY <1>3, <1>6, <1>7, <2>1
    <2> QED BY <2>1, <2>2
  <1>8. StrLen = n
    BY <1>3, <1>6, <1>7 DEF StrLen
  <1>9. String = [k \in 1 .. n |-> mem[k - 1]]
    BY <1>8 DEF String
  <1>10. \A k \in 1 .. n : mem[k - 1] = d[k]
    <2> SUFFICES ASSUME NEW k \in 1 .. n PROVE mem[k - 1] = d[k]
      OBVIOUS
    <2>1. k - 1 \in 0 .. n - 1 /\ k - 1 + 1 = k
      OBVIOUS
    <2> QED BY <1>4, <2>1
  <1>11. String = [k \in 1 .. n |-> d[k]]
    BY <1>9, <1>10
  <1>12. SubSeq(d, 1, n) = [k \in 1 .. n |-> d[k]]
    <2> DEFINE s == SubSeq(d, 1, n)
    <2>1. 1 \in Int /\ n \in Int /\ \A k \in 1 .. n : d[k] \in Chars
      BY <1>5
    <2>2. s \in Seq(Chars) /\ Len(s) = n /\ \A k \in 1 .. n : s[k] = d[k]
      <3>1. /\ s \in Seq(Chars) /\ Len(s) = IF 1 <= n THEN n - 1 + 1 ELSE 0
            /\ \A k \in 1 .. n - 1 + 1 : s[k] = d[1 + k - 1]
        BY <2>1, SubSeqProperties
      <3> HIDE DEF s
      <3> QED BY <3>1
    <2> HIDE DEF s
    <2> QED BY <2>2
  <1> QED BY <1>1, <1>2, <1>3, <1>8, <1>11, <1>12

\* A beginning of a text is a beginning of what the text begins.
LEMMA SameBeginning ==
  ASSUME NEW d \in Words, NEW e \in Words, NEW n \in Nat, n <= Len(d)
  PROVE  /\ SubSeq(d \o e, 1, n) = SubSeq(d, 1, n)
         /\ SubSeq(d, 1, n) \in Words /\ Len(SubSeq(d, 1, n)) = n
         /\ SubSeq(SubSeq(d, 1, n), 1, n) = SubSeq(d, 1, n)
  <1>1. PICK x \in Nat, y \in Nat : x = Len(d) /\ y = Len(e)
    BY LenProperties DEF Words
  <1>2. PICK w \in Words : w = d \o e
    BY ConcatProperties DEF Words
  <1>3. \A k \in 1 .. n : d[k] \in Chars /\ w[k] = d[k]
    <2>1. \A k \in 1 .. x : d[k] \in Chars
      BY <1>1, ElementOfSeq DEF Words
    <2>2. \A k \in 1 .. x + y : w[k] = IF k <= x THEN d[k] ELSE e[k - x]
      BY <1>1, <1>2, ConcatProperties DEF Words
    <2> QED BY <1>1, <2>1, <2>2
  <1>4. ASSUME NEW s, \A k \in 1 .. n : s[k] = d[k]
        PROVE  /\ SubSeq(s, 1, n) \in Seq(Chars) /\ Len(SubSeq(s, 1, n)) = n
               /\ \A k \in 1 .. n : SubSeq(s, 1, n)[k] = d[k]
    <2>1. 1 \in Int /\ n \in Int /\ \A k \in 1 .. n : s[k] \in Chars
      BY <1>3, <1>4
    <2>2. PICK r : r = SubSeq(s, 1, n)
      OBVIOUS
    <2>3. /\ r \in Seq(Chars) /\ Len(r) = IF 1 <= n THEN n - 1 + 1 ELSE 0
          /\ \A k \in 1 .. n - 1 + 1 : r[k] = s[1 + k - 1]
      BY <2>1, <2>2, SubSeqProperties
    <2> QED BY <1>4, <2>2, <2>3
  <1>5. PICK a \in Seq(Chars) : a = SubSeq(d, 1, n) /\ Len(a) = n /\ \A k \in 1 .. n : a[k] = d[k]
    BY <1>4
  <1>6. PICK b \in Seq(Chars) : b = SubSeq(w, 1, n) /\ Len(b) = n /\ \A k \in 1 .. n : b[k] = d[k]
    BY <1>3, <1>4
  <1>7. PICK c \in Seq(Chars) : c = SubSeq(a, 1, n) /\ Len(c) = n /\ \A k \in 1 .. n : c[k] = d[k]
    BY <1>4, <1>5
  <1>8. a = b /\ a = c
    BY <1>5, <1>6, <1>7, SeqEqual
  <1> QED BY <1>2, <1>5, <1>6, <1>7, <1>8 DEF Words
-----------------------------------------------------------------------------
(* snprintf_hex and snprintf_printable.                                     *)

\* The texts of the bytes from k on, the first and the others.
LEMMA RestShape ==
  ASSUME Shape, NEW k \in 1 .. Len(data) + 1
  PROVE  /\ FlattenSeq(Rest(k)) \in Words
         /\ k = Len(data) + 1 => FlattenSeq(Rest(k)) = <<>>
         /\ k <= Len(data) => /\ Piece(data[k]) \in Words
                              /\ FlattenSeq(Rest(k)) = Piece(data[k]) \o FlattenSeq(Rest(k + 1))
  <1> DEFINE L == Seq(Chars)
  <1>1. PICK n \in Nat : n = Len(data)
    BY LenProperties DEF Shape
  <1>2. \A b \in Bytes : Piece(b) \in L
    BY Texts DEF Piece, Words
  <1>3. \A j \in 1 .. n : Piece(data[j]) \in L
    BY <1>1, <1>2, ElementOfSeq DEF Shape
  <1>4. ASSUME NEW l \in 1 .. n + 1
        PROVE  \E q \in Seq(Seq(Chars)) :
                 /\ q = Rest(l) /\ Len(q) = n + 1 - l
                 /\ \A j \in 1 .. n + 1 - l : q[j] = Piece(data[l + j - 1])
    <2>1. PICK m \in Nat : m = n + 1 - l
      OBVIOUS
    <2>2. \A j \in 1 .. m : Piece(data[l + j - 1]) \in L
      <3> SUFFICES ASSUME NEW j \in 1 .. m PROVE Piece(data[l + j - 1]) \in L
        OBVIOUS
      <3>1. l + j - 1 \in 1 .. n
        BY <2>1
      <3> QED BY <1>3, <3>1
    <2> HIDE DEF L
    <2>3. Rest(l) = [j \in 1 .. m |-> Piece(data[l + j - 1])]
      BY <1>1, <2>1 DEF Rest
    <2>4. Rest(l) \in Seq(L) /\ Len(Rest(l)) = m
      BY <2>2, <2>3
    <2>5. \A j \in 1 .. m : Rest(l)[j] = Piece(data[l + j - 1])
      BY <2>3
    <2> QED BY <2>1, <2>4, <2>5 DEF L
  <1>5. PICK q \in Seq(Seq(Chars)) :
          /\ q = Rest(k) /\ Len(q) = n + 1 - k
          /\ \A j \in 1 .. n + 1 - k : q[j] = Piece(data[k + j - 1])
    BY <1>1, <1>4
  <1>6. FlattenSeq(q) \in Words
    BY FlattenType DEF Words
  <1>7. ASSUME k = n + 1 PROVE FlattenSeq(q) = <<>>
    <2>1. Len(q) = 0
      BY <1>5, <1>7
    <2> QED BY <2>1, FlattenEmpty, EmptySeq
  <1>8. ASSUME k <= n
        PROVE  FlattenSeq(q) = Piece(data[k]) \o FlattenSeq(Rest(k + 1))
    <2>1. k + 1 \in 1 .. n + 1
      BY <1>8, <1>1
    <2>2. PICK r \in Seq(Seq(Chars)) :
            /\ r = Rest(k + 1) /\ Len(r) = n + 1 - (k + 1)
            /\ \A j \in 1 .. n + 1 - (k + 1) : r[j] = Piece(data[k + 1 + j - 1])
      BY <1>4, <2>1
    <2>3. Len(q) # 0 /\ q[1] = Piece(data[k])
      <3>1. 1 \in 1 .. n + 1 - k /\ k + 1 - 1 = k
        BY <1>8, <1>1
      <3> QED BY <1>5, <3>1
    <2>4. FlattenSeq(q) = q[1] \o FlattenSeq(Tail(q))
      BY <2>3, FlattenHead
    <2>5. Tail(q) = r
      <3> HIDE DEF L
      <3>1. q \in Seq(L) /\ r \in Seq(L)
        BY DEF L
      <3>2. q # <<>>
        BY <2>3, EmptyLength
      <3>3. /\ Tail(q) \in Seq(L) /\ Len(Tail(q)) = Len(q) - 1
            /\ \A j \in 1 .. Len(Tail(q)) : Tail(q)[j] = q[j + 1]
        BY <3>1, <3>2, HeadTailProperties
      <3>4. PICK u \in Seq(L) : u = Tail(q)
        BY <3>3
      <3>5. PICK m \in Nat : m = n - k
        <4>1. k \in 1 .. n + 1
          BY <1>1
        <4>2. n - k \in Nat
          BY <1>8, <4>1
        <4> QED BY <4>2
      <3>6. Len(u) = m /\ Len(r) = m
        <4>1. k \in 1 .. n + 1
          BY <1>1
        <4>2. n + 1 - k - 1 = m /\ n + 1 - (k + 1) = m
          BY <3>5, <4>1
        <4> QED BY <1>5, <2>2, <3>3, <3>4, <4>2
      <3>7. ASSUME NEW j \in 1 .. m PROVE u[j] = r[j]
        <4>1. j + 1 \in 1 .. n + 1 - k /\ j \in 1 .. n + 1 - (k + 1)
              /\ k + (j + 1) - 1 = k + 1 + j - 1
          BY <3>5
        <4>2. q[j + 1] = Piece(data[k + (j + 1) - 1]) /\ r[j] = Piece(data[k + 1 + j - 1])
          BY <1>5, <2>2, <4>1
        <4>3. u[j] = q[j + 1]
          BY <3>3, <3>4, <3>6
        <4> QED BY <4>1, <4>2, <4>3
      <3>8. u = r
        BY <3>6, <3>7, SeqEqual
      <3> QED BY <3>4, <3>8
    <2> QED BY <2>2, <2>3, <2>4, <2>5
  <1>9. k <= n => Piece(data[k]) \in Words
    BY <1>3 DEF Words
  <1> QED BY <1>1, <1>5, <1>6, <1>7, <1>8, <1>9

\* What is printed of the whole text so far, and what is not.
Printing ==
  ~IsDate =>
    /\ i \in 1 .. Len(data) + 1 /\ Inside
    /\ \E d \in Words : /\ Printed(d) /\ WholeText = d \o FlattenSeq(Rest(i))
                        /\ pc = "return" => i > Len(data) \/ bi >= bufsize
\* What is printed of a date.
Day   == DayAndTime(fun = "full date")
Later == Day \o Fraction

Dating ==
  IsDate =>
    \/ i = 1 /\ pc = "loop" /\ bi = 0 /\ Inside
    \/ i = 2 /\ pc = "return" /\ Printed(<<>>) /\ Inside
    \/ i = 2 /\ pc = "loop" /\ Printed(Day) /\ Len(Day) < bufsize /\ Inside
    \/ /\ i = 3 /\ Printed(Later) /\ Len(Day) < bufsize /\ Inside
       /\ (pc = "return" <=> fun = "date")
    \/ /\ i = 4 /\ pc = "return" /\ fun = "full date" /\ WritesStay
       /\ Printed(Later) \/ Printed(Later \o Zone)

\* What a call of strftime does.
LEMMA StrftimeAdds ==
  ASSUME Shape, NEW d \in Words, NEW t \in Words, Begins(mem, d, bufsize, bi),
         Fits(bufsize - bi, t), Strftime(t), UNCHANGED bufsize
  PROVE  /\ mem' \in Cells /\ Printed(d \o t)' /\ bi' = bi + Len(t)
         /\ Inside => Inside'
  <1>1. bi \in Nat
    BY SizeType, LenProperties DEF Begins, Upto, Words
  <1>2. Len(t) \in Nat /\ Len(t) < bufsize - bi /\ bufsize \in Nat
    BY SizeType, LenProperties DEF Fits, Words
  <1>3. NiceLen(bufsize - bi, t) = Len(t)
    BY <1>1, <1>2 DEF NiceLen
  <1>4. Write(t)
    BY <1>3 DEF Strftime, Write
  <1> QED BY <1>4, WriteAdds DEF Strftime

\* Every step keeps what is printed of bytes.
LEMMA PrintingStep == Shape /\ Printing /\ [Next]_vars => Printing'
  <1> SUFFICES ASSUME Shape, Printing, [Next]_vars, ~IsDate' PROVE Printing'
    BY DEF Printing
  <1>1. ~IsDate
    BY DEF IsDate, Next, Loop, LoopEnds, DatePart, FractionPart, ZonePart, vars
  <1>2. PICK d \in Words : /\ Printed(d) /\ WholeText = d \o FlattenSeq(Rest(i))
                           /\ pc = "return" => i > Len(data) \/ bi >= bufsize
    BY <1>1 DEF Printing
  <1>3. i \in 1 .. Len(data) + 1 /\ Inside /\ Len(data) \in Nat
    BY <1>1, LenProperties DEF Printing, Shape
  <1>4. CASE Loop
    <2>1. /\ i <= Len(data) /\ pc = "loop" /\ Write(Piece(data[i])) /\ i' = i + 1
          /\ UNCHANGED <<fun, bufsize, data, pc>>
      BY <1>4 DEF Loop, Piece
    <2>2. PICK t \in Words : t = Piece(data[i])
      BY <1>3, <2>1, RestShape
    <2>3. /\ i <= Len(data) /\ pc = "loop" /\ Write(t) /\ i' = i + 1
          /\ UNCHANGED <<fun, bufsize, data, pc>>
      BY <2>1, <2>2
    <2>4. FlattenSeq(Rest(i)) = t \o FlattenSeq(Rest(i + 1))
      BY <1>3, <2>3, <2>2, RestShape
    <2>5. i + 1 \in 1 .. Len(data) + 1
      BY <1>3, <2>3
    <2>6. FlattenSeq(Rest(i + 1)) \in Words
      BY <2>5, RestShape
    <2>7. d \o t \in Words /\ Printed(d \o t)' /\ Inside'
      <3>1. Begins(mem, d, bufsize, bi)
        BY <1>2, PrintedBegins
      <3>2. UNCHANGED bufsize /\ Write(t) /\ Inside
        BY <1>3, <2>3
      <3> QED BY <3>1, <3>2, WriteAdds
    <2>8. WholeText = (d \o t) \o FlattenSeq(Rest(i + 1))
      <3>1. PICK f \in Words : f = FlattenSeq(Rest(i + 1))
        BY <2>6
      <3>2. WholeText = d \o (t \o f)
        BY <1>2, <2>4, <3>1
      <3>3. d \o (t \o f) = (d \o t) \o f
        BY Associate
      <3> QED BY <3>1, <3>2, <3>3
    <2>9. WholeText' = WholeText /\ FlattenSeq(Rest(i))' = FlattenSeq(Rest(i + 1))
      BY <2>3 DEF WholeText, Rest, Piece
    <2>10. i' \in 1 .. Len(data') + 1 /\ pc' # "return"
      BY <2>3, <2>5
    <2>11. PICK e \in Words : e = d \o t
      BY <2>7
    <2>12. Printed(e)' /\ (WholeText = e \o FlattenSeq(Rest(i)))'
      BY <2>7, <2>8, <2>9, <2>11
    <2> QED BY <2>7, <2>10, <2>12 DEF Printing
  <1>5. CASE LoopEnds
    <2>1. ~(i <= Len(data) /\ bi < bufsize) /\ UNCHANGED <<fun, bufsize, data, mem, bi, i>>
      BY <1>5 DEF LoopEnds
    <2>2. i > Len(data) \/ bi >= bufsize
      <3>1. bi \in Nat /\ bufsize \in Nat
        BY <1>2, SizeType, LenProperties DEF Printed, Upto, Words
      <3> QED BY <1>3, <2>1, <3>1
    <2>3. Printed(d)' /\ (WholeText = d \o FlattenSeq(Rest(i)))' /\ Inside'
      BY <1>2, <1>3, <2>1 DEF Printed, WholeText, Rest, Piece, Inside
    <2>4. i' \in 1 .. Len(data') + 1 /\ (i' > Len(data') \/ bi' >= bufsize')
      BY <1>3, <2>1, <2>2
    <2> QED BY <2>3, <2>4 DEF Printing
  <1>6. CASE UNCHANGED vars
    <2>1. Printed(d)' /\ (WholeText = d \o FlattenSeq(Rest(i)))' /\ Inside'
      BY <1>2, <1>3, <1>6 DEF Printed, WholeText, Rest, Piece, Inside, vars
    <2>2. /\ i' \in 1 .. Len(data') + 1
          /\ pc' = "return" => i' > Len(data') \/ bi' >= bufsize'
      BY <1>2, <1>3, <1>6 DEF vars
    <2> QED BY <2>1, <2>2 DEF Printing
  <1> QED BY <1>1, <1>4, <1>5, <1>6 DEF Next, DatePart, FractionPart, ZonePart

\* The texts of a date.
LEMMA DateTexts ==
  /\ Day \in Words /\ Len(Day) = IF fun = "full date" THEN 19 ELSE 11
  /\ Later \in Words /\ Len(Later) = Len(Day) + 4
  /\ Later \o Zone \in Words
  <1>1. Day \in Words /\ Len(Day) = IF fun = "full date" THEN 19 ELSE 11
    BY Texts DEF Day
  <1>2. Later \in Words /\ Len(Later) = Len(Day) + 4
    <2>1. PICK a \in Words, b \in Words : a = Day /\ b = Fraction /\ Len(b) = 4
      BY <1>1, Texts
    <2>2. a \o b \in Words /\ Len(a \o b) = Len(a) + Len(b)
      BY ConcatProperties DEF Words
    <2> QED BY <2>1, <2>2 DEF Later
  <1>3. Later \o Zone \in Words
    BY <1>2, Texts, ConcatProperties DEF Words
  <1> QED BY <1>1, <1>2, <1>3

\* The empty text fits any buffer.
LEMMA EmptyText ==
  /\ <<>> \in Words
  /\ \A m, size : Content(m, <<>>, size) \/ ~(size \in Nat /\ size > 0)
  /\ Shape => Upto(Len(<<>>), bufsize) = 0 /\ Upto(Len(<<>>), bufsize - 1) = 0
  <1>1. <<>> \in Words
    BY EmptySeq DEF Words
  <1>2. ASSUME NEW m, NEW size \in Nat, size > 0 PROVE Content(m, <<>>, size)
    <2>1. Upto(0, size - 1) - 1 = -1
      BY <1>2 DEF Upto
    <2> QED BY <2>1, EmptyLength DEF Content
  <1>3. ASSUME Shape
        PROVE  Upto(Len(<<>>), bufsize) = 0 /\ Upto(Len(<<>>), bufsize - 1) = 0
    BY <1>3, SizeType, EmptyLength DEF Upto
  <1> QED BY <1>1, <1>2, <1>3

\* Every step keeps what is printed of a date.
LEMMA DatingStep == Shape /\ Dating /\ [Next]_vars => Dating'
  <1> SUFFICES ASSUME Shape, Dating, [Next]_vars, IsDate' PROVE Dating'
    BY DEF Dating
  <1> USE SizeType
  <1>1. IsDate
    BY DEF IsDate, Next, Loop, LoopEnds, DatePart, FractionPart, ZonePart, vars
  <1>2. PICK day \in Words, later \in Words, frac \in Words, zone \in Words :
          /\ day = Day /\ later = Later /\ frac = Fraction /\ zone = Zone
          /\ Len(day) = (IF fun = "full date" THEN 19 ELSE 11) /\ Len(later) = Len(day) + 4
          /\ Len(zone) = 5 /\ later = day \o frac
    BY DateTexts, Texts DEF Later
  <1>3. UNCHANGED fun => day = Day' /\ later = Later' /\ zone = Zone'
    BY <1>2 DEF Day, Later
  <1>4. /\ Len(day) \in Nat /\ Len(day) # 0
        /\ fun = "full date" => Len(day) = 19 /\ Len(later) = 23
    <2>1. PICK x \in {19, 11} : x = Len(day) /\ (fun = "full date" => x = 19)
      BY <1>2
    <2>2. Len(later) = x + 4
      BY <1>2, <2>1
    <2>3. x \in Nat /\ x # 0 /\ (x = 19 => x + 4 = 23)
      OBVIOUS
    <2> QED BY <2>1, <2>2, <2>3
  <1>5. CASE DatePart
    <2>1. /\ pc = "loop" /\ i = 1 /\ Strftime(day) /\ i' = 2
          /\ pc' = IF bi' = 0 THEN "return" ELSE "loop"
          /\ UNCHANGED <<fun, bufsize, data>>
      BY <1>2, <1>5 DEF DatePart, Day
    <2>2. bi = 0 /\ Inside
      BY <1>1, <2>1 DEF Dating
    <2>3. CASE Fits(bufsize - bi, day)
      <3>1. Begins(mem, <<>>, bufsize, bi)
        <4>1. bufsize \in Nat /\ bufsize > 0
          OBVIOUS
        <4>2. Content(mem, <<>>, bufsize)
          BY <4>1, EmptyText
        <4>3. Len(<<>>) = 0 /\ ~(0 >= bufsize) /\ Upto(0, bufsize) = 0
          BY <4>1, EmptyLength DEF Upto
        <4> QED BY <2>2, <4>2, <4>3 DEF Begins
      <3>2. PICK e \in Words : e = <<>>
        BY EmptyText
      <3>3. Printed(e \o day)' /\ bi' = bi + Len(day) /\ Inside'
        BY <2>1, <2>2, <2>3, <3>1, <3>2, StrftimeAdds
      <3>4. e \o day = day
        BY <3>2, ConcatEmptySeq DEF Words
      <3>5. Len(day) \in Nat /\ Len(day) # 0 /\ Len(day) < bufsize
        <4>1. Len(day) < bufsize - 0
          BY <2>2, <2>3 DEF Fits
        <4>2. Len(day) < bufsize
          <5>1. bufsize - 0 = bufsize
            OBVIOUS
          <5> QED BY <4>1, <5>1
        <4> QED BY <1>4, <4>2
      <3>6. pc' = "loop" /\ i' = 2
        BY <2>1, <2>2, <3>3, <3>5
      <3>7. Printed(Day)' /\ Len(Day') < bufsize'
        BY <1>3, <2>1, <3>3, <3>4, <3>5 DEF Printed
      <3> QED BY <3>3, <3>6, <3>7 DEF Dating
    <2>4. CASE ~Fits(bufsize - bi, day)
      <3>1. mem' = [mem EXCEPT ![0] = NUL] /\ bi' = 0
        BY <2>1, <2>2, <2>4 DEF Strftime
      <3>2. 0 \in Memory
        BY InMemory
      <3>3. mem'[0] = NUL /\ Inside'
        <4>1. mem'[0] = NUL /\ \A a \in Memory : a # 0 => mem'[a] = mem[a]
          BY <3>1, <3>2 DEF Shape, Cells
        <4>2. \A a \in Memory : a >= bufsize => a # 0
          OBVIOUS
        <4> QED BY <2>1, <2>2, <4>1, <4>2 DEF Inside
      <3>4. PICK e \in Words : e = <<>>
        BY EmptyText
      <3>5. /\ Content(mem', e, bufsize) /\ Upto(Len(e), bufsize) = 0
            /\ Upto(Len(e), bufsize - 1) = 0
        BY <3>4, EmptyText
      <3>6. Printed(e)'
        BY <2>1, <3>1, <3>3, <3>5 DEF Printed, Holds
      <3> QED BY <2>1, <3>1, <3>3, <3>4, <3>6 DEF Dating
    <2> QED BY <2>3, <2>4
  <1>6. CASE FractionPart
    <2>1. /\ pc = "loop" /\ i = 2 /\ Write(frac) /\ i' = 3
          /\ pc' = IF fun = "date" THEN "return" ELSE "loop"
          /\ UNCHANGED <<fun, bufsize, data>>
      BY <1>2, <1>6 DEF FractionPart
    <2>2. Printed(day) /\ Len(day) < bufsize /\ Inside
      <3>1. Printed(Day) /\ Len(Day) < bufsize /\ Inside
        BY <1>1, <2>1 DEF Dating
      <3> QED BY <1>2, <3>1
    <2>3. Printed(later)' /\ Inside'
      BY <1>2, <2>1, <2>2, PrintedBegins, WriteAdds
    <2>4. Printed(Later)' /\ Len(Day') < bufsize'
      BY <1>3, <2>1, <2>2, <2>3 DEF Printed
    <2> QED BY <2>1, <2>3, <2>4 DEF Dating
  <1>7. CASE ZonePart
    <2>1. /\ pc = "loop" /\ i = 3 /\ Strftime(zone) /\ i' = 4 /\ pc' = "return"
          /\ UNCHANGED <<fun, bufsize, data>>
      BY <1>2, <1>7 DEF ZonePart
    <2>2. Printed(later) /\ Len(day) < bufsize /\ Inside /\ fun # "date"
      <3>1. Printed(Later) /\ Len(Day) < bufsize /\ Inside /\ fun # "date"
        BY <1>1, <2>1 DEF Dating
      <3> QED BY <1>2, <3>1
    <2>3. fun = "full date" /\ Len(day) = 19 /\ Len(later) = 23
      <3>1. fun = "full date"
        BY <1>1, <2>2 DEF IsDate
      <3> QED BY <1>4, <3>1
    <2>4. CASE Fits(bufsize - bi, zone)
      <3>1. Printed(later \o zone)' /\ Inside'
        BY <2>1, <2>2, <2>4, PrintedBegins, StrftimeAdds
      <3>2. Printed(Later \o Zone)'
        BY <1>3, <2>1, <3>1 DEF Printed
      <3> QED BY <2>1, <2>3, <3>1, <3>2 DEF Dating, WritesStay, Inside
    <2>5. CASE ~Fits(bufsize - bi, zone)
      <3>1. mem' = [mem EXCEPT ![bi] = NUL] /\ bi' = bi
        BY <2>1, <2>5 DEF Strftime
      <3>2. bi = Upto(23, bufsize) /\ bi \in Nat /\ bi <= bufsize /\ bi \in Memory
        <4>1. bi = Upto(23, bufsize)
          BY <2>2, <2>3 DEF Printed
        <4>2. bi \in Nat /\ bi <= bufsize /\ bi <= MaxSize
          BY <4>1 DEF Upto
        <4> QED BY <4>1, <4>2, InMemory
      <3>3. /\ mem'[bi] = NUL
            /\ \A a \in Memory : a # bi => mem'[a] = mem[a]
        BY <3>1, <3>2 DEF Shape, Cells
      <3>4. PICK n \in Nat : n = Upto(23, bufsize - 1) /\ n <= bi
        <4>1. Upto(23, bufsize - 1) \in Nat /\ Upto(23, bufsize - 1) <= Upto(23, bufsize)
          BY DEF Upto
        <4> QED BY <3>2, <4>1
      <3>5. n \in Memory /\ mem[n] = NUL /\ \A a \in 0 .. n - 1 : mem[a] = later[a + 1]
        <4>1. n <= MaxSize
          BY <3>2, <3>4
        <4>2. n \in Memory
          BY <4>1, InMemory
        <4> QED BY <2>2, <2>3, <3>4, <4>2 DEF Printed, Holds, Content
      <3>6. mem'[n] = NUL /\ \A a \in 0 .. n - 1 : mem'[a] = later[a + 1]
        <4>1. ASSUME NEW a \in 0 .. n - 1 PROVE a \in Memory /\ a # bi
          <5>1. a \in Nat /\ a <= MaxSize /\ a # bi
            BY <3>2, <3>4
          <5> QED BY <5>1, InMemory
        <4> QED BY <3>3, <3>5, <4>1
      <3>7. Printed(later)'
        BY <2>1, <2>3, <3>1, <3>2, <3>4, <3>6 DEF Printed, Holds, Content
      <3>8. Printed(Later)'
        BY <1>3, <2>1, <3>7 DEF Printed
      <3>9. WritesStay'
        <4> SUFFICES ASSUME NEW a \in Memory, a >= bufsize, mem'[a] # Untouched
                     PROVE  a = bufsize /\ bufsize \in 20 .. 23
          BY <2>1, <2>3 DEF WritesStay
        <4>1. a = bi
          BY <2>2, <3>3 DEF Inside
        <4>2. bi = bufsize
          BY <3>2, <4>1
        <4>3. bufsize <= 23
          BY <3>2, <4>2 DEF Upto
        <4>4. bufsize > 19
          BY <2>2, <2>3
        <4>5. bufsize \in 20 .. 23
          BY <4>3, <4>4
        <4> QED BY <4>1, <4>2, <4>5
      <3> QED BY <2>1, <2>3, <3>8, <3>9 DEF Dating
    <2> QED BY <2>4, <2>5
  <1>8. CASE UNCHANGED vars
    <2>1. UNCHANGED <<fun, bufsize, mem, bi, i, pc>>
      BY <1>8 DEF vars
    <2> QED BY <1>1, <2>1 DEF Dating, Printed, Inside, WritesStay, Day, Later
  <1> QED BY <1>1, <1>5, <1>6, <1>7, <1>8 DEF Next, Loop, LoopEnds
-----------------------------------------------------------------------------
(* The inductive invariant.                                                 *)

\* An empty buffer can be written to.
LEMMA NothingBegins == Shape /\ bi = 0 => <<>> \in Words /\ Begins(mem, <<>>, bufsize, bi)
  <1> SUFFICES ASSUME Shape, bi = 0
               PROVE  <<>> \in Words /\ Begins(mem, <<>>, bufsize, bi)
    OBVIOUS
  <1>1. bufsize \in Nat /\ bufsize > 0
    BY SizeType
  <1>2. <<>> \in Words /\ Content(mem, <<>>, bufsize) /\ Upto(Len(<<>>), bufsize) = 0
    BY <1>1, EmptyText
  <1>3. ~(Len(<<>>) >= bufsize)
    BY <1>1, EmptyLength
  <1> QED BY <1>2, <1>3 DEF Begins

\* A call of strftime writes characters.
LEMMA StrftimeType ==
  ASSUME Shape, NEW d \in Words, NEW t \in Words, Begins(mem, d, bufsize, bi),
         Strftime(t), UNCHANGED bufsize
  PROVE  mem' \in Cells
  <1>1. CASE Fits(bufsize - bi, t)
    BY <1>1, StrftimeAdds
  <1>2. CASE ~Fits(bufsize - bi, t)
    <2>1. mem' = [mem EXCEPT ![bi] = NUL] /\ NUL \in Cell
      BY <1>2 DEF Strftime, Cell
    <2> QED BY <2>1 DEF Shape, Cells
  <1> QED BY <1>1, <1>2

\* Every step keeps the shape of the state.
LEMMA ShapeStep == Shape /\ Printing /\ Dating /\ [Next]_vars => Shape'
  <1> SUFFICES ASSUME Shape, Printing, Dating, [Next]_vars
               PROVE  mem' \in Cells /\ i' \in Nat
    BY DEF Shape, Next, Loop, LoopEnds, DatePart, FractionPart, ZonePart, vars
  <1>1. CASE Loop
    <2>1. /\ i <= Len(data) /\ Write(Piece(data[i])) /\ i' = i + 1 /\ UNCHANGED bufsize
          /\ ~IsDate
      BY <1>1 DEF Loop, Piece
    <2>2. PICK d \in Words : Printed(d) /\ i \in 1 .. Len(data) + 1
      BY <2>1 DEF Printing
    <2>3. PICK t \in Words : t = Piece(data[i])
      BY <2>1, <2>2, RestShape
    <2>4. mem' \in Cells
      BY <2>1, <2>2, <2>3, PrintedBegins, WriteAdds
    <2>5. i' \in Nat
      <3>1. i \in Nat
        BY DEF Shape
      <3> QED BY <2>1, <3>1
    <2> QED BY <2>4, <2>5
  <1>2. CASE LoopEnds
    BY <1>2 DEF LoopEnds, Shape
  <1>3. CASE DatePart
    <2>1. PICK t \in Words : t = DayAndTime(fun = "full date")
      BY Texts
    <2>2. pc = "loop" /\ i = 1 /\ Strftime(t) /\ i' = 2 /\ IsDate /\ UNCHANGED bufsize
      BY <1>3, <2>1 DEF DatePart
    <2>3. bi = 0
      BY <2>2 DEF Dating
    <2>4. PICK e \in Words : Begins(mem, e, bufsize, bi)
      BY <2>3, NothingBegins
    <2> QED BY <2>2, <2>4, StrftimeType
  <1>4. CASE FractionPart
    <2>1. PICK t \in Words : t = Fraction
      BY Texts
    <2>2. pc = "loop" /\ i = 2 /\ Write(t) /\ i' = 3 /\ IsDate /\ UNCHANGED bufsize
      BY <1>4, <2>1 DEF FractionPart
    <2>3. Printed(Day)
      BY <2>2 DEF Dating
    <2>4. PICK d \in Words : Printed(d)
      BY <2>3, DateTexts
    <2> QED BY <2>2, <2>4, PrintedBegins, WriteAdds
  <1>5. CASE ZonePart
    <2>1. PICK t \in Words : t = Zone
      BY Texts
    <2>2. pc = "loop" /\ i = 3 /\ Strftime(t) /\ i' = 4 /\ IsDate /\ UNCHANGED bufsize
      BY <1>5, <2>1 DEF ZonePart
    <2>3. Printed(Later)
      BY <2>2 DEF Dating
    <2>4. PICK d \in Words : Printed(d)
      BY <2>3, DateTexts
    <2> QED BY <2>2, <2>4, PrintedBegins, StrftimeType
  <1>6. CASE UNCHANGED vars
    BY <1>6 DEF vars, Shape
  <1> QED BY <1>1, <1>2, <1>3, <1>4, <1>5, <1>6 DEF Next

\* The whole text is that of all the bytes, or of all the parts of a date.
LEMMA WholeTextIs ==
  ASSUME Shape
  PROVE  /\ ~IsDate => WholeText = FlattenSeq(Rest(1))
         /\ fun = "date" => WholeText = Later
         /\ fun = "full date" => WholeText = Later \o Zone
  <1>1. ASSUME ~IsDate PROVE WholeText = FlattenSeq(Rest(1))
    <2>1. DOMAIN data = 1 .. Len(data) /\ Len(data) \in Nat
      BY LenProperties DEF Shape
    <2>2. Len(data) + 1 - 1 = Len(data) /\ \A k \in 1 .. Len(data) : k + 1 - 1 = k
      BY <2>1
    <2>3. Rest(1) = [k \in DOMAIN data |-> Piece(data[k])]
      BY <2>1, <2>2 DEF Rest
    <2>4. fun \in {"hex", "printable"}
      BY <1>1 DEF Shape, IsDate
    <2>5. CASE fun = "hex"
      BY <2>3, <2>5 DEF WholeText, Piece
    <2>6. CASE fun = "printable"
      BY <2>3, <2>6 DEF WholeText, Piece
    <2> QED BY <2>4, <2>5, <2>6
  <1>2. ASSUME fun = "date" PROVE WholeText = Later
    BY <1>2 DEF WholeText, Later, Day
  <1>3. ASSUME fun = "full date" PROVE WholeText = Later \o Zone
    BY <1>3 DEF WholeText, Later, Day
  <1> QED BY <1>1, <1>2, <1>3

UtilsInv == Shape /\ Printing /\ Dating

\* It holds of a buffer that nothing was written to, but for its first NUL.
LEMMA UtilsInit == Init => UtilsInv
  <1> SUFFICES ASSUME Init PROVE UtilsInv
    OBVIOUS
  <1>1. Shape
    <2>1. data \in Seq(Bytes)
      <3>1. PICK n \in 0 .. MaxData : data \in [1 .. n -> Bytes]
        BY DEF Init
      <3>2. n \in Nat
        BY <3>1, UtilsAssumption
      <3> QED BY <3>1, <3>2
    <2>2. mem \in Cells
      BY DEF Init, Cells, Cell
    <2> QED BY <2>1, <2>2 DEF Init, Shape
  <1>2. bi = 0 /\ i = 1 /\ pc = "loop"
    BY DEF Init
  <1>3. Inside
    <2> SUFFICES ASSUME NEW a \in Memory, a >= bufsize PROVE mem[a] = Untouched
      BY DEF Inside
    <2>1. a # 0
      BY <1>1, SizeType
    <2> QED BY <2>1 DEF Init
  <1>4. Dating
    BY <1>2, <1>3 DEF Dating
  <1>5. ASSUME ~IsDate PROVE Printing
    <2>1. mem[0] = NUL
      <3>1. 0 \in Memory
        BY InMemory
      <3> QED BY <1>5, <3>1 DEF Init
    <2>2. PICK d \in Words : d = <<>>
      BY EmptyText
    <2>3. Printed(d)
      <3>1. bufsize \in Nat /\ bufsize > 0
        BY <1>1, SizeType
      <3>2. Content(mem, d, bufsize) /\ Upto(Len(d), bufsize) = 0 /\ Upto(Len(d), bufsize - 1) = 0
        BY <1>1, <2>2, <3>1, EmptyText
      <3> QED BY <1>2, <2>1, <3>2 DEF Printed, Holds
    <2>4. 1 \in 1 .. Len(data) + 1
      <3>1. PICK n \in Nat : n = Len(data)
        BY <1>1, LenProperties DEF Shape
      <3> QED BY <3>1
    <2>5. PICK w \in Words : w = FlattenSeq(Rest(1))
      BY <1>1, <2>4, RestShape
    <2>6. WholeText = d \o w
      <3>1. d \o w = w
        BY <2>2, ConcatEmptySeq DEF Words
      <3> QED BY <1>1, <1>5, <2>5, <3>1, WholeTextIs
    <2> QED BY <1>2, <1>3, <2>3, <2>4, <2>5, <2>6 DEF Printing
  <1> QED BY <1>1, <1>4, <1>5 DEF UtilsInv, Printing

\* Every step keeps it.
LEMMA UtilsStep == UtilsInv /\ [Next]_vars => UtilsInv'
  BY ShapeStep, PrintingStep, DatingStep DEF UtilsInv

LEMMA UtilsInvariant == Spec => []UtilsInv
  <1>1. Init => UtilsInv
    BY UtilsInit
  <1>2. UtilsInv /\ [Next]_vars => UtilsInv'
    BY UtilsStep
  <1> QED BY <1>1, <1>2, PTL DEF Spec
-----------------------------------------------------------------------------
(* The properties.                                                          *)

\* The count is that of the characters that fit, so never more than the size.
LEMMA CountFits ==
  ASSUME Shape, NEW d \in Words, Printed(d)
  PROVE  bi \in 0 .. bufsize
  <1>1. PICK x \in Nat : x = Len(d)
    BY LenProperties DEF Words
  <1>2. bi = Upto(x, bufsize) /\ bufsize \in Nat
    BY <1>1, SizeType DEF Printed
  <1> QED BY <1>2 DEF Upto

\* A date that is done is a beginning of the whole date.
LEMMA DateDone ==
  ASSUME UtilsInv, IsDate, pc = "return"
  PROVE  \E d, e \in Words : Printed(d) /\ (WholeText = d \/ WholeText = d \o e)
  <1>1. Shape /\ fun \in {"date", "full date"}
    BY DEF UtilsInv, IsDate
  <1>2. PICK w \in Words : w = WholeText
    BY <1>1, WholeTextIs, DateTexts
  <1>3. CASE Printed(<<>>)
    <2>1. PICK d \in Words : d = <<>>
      BY EmptyText
    <2>2. d \o w = w
      BY <2>1, ConcatEmptySeq DEF Words
    <2> QED BY <1>2, <1>3, <2>1, <2>2
  <1>4. CASE Printed(Later) /\ fun = "date"
    BY <1>1, <1>4, WholeTextIs, DateTexts
  <1>5. CASE Printed(Later) /\ fun = "full date"
    BY <1>1, <1>5, WholeTextIs, DateTexts, Texts
  <1>6. CASE Printed(Later \o Zone) /\ fun = "full date"
    BY <1>1, <1>6, WholeTextIs, DateTexts
  <1>7. \/ Printed(<<>>)
        \/ Printed(Later)
        \/ Printed(Later \o Zone) /\ fun = "full date"
    BY DEF UtilsInv, Dating
  <1> QED BY <1>1, <1>3, <1>4, <1>5, <1>6, <1>7

\* The functions are called and return as they should, and the space that is left for the
\* next call is never negative (snprintf_hex, snprintf_printable and snprintf_date, which
\* subtract what was printed from the size of the buffer).
THEOREM TypeCorrect == Spec => []TypeOK
  <1>1. ASSUME UtilsInv PROVE TypeOK
    <2>1. Shape /\ pc \in {"loop", "return"} /\ i \in Nat
      BY <1>1 DEF UtilsInv, Shape
    <2>2. bi = 0 \/ \E d \in Words : Printed(d)
      <3>1. CASE IsDate
        <4>1. bi = 0 \/ Printed(<<>>) \/ Printed(Day) \/ Printed(Later) \/ Printed(Later \o Zone)
          BY <1>1, <3>1 DEF UtilsInv, Dating
        <4> QED BY <4>1, DateTexts, EmptyText
      <3>2. CASE ~IsDate
        BY <1>1, <3>2 DEF UtilsInv, Printing
      <3> QED BY <3>1, <3>2
    <2>3. bi \in 0 .. bufsize
      <3>1. bi = 0 => bi \in 0 .. bufsize
        BY <2>1, SizeType
      <3> QED BY <2>1, <2>2, <3>1, CountFits
    <2> QED BY <2>1, <2>3 DEF TypeOK
  <1> QED BY <1>1, UtilsInvariant, PTL

\* Nothing is written beyond the buffer, whatever its size and the data, but for the one
\* byte of a whole date that TLC found (snprintf_date's last strftime).
THEOREM NothingBeyond == Spec => []WritesStay
  <1>1. ASSUME UtilsInv PROVE WritesStay
    <2>1. Inside => WritesStay
      BY DEF Inside, WritesStay
    <2>2. CASE IsDate
      BY <1>1, <2>1, <2>2 DEF UtilsInv, Dating
    <2>3. CASE ~IsDate
      BY <1>1, <2>1, <2>3 DEF UtilsInv, Printing
    <2> QED BY <2>2, <2>3
  <1> QED BY <1>1, UtilsInvariant, PTL

\* The bytes printed are the longest beginning of their text that fits, for data of any
\* length (snprintf_hex and snprintf_printable, whose escapes may be cut).
THEOREM BeginningPrinted == Spec => []PrintsWhatFits
  <1>1. ASSUME UtilsInv, pc = "return", ~IsDate
        PROVE  /\ String = SubSeq(WholeText, 1, Upto(Len(WholeText), bufsize - 1))
               /\ bi = Upto(Len(WholeText), bufsize)
    <2>1. Shape /\ bufsize \in Nat /\ bufsize > 0
      BY <1>1, SizeType DEF UtilsInv
    <2>2. /\ i \in 1 .. Len(data) + 1
          /\ \E d \in Words : /\ Printed(d) /\ WholeText = d \o FlattenSeq(Rest(i))
                              /\ i > Len(data) \/ bi >= bufsize
      BY <1>1 DEF UtilsInv, Printing
    <2>3. PICK e \in Words : /\ e = FlattenSeq(Rest(i))
                             /\ i = Len(data) + 1 => e = <<>>
      BY <2>1, <2>2, RestShape
    <2>4. PICK d \in Words : /\ Printed(d) /\ WholeText = d \o FlattenSeq(Rest(i))
                             /\ i > Len(data) \/ bi >= bufsize
      BY <2>2
    <2>5. Printed(d) /\ WholeText = d \o e /\ (i > Len(data) \/ bi >= bufsize)
      BY <2>3, <2>4
    <2>6. PICK x \in Nat, y \in Nat : x = Len(d) /\ y = Len(e)
      BY LenProperties DEF Words
    <2>7. PICK n \in Nat : n = Upto(x, bufsize - 1) /\ n <= x
      <3>1. Upto(x, bufsize - 1) \in Nat /\ Upto(x, bufsize - 1) <= x
        BY <2>1 DEF Upto
      <3> QED BY <3>1
    <2>8. String = SubSeq(d, 1, n) /\ bi = Upto(x, bufsize)
      BY <2>1, <2>5, <2>6, <2>7, StringIs DEF Printed
    <2>9. CASE i > Len(data)
      <3>1. i = Len(data) + 1
        <4>1. PICK l \in Nat : l = Len(data)
          BY <2>1, LenProperties DEF Shape
        <4> QED BY <2>2, <2>9, <4>1
      <3>2. WholeText = d
        BY <2>3, <2>5, <3>1, ConcatEmptySeq DEF Words
      <3> QED BY <2>6, <2>7, <2>8, <3>2
    <2>10. CASE bi >= bufsize
      <3>1. x >= bufsize
        BY <2>1, <2>8, <2>10 DEF Upto
      <3>2. Len(d \o e) = x + y
        BY <2>6, ConcatProperties DEF Words
      <3>3. Upto(x + y, bufsize - 1) = n /\ Upto(x + y, bufsize) = bi
        BY <2>1, <2>7, <2>8, <3>1 DEF Upto
      <3>4. SubSeq(d \o e, 1, n) = SubSeq(d, 1, n)
        BY <2>6, <2>7, SameBeginning
      <3> QED BY <2>5, <2>8, <3>2, <3>3, <3>4
    <2> QED BY <2>5, <2>9, <2>10
  <1>2. UtilsInv => PrintsWhatFits
    BY <1>1 DEF PrintsWhatFits
  <1> QED BY <1>2, UtilsInvariant, PTL

\* A date is a beginning of the whole date, and ends in a NUL, for any size of the buffer
\* (snprintf_date, also when strftime fails).
THEOREM DateBegins == Spec => []DateIsPrefix
  <1>1. ASSUME UtilsInv, pc = "return", IsDate
        PROVE  /\ \E n \in Memory : mem[n] = NUL
               /\ IsPrefix(String, WholeText) /\ bi - StrLen \in {0, 1}
    <2>1. Shape /\ bufsize \in Nat /\ bufsize > 0
      BY <1>1, SizeType DEF UtilsInv
    <2>2. PICK d \in Words, e \in Words : /\ Printed(d)
                                          /\ WholeText = d \/ WholeText = d \o e
      BY <1>1, DateDone
    <2>3. PICK x \in Nat, y \in Nat : x = Len(d) /\ y = Len(e)
      BY LenProperties DEF Words
    <2>4. PICK n \in Nat : n = Upto(x, bufsize - 1) /\ n <= x
      <3>1. Upto(x, bufsize - 1) \in Nat /\ Upto(x, bufsize - 1) <= x
        BY <2>1 DEF Upto
      <3> QED BY <3>1
    <2>5. /\ n \in Memory /\ mem[n] = NUL /\ StrLen = n
          /\ String = SubSeq(d, 1, n) /\ bi = Upto(x, bufsize)
      BY <2>1, <2>2, <2>3, <2>4, StringIs DEF Printed
    <2>6. bi - n \in {0, 1}
      BY <2>1, <2>4, <2>5 DEF Upto
    <2>7. PICK w \in Words : /\ w = WholeText /\ n <= Len(w)
                             /\ SubSeq(w, 1, n) = SubSeq(d, 1, n)
      <3>1. CASE WholeText = d
        BY <2>3, <2>4, <3>1
      <3>2. CASE WholeText = d \o e
        <4>1. d \o e \in Words /\ Len(d \o e) = x + y
          BY <2>3, ConcatProperties DEF Words
        <4>2. n <= x + y
          BY <2>4
        <4>3. SubSeq(d \o e, 1, n) = SubSeq(d, 1, n)
          BY <2>3, <2>4, SameBeginning
        <4> QED BY <3>2, <4>1, <4>2, <4>3
      <3> QED BY <2>2, <3>1, <3>2
    <2>8. PICK s \in Words : s = SubSeq(d, 1, n) /\ Len(s) = n /\ SubSeq(s, 1, n) = s
      <3>1. n <= Len(d)
        BY <2>3, <2>4
      <3>2. /\ SubSeq(d, 1, n) \in Words /\ Len(SubSeq(d, 1, n)) = n
            /\ SubSeq(SubSeq(d, 1, n), 1, n) = SubSeq(d, 1, n)
        BY <3>1, SameBeginning
      <3> QED BY <3>2
    <2>9. IsPrefix(s, w)
      BY <2>7, <2>8 DEF IsPrefix
    <2> QED BY <2>5, <2>6, <2>7, <2>8, <2>9
  <1>2. UtilsInv => DateIsPrefix
    BY <1>1 DEF DateIsPrefix
  <1> QED BY <1>2, UtilsInvariant, PTL
=============================================================================
