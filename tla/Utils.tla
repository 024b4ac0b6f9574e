-------------------------------- MODULE Utils --------------------------------
(***************************************************************************)
(* The printing functions of utils.cc, which write into a caller's buffer, *)
(* and the conversions of utils.h.                                         *)
(*                                                                         *)
(* mem is the memory from the buffer's start on, some of it beyond its     *)
(* end.  A character is a model of no text in particular: a byte prints as *)
(* two hexadecimal digits, as itself, or as an escape of four characters;  *)
(* a date has a day and time, a fraction of a second, and a time zone.     *)
(***************************************************************************)
EXTENDS Integers, Sequences

LOCAL INSTANCE SequencesExt

CONSTANTS
  MaxSize,      \* bound: a buffer's size
  Sizes,        \* buffer sizes
  MaxData,      \* bound: bytes to print
  NUL, Untouched

\* Memory that is looked at: the largest buffer, and more than a date beyond it.
Memory == 0 .. MaxSize + 31

Bytes == {"print", "control"}      \* isprint() or not

\* A character of a text; none is the one that ends it.
Chars == (Bytes \cup {"day", "fraction", "zone"}) \X Nat

ASSUME UtilsAssumption == /\ MaxSize \in Nat /\ Sizes \subseteq 1 .. MaxSize /\ MaxData \in Nat
                          /\ NUL # Untouched /\ NUL \notin Chars

\* The texts of the format strings.
Text(kind, n) == [i \in 1 .. n |-> <<kind, i>>]
Hex(b)        == Text(b, 2)
Printable(b)  == IF b = "print" THEN Text(b, 1) ELSE Text(b, 4)
DayAndTime(full) == Text("day", IF full THEN 19 ELSE 11)
Fraction         == Text("fraction", 4)
Zone             == Text("zone", 5)

-----------------------------------------------------------------------------
(* The C library, and nice_snprintf.                                        *)

Upto(n, m) == IF n < m THEN n ELSE m

\* vsnprintf: what fits before a NUL, nothing without any room.
Put(m, at, size, text) ==
  LET n == Upto(Len(text), size - 1) IN
  [a \in Memory |-> CASE size > 0 /\ a \in at .. at + n - 1 -> text[a - at + 1]
                      [] size > 0 /\ a = at + n             -> NUL
                      [] OTHER                              -> m[a]]

\* strftime: all or nothing; it answers 0 for a text that does not fit.
Fits(size, text) == Len(text) < size

\* Variant: what snprintf() would have printed.
VanillaLen(size, text) == Len(text)

\* nice_snprintf's answer.
NiceLen(size, text) == IF Len(text) > size THEN size ELSE Len(text)

-----------------------------------------------------------------------------
VARIABLES
  fun,      \* the function: "hex", "printable", "date" or "full date"
  bufsize,
  data,     \* the bytes to print
  mem,
  bi,       \* the count of characters so far
  i,        \* the loop's index, or the part of the date
  pc        \* "loop" or "return"

vars == <<fun, bufsize, data, mem, bi, i, pc>>

IsDate == fun \in {"date", "full date"}

\* buf[0] = '\0' comes first, for "we always return something valid".
Init ==
  /\ fun \in {"hex", "printable", "date", "full date"}
  /\ bufsize \in Sizes
  /\ data \in UNION {[1 .. n -> Bytes] : n \in 0 .. MaxData}
  /\ IsDate => data = <<>>
  /\ mem = [a \in Memory |-> IF a = 0 /\ ~IsDate THEN NUL ELSE Untouched]
  /\ bi = 0 /\ i = 1 /\ pc = "loop"

\* buf+bi, and bufsize-bi.
Write(text) == /\ mem' = Put(mem, bi, bufsize - bi, text)
               /\ bi' = bi + NiceLen(bufsize - bi, text)

\* Variant: the offset in the buffer is forgotten in the space that is left.
LoopKeepsSize ==
  /\ pc = "loop" /\ ~IsDate /\ i <= Len(data) /\ bi < bufsize
  /\ LET text == IF fun = "hex" THEN Hex(data[i]) ELSE Printable(data[i]) IN
     mem' = Put(mem, bi, bufsize, text) /\ bi' = bi + NiceLen(bufsize, text)
  /\ i' = i + 1
  /\ UNCHANGED <<fun, bufsize, data, pc>>

\* A round of the loop of snprintf_hex or snprintf_printable.
Loop ==
  /\ pc = "loop" /\ ~IsDate /\ i <= Len(data) /\ bi < bufsize
  /\ Write(IF fun = "hex" THEN Hex(data[i]) ELSE Printable(data[i]))
  /\ i' = i + 1
  /\ UNCHANGED <<fun, bufsize, data, pc>>

LoopEnds ==
  /\ pc = "loop" /\ ~IsDate /\ ~(i <= Len(data) /\ bi < bufsize)
  /\ pc' = "return"
  /\ UNCHANGED <<fun, bufsize, data, mem, bi, i>>

\* Variant: its result is not looked at.
StrftimeUnchecked(text) ==
  /\ mem' = IF Fits(bufsize - bi, text) THEN Put(mem, bi, bufsize - bi, text) ELSE mem
  /\ bi' = bi + Len(text)

\* A call of strftime for the next part of the date; what a failed one leaves in
\* the buffer is undefined, and a NUL is put at its start.
Strftime(text) ==
  IF Fits(bufsize - bi, text)
  THEN mem' = Put(mem, bi, bufsize - bi, text) /\ bi' = bi + Len(text)
  ELSE mem' = [mem EXCEPT ![bi] = NUL] /\ bi' = bi

DatePart ==
  /\ pc = "loop" /\ IsDate /\ i = 1
  /\ Strftime(DayAndTime(fun = "full date"))
  /\ i' = 2 /\ pc' = IF bi' = 0 THEN "return" ELSE "loop"
  /\ UNCHANGED <<fun, bufsize, data>>

FractionPart ==
  /\ pc = "loop" /\ IsDate /\ i = 2
  /\ Write(Fraction)
  /\ i' = 3 /\ pc' = IF fun = "date" THEN "return" ELSE "loop"
  /\ UNCHANGED <<fun, bufsize, data>>

ZonePart ==
  /\ pc = "loop" /\ IsDate /\ i = 3
  /\ Strftime(Zone)
  /\ i' = 4 /\ pc' = "return"
  /\ UNCHANGED <<fun, bufsize, data>>

Next == Loop \/ LoopEnds \/ DatePart \/ FractionPart \/ ZonePart

Spec == Init /\ [][Next]_vars

-----------------------------------------------------------------------------
(* The conversions of utils.h.                                              *)

kUsecsPerSec == 1000000

timeval_to_usecs(tv) == tv.tv_sec * kUsecsPerSec + tv.tv_usec

\* C's division: the quotient is cut off, the remainder has the dividend's sign.
usecs_to_timeval(usecs) ==
  IF usecs >= 0
  THEN [tv_sec |-> usecs \div kUsecsPerSec, tv_usec |-> usecs % kUsecsPerSec]
  ELSE [tv_sec |-> -((-usecs) \div kUsecsPerSec), tv_usec |-> -((-usecs) % kUsecsPerSec)]

-----------------------------------------------------------------------------
(* Properties.                                                              *)

\* What would be printed with all the room in the world.
WholeText ==
  CASE fun = "hex"       -> FlattenSeq([k \in DOMAIN data |-> Hex(data[k])])
    [] fun = "printable" -> FlattenSeq([k \in DOMAIN data |-> Printable(data[k])])
    [] fun = "date"      -> DayAndTime(FALSE) \o Fraction
    [] fun = "full date" -> DayAndTime(TRUE) \o Fraction \o Zone

\* The string in the buffer, up to its first NUL.
StrLen == CHOOSE n \in Memory : mem[n] = NUL /\ \A a \in 0 .. n - 1 : mem[a] # NUL
String == [k \in 1 .. StrLen |-> mem[k - 1]]

\* The shape of the state; the count never exceeds the buffer's size, so that the
\* space handed to the next call is never negative.
TypeOK ==
  /\ pc \in {"loop", "return"} /\ i \in Nat
  /\ bi \in 0 .. bufsize

\* Nothing is written beyond the buffer, but for one byte in one case: the NUL a
\* whole date ends with when its fraction of a second has filled the buffer, which
\* takes a size of 20 to 23 (snprintf_date, the last strftime; gep_log uses 64).
WritesStay ==
  \A a \in Memory : a >= bufsize /\ mem[a] # Untouched =>
    a = bufsize /\ fun = "full date" /\ bufsize \in 20 .. 23

\* snprintf_hex and snprintf_printable leave the longest beginning of the text that
\* fits, an escape being cut where the buffer ends, and answer the length of the
\* text or else the buffer's size, which is one more than what was printed.
PrintsWhatFits ==
  pc = "return" /\ ~IsDate =>
    /\ String = SubSeq(WholeText, 1, Upto(Len(WholeText), bufsize - 1))
    /\ bi = Upto(Len(WholeText), bufsize)

\* A date is a beginning of the whole date, and "something valid" also when
\* strftime fails; the answer is its length, or one more when the fraction was cut.
DateIsPrefix ==
  pc = "return" /\ IsDate =>
    /\ \E n \in Memory : mem[n] = NUL
    /\ IsPrefix(String, WholeText) /\ bi - StrLen \in {0, 1}
=============================================================================
