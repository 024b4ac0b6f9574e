---------------------------- MODULE MCSgpExample ----------------------------
(* Command lines for TLC.                                                    *)
EXTENDS SgpExample

CONSTANT fifo1     \* a fifo

Fifo      == [option |-> "fifo", value |-> fifo1]
Cnt(o, n) == [option |-> o, value |-> n]

\* The defaults; counts of zero and below; nothing to send; no fifo; no number,
\* before and after a help; an option nobody knows.
MCCommandLines ==
  { <<Fifo>>,
    <<Cnt("cnt1", 0), Fifo, Cnt("cnt2", 1), Cnt("cnt3", -1), Cnt("cnt4", 2)>>,
    <<Fifo, Cnt("cnt1", 0), Cnt("cnt2", 0), Cnt("cnt3", 0), Cnt("cnt4", 0)>>,
    <<Cnt("cnt2", 1), Cnt("cnt3", 0), Cnt("cnt4", 0)>>,
    <<Cnt("cnt1", Junk), [option |-> "help", value |-> None]>>,
    <<[option |-> "help", value |-> None], Cnt("cnt1", Junk)>>,
    <<Fifo, [option |-> "unknown", value |-> None]>> }
=============================================================================
