------------------------------- MODULE FullSend -------------------------------
(***************************************************************************)
(* SocketInterface::FullSend: sends a buffer with non-blocking send()s,    *)
(* waiting in select() for room, until everything is sent or a timeout is  *)
(* hit.  The monotonic clock runs in ticks, several to the millisecond,    *)
(* because FullSend measures in whole milliseconds from a start rounded    *)
(* down (TimeManager::ms_elapse).  Time passes between any two statements. *)
(***************************************************************************)
EXTENDS Integers

CONSTANTS
  Size,         \* bytes to send
  Timeout,      \* timeout_ms
  TicksPerMs,
  MaxNow        \* bound: the clock stops here, past every deadline

ASSUME FullSendAssumption == /\ Size \in Nat \ {0}
                             /\ Timeout \in Nat
                             /\ TicksPerMs \in Nat \ {0}
                             /\ MaxNow \in Nat
                             /\ MaxNow > (Timeout + 2) * TicksPerMs

VARIABLES
  now,          \* the clock, in ticks
  pc,
  total_sent,
  started_ms,
  wake,         \* when select() times out
  result,
  entered,      \* history: the clock at the call
  blocked,      \* history: some send() found no room
  late          \* history: send() calls made after the deadline

local == <<pc, total_sent, started_ms, wake, result>>
hist  == <<entered, blocked, late>>
vars  == <<now, local, hist>>

Init ==
  /\ now \in 0 .. TicksPerMs - 1
  /\ pc = "call"
  /\ total_sent = 0 /\ started_ms = 0 /\ wake = 0 /\ result = 0
  /\ entered = now /\ blocked = FALSE /\ late = 0

\* ms_elapse(started_ms)
Elapsed == (now - started_ms * TicksPerMs) \div TicksPerMs

TimedOut == Timeout < Elapsed

Return(r) == pc' = "done" /\ result' = r

\* ms_elapse(0), and into the loop.
Enter ==
  /\ pc = "call"
  /\ started_ms' = now \div TicksPerMs
  /\ entered' = now
  /\ pc' = "send"
  /\ UNCHANGED <<now, total_sent, wake, result, blocked, late>>

CountLate == late' = IF TimedOut THEN late + 1 ELSE late

\* Variant: the size of the last piece is answered.
SendSomeLast ==
  /\ pc = "send"
  /\ \E n \in 1 .. Size - total_sent :
       /\ total_sent' = total_sent + n
       /\ IF total_sent + n >= Size
          THEN Return(n)
          ELSE pc' = "check" /\ UNCHANGED result
  /\ CountLate
  /\ UNCHANGED <<now, started_ms, wake, entered, blocked>>

\* send() takes n bytes.
SendSome ==
  /\ pc = "send"
  /\ \E n \in 1 .. Size - total_sent :
       /\ total_sent' = total_sent + n
       /\ IF total_sent + n >= Size
          THEN Return(total_sent + n)
          ELSE pc' = "check" /\ UNCHANGED result
  /\ CountLate
  /\ UNCHANGED <<now, started_ms, wake, entered, blocked>>

\* EAGAIN or EWOULDBLOCK.
SendBlocks ==
  /\ pc = "send"
  /\ pc' = "sleep" /\ blocked' = TRUE
  /\ CountLate
  /\ UNCHANGED <<now, total_sent, started_ms, wake, result, entered>>

\* Variant: a shutdown is answered like a timeout.
SendFailsAlike ==
  /\ pc = "send"
  /\ \E r \in {0, -1} : Return(r)
  /\ CountLate
  /\ UNCHANGED <<now, total_sent, started_ms, wake, entered, blocked>>

\* The peer has shut the connection down (-2), or send() fails (-1).
SendFails ==
  /\ pc = "send"
  /\ \E r \in {-2, -1} : Return(r)
  /\ CountLate
  /\ UNCHANGED <<now, total_sent, started_ms, wake, entered, blocked>>

\* Variant: the clock is not looked at while the peer takes data.
CheckNothing ==
  /\ pc = "check"
  /\ pc' = "send"
  /\ UNCHANGED <<now, total_sent, started_ms, wake, result, hist>>

\* After a partial send.
CheckTime ==
  /\ pc = "check"
  /\ IF TimedOut THEN Return(0) ELSE pc' = "send" /\ UNCHANGED result
  /\ UNCHANGED <<now, total_sent, started_ms, wake, hist>>

\* Variant: select() is given what is left of a timeout one millisecond shorter.
SleepTimeShort == Timeout - 1 - Elapsed

\* Variant: every select() is given the whole timeout.
SleepTimeWhole == Timeout

SleepTime == Timeout - Elapsed

\* select() is called with what is left of the timeout.
Sleep ==
  /\ pc = "sleep"
  /\ IF SleepTime < 0
     THEN Return(0) /\ UNCHANGED wake
     ELSE pc' = "select" /\ wake' = now + SleepTime * TicksPerMs /\ UNCHANGED result
  /\ UNCHANGED <<now, total_sent, started_ms, hist>>

\* Variant: an interrupted select() counts as a timeout.
WakeInterrupted ==
  /\ pc = "select"
  /\ Return(0)
  /\ UNCHANGED <<now, total_sent, started_ms, wake, hist>>

\* The socket is writable, or select() was interrupted: try again.
Wake ==
  /\ pc = "select"
  /\ pc' = "send"
  /\ UNCHANGED <<now, total_sent, started_ms, wake, result, hist>>

SelectTimesOut ==
  /\ pc = "select" /\ now >= wake
  /\ Return(0)
  /\ UNCHANGED <<now, total_sent, started_ms, wake, hist>>

\* The time before the call does not matter.
Tick == /\ pc # "call" /\ now < MaxNow
        /\ now' = now + 1
        /\ UNCHANGED <<local, hist>>

Done == pc = "done" /\ UNCHANGED vars

Step == \/ Enter \/ SendSome \/ SendBlocks \/ SendFails
        \/ CheckTime \/ Sleep \/ SelectTimesOut

Next == Step \/ Wake \/ Tick \/ Done

Spec == Init /\ [][Next]_vars

\* The thread runs and the clock runs; the socket need never become writable.
FairSpec == Spec /\ WF_vars(Step) /\ WF_vars(Tick)

-----------------------------------------------------------------------------
(* Properties.                                                              *)

\* The shape of the state.
TypeOK ==
  /\ now \in Nat /\ wake \in Nat /\ started_ms \in Nat /\ entered \in Nat
  /\ pc \in {"call", "send", "check", "sleep", "select", "done"}
  /\ total_sent \in 0 .. Size
  /\ result \in {-2, -1, 0, Size}
  /\ blocked \in BOOLEAN
  /\ late \in Nat

\* FullSend answers size exactly when every byte was sent: a timeout, error or
\* shutdown is never reported for a buffer that went out whole, nor success for
\* one that did not.
ResultIsExact == pc = "done" => (result = Size <=> total_sent = Size)

\* A timeout is answered only when the socket had no room, or had taken a part
\* of the buffer: the two cases in which GepChannel's GivesUp lets a send to a
\* connected peer fail.
TimeoutHasCause == pc = "done" /\ result = 0 => blocked \/ total_sent > 0

\* A timeout is not answered before timeout_ms have passed, up to the millisecond
\* that rounding the start down may hide, however send()s, waits and interrupted
\* select()s share the time.
NotEarly ==
  pc = "done" /\ result = 0 => now - entered > (Timeout - 1) * TicksPerMs

\* Once the timeout is over, at most one more send() is made, so a slow or
\* trickling peer cannot hold the caller, who owns the channel's lock.
OneLateSend == late <= 1

\* FullSend returns even if the socket never becomes writable.
Returns == pc = "call" ~> pc = "done"
=============================================================================
