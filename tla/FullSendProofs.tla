---------------------------- MODULE FullSendProofs ----------------------------
(***************************************************************************)
(* FullSend keeps its promises for any size, timeout and clock resolution. *)
(***************************************************************************)
EXTENDS FullSend, TLAPS

T == TicksPerMs

\* Whole milliseconds in d ticks.
LEMMA Division ==
  ASSUME NEW d \in Nat
  PROVE  /\ d \div T \in Nat
         /\ (d \div T) * T <= d
         /\ d < (d \div T) * T + T
  BY FullSendAssumption DEF T

\* Products by the resolution keep the order.
LEMMA Scale ==
  ASSUME NEW a \in Int, NEW b \in Int, a <= b
  PROVE  a * T <= b * T
  BY FullSendAssumption DEF T

\* Products by the resolution distribute over sums and differences.
LEMMA ScaleSum ==
  ASSUME NEW a \in Int, NEW b \in Int
  PROVE  (a + b) * T = a * T + b * T /\ (a - b) * T = a * T - b * T
  BY FullSendAssumption DEF T

\* More ticks are at least as many milliseconds.
LEMMA DivisionGrows ==
  ASSUME NEW c \in Nat, NEW d \in Nat, c <= d
  PROVE  c \div T <= d \div T
  <1> DEFINE p == c \div T
             q == d \div T
  <1>1. /\ p \in Nat /\ q \in Nat /\ T \in Nat
        /\ p * T <= c /\ d < q * T + T
    BY Division, FullSendAssumption DEF T
  <1> HIDE DEF p, q
  <1>2. SUFFICES ASSUME q + 1 <= p PROVE FALSE
    BY <1>1 DEF p, q
  <1>3. (q + 1) * T <= p * T
    BY <1>1, <1>2, Scale
  <1>4. (q + 1) * T = q * T + 1 * T
    BY <1>1, ScaleSum
  <1>5. q * T \in Nat /\ p * T \in Nat
    BY <1>1
  <1> QED BY <1>1, <1>3, <1>4, <1>5

-----------------------------------------------------------------------------
(* The inductive invariant.                                                 *)

\* The call is not answered before everything is sent.
Pending == pc # "done" => total_sent < Size /\ result = 0

\* The start is the call's time rounded down to a millisecond.
Started == pc # "call" => /\ started_ms * T <= entered
                          /\ entered < started_ms * T + T
                          /\ entered <= now

\* select() will not time out too early.
WakeLate == pc = "select" => wake - entered > (Timeout - 1) * T

\* After a late send() the next look at the clock ends the call.
LateOnce == \/ late = 0
            \/ late = 1 /\ TimedOut /\ pc \in {"check", "sleep", "done"}

Inv == /\ TypeOK /\ Pending /\ Started /\ WakeLate /\ LateOnce
       /\ ResultIsExact /\ NotEarly

\* The clock as FullSend reads it, in ticks.
LEMMA ElapsedBounds ==
  ASSUME TypeOK, Started, pc # "call"
  PROVE  /\ Elapsed \in Nat
         /\ Elapsed * T <= now - started_ms * T
         /\ now - started_ms * T < Elapsed * T + T
  <1>1. started_ms * T \in Nat /\ T \in Nat
    BY FullSendAssumption DEF TypeOK, T
  <1>2. now - started_ms * T \in Nat
    BY <1>1 DEF TypeOK, Started
  <1> QED BY <1>2, Division DEF Elapsed, T

\* Once FullSend sees the timeout, it has really gone by, less the rounding.
LEMMA TimeIsOver ==
  ASSUME TypeOK, Started, pc # "call", Timeout <= Elapsed
  PROVE  now - entered > (Timeout - 1) * T
  <1>1. Timeout * T <= Elapsed * T
    BY Scale, ElapsedBounds, FullSendAssumption
  <1>2. (Timeout - 1) * T = Timeout * T - 1 * T
    BY ScaleSum, FullSendAssumption
  <1>3. /\ started_ms * T \in Nat /\ T \in Nat /\ Timeout * T \in Nat
        /\ Elapsed * T \in Nat
    BY FullSendAssumption, ElapsedBounds DEF TypeOK, T
  <1> QED BY <1>1, <1>2, <1>3, ElapsedBounds DEF Started, TypeOK

\* Before the call.
LEMMA InvInit == Init => Inv
  <1> SUFFICES ASSUME Init PROVE Inv
    OBVIOUS
  <1>1. now \in Nat /\ Size \in Nat \ {0}
    BY FullSendAssumption DEF Init
  <1>2. TypeOK
    <2>1. total_sent \in 0 .. Size /\ result \in {-2, -1, 0, Size}
      BY <1>1 DEF Init
    <2>2. /\ now \in Nat /\ wake \in Nat /\ started_ms \in Nat
          /\ entered \in Nat /\ late \in Nat
      BY <1>1 DEF Init
    <2>3. pc \in {"call", "send", "check", "sleep", "select", "done"}
          /\ blocked \in BOOLEAN
      BY DEF Init
    <2> QED BY <2>1, <2>2, <2>3 DEF TypeOK
  <1>3. Pending /\ LateOnce
    BY <1>1 DEF Init, Pending, LateOnce
  <1>4. Started /\ WakeLate /\ ResultIsExact /\ NotEarly
    BY DEF Init, Started, WakeLate, ResultIsExact, NotEarly
  <1> QED BY <1>2, <1>3, <1>4 DEF Inv

\* The call.
LEMMA InvEnter == Inv /\ Enter => Inv'
  <1> SUFFICES ASSUME Inv, Enter PROVE Inv'
    OBVIOUS
  <1>1. /\ now \div T \in Nat
        /\ (now \div T) * T <= now
        /\ now < (now \div T) * T + T
    BY Division DEF Inv, TypeOK
  <1>2. late = 0
    BY DEF Inv, LateOnce, Enter
  <1> QED BY <1>1, <1>2
          DEF Enter, Inv, TypeOK, Pending, Started, WakeLate, LateOnce, ResultIsExact,
              NotEarly, T

\* A send(), whatever it answers: it is the first one after the deadline.
LEMMA InvSend == Inv /\ (SendSome \/ SendBlocks \/ SendFails) => Inv'
  <1> SUFFICES ASSUME Inv, SendSome \/ SendBlocks \/ SendFails PROVE Inv'
    OBVIOUS
  <1>1. /\ pc = "send" /\ late = 0 /\ CountLate
        /\ UNCHANGED <<now, started_ms, wake, entered>>
    BY DEF Inv, LateOnce, SendSome, SendBlocks, SendFails
  <1>2. TimedOut' <=> TimedOut
    BY <1>1 DEF TimedOut, Elapsed
  <1>3. /\ pc' \in {"check", "sleep", "done"}
        /\ total_sent' \in 0 .. Size
        /\ result' \in {-2, -1, 0, Size}
        /\ blocked' \in BOOLEAN
        /\ Pending' /\ ResultIsExact'
        /\ pc' = "done" => result' # 0
    <2>0. /\ total_sent \in 0 .. Size /\ total_sent < Size /\ result = 0
          /\ blocked \in BOOLEAN /\ Size \in Nat \ {0}
      BY <1>1, FullSendAssumption DEF Inv, TypeOK, Pending
    <2>1. CASE SendSome
      <3>1. PICK n \in 1 .. Size - total_sent :
              /\ total_sent' = total_sent + n
              /\ IF total_sent + n >= Size
                 THEN pc' = "done" /\ result' = total_sent + n
                 ELSE pc' = "check" /\ result' = result
        BY <2>1 DEF SendSome, Return
      <3> QED BY <2>0, <2>1, <3>1 DEF SendSome, Pending, ResultIsExact
    <2>2. CASE SendBlocks
      BY <2>0, <2>2 DEF SendBlocks, Pending, ResultIsExact
    <2>3. CASE SendFails
      BY <2>0, <2>3 DEF SendFails, Return, Pending, ResultIsExact
    <2> QED BY <2>1, <2>2, <2>3
  <1>4. late' \in Nat /\ LateOnce'
    BY <1>1, <1>2, <1>3 DEF CountLate, LateOnce
  <1> QED BY <1>1, <1>3, <1>4
          DEF Inv, TypeOK, Started, WakeLate, NotEarly

\* A look at the clock after a partial send.
LEMMA InvCheck == Inv /\ CheckTime => Inv'
  <1> SUFFICES ASSUME Inv, CheckTime PROVE Inv'
    OBVIOUS
  <1>1. TimedOut => now - entered > (Timeout - 1) * T
    BY TimeIsOver, ElapsedBounds, FullSendAssumption DEF Inv, CheckTime, TimedOut
  <1>2. TimedOut' <=> TimedOut
    BY DEF CheckTime, TimedOut, Elapsed, hist
  <1> QED BY <1>1, <1>2, FullSendAssumption
          DEF CheckTime, Return, Inv, TypeOK, Pending, Started, WakeLate, LateOnce,
              ResultIsExact, NotEarly, T, hist

\* The wait is started, or refused because no time is left.
LEMMA InvSleep == Inv /\ Sleep => Inv'
  <1> SUFFICES ASSUME Inv, Sleep PROVE Inv'
    OBVIOUS
  <1>0. pc = "sleep" /\ TypeOK /\ Started /\ Elapsed \in Nat /\ Timeout \in Nat
    BY ElapsedBounds, FullSendAssumption DEF Inv, Sleep
  <1>1. TimedOut' <=> TimedOut
    BY DEF Sleep, TimedOut, Elapsed, hist
  <1>2. SleepTime \in Int /\ (SleepTime < 0 <=> TimedOut)
    BY <1>0 DEF SleepTime, TimedOut
  <1>3. CASE SleepTime < 0
    <2>1. now - entered > (Timeout - 1) * T
      BY <1>0, <1>2, <1>3, TimeIsOver DEF TimedOut
    <2> QED BY <1>1, <1>3, <2>1, FullSendAssumption
            DEF Sleep, Return, Inv, TypeOK, Pending, Started, WakeLate, LateOnce,
                ResultIsExact, NotEarly, T, hist
  <1>4. CASE ~ (SleepTime < 0)
    <2>1. /\ pc' = "select" /\ wake' = now + SleepTime * T /\ result' = result
          /\ UNCHANGED <<now, total_sent, started_ms, hist>>
      BY <1>4 DEF Sleep, T
    <2>2. SleepTime * T = Timeout * T - Elapsed * T
      BY <1>0, ScaleSum DEF SleepTime
    <2>3. (Timeout - 1) * T = Timeout * T - 1 * T
      BY <1>0, ScaleSum
    <2>4. /\ T \in Nat /\ Timeout * T \in Nat /\ Elapsed * T \in Nat
          /\ started_ms * T \in Nat /\ now \in Nat /\ entered \in Nat
      BY <1>0, FullSendAssumption DEF TypeOK, T
    <2>5. 0 <= SleepTime * T
      BY <1>2, <1>4, Scale, <2>4
    <2>6. Elapsed * T <= now - started_ms * T
      BY <1>0, ElapsedBounds
    <2>7. wake' - entered > (Timeout - 1) * T /\ wake' \in Nat
      BY <1>0, <2>1, <2>2, <2>3, <2>4, <2>5, <2>6 DEF Started
    <2>8. late = 0
      BY <1>2, <1>4 DEF Inv, LateOnce
    <2> QED BY <1>0, <2>1, <2>7, <2>8
            DEF Inv, TypeOK, Pending, Started, WakeLate, LateOnce, ResultIsExact,
                NotEarly, hist
  <1> QED BY <1>3, <1>4

\* The end of the wait.
LEMMA InvSelect == Inv /\ (Wake \/ SelectTimesOut) => Inv'
  <1> SUFFICES ASSUME Inv, Wake \/ SelectTimesOut PROVE Inv'
    OBVIOUS
  <1>1. late = 0 /\ UNCHANGED <<now, total_sent, started_ms, wake, hist>>
    BY DEF Inv, LateOnce, Wake, SelectTimesOut
  <1>2. SelectTimesOut => now - entered > (Timeout - 1) * T
    <2>1. T \in Nat /\ (Timeout - 1) * T \in Int
      BY FullSendAssumption DEF T
    <2> QED BY <2>1 DEF Inv, TypeOK, WakeLate, SelectTimesOut
  <1> QED BY <1>1, <1>2, FullSendAssumption
          DEF Wake, SelectTimesOut, Return, Inv, TypeOK, Pending, Started, WakeLate,
              LateOnce, ResultIsExact, NotEarly, T, hist

\* Time only brings the deadline nearer.
LEMMA InvTick == Inv /\ Tick => Inv'
  <1> SUFFICES ASSUME Inv, Tick PROVE Inv'
    OBVIOUS
  <1>0. /\ TypeOK /\ Started /\ pc # "call" /\ now' = now + 1
        /\ UNCHANGED <<local, hist>> /\ T \in Nat \ {0}
        /\ started_ms * T \in Nat
    BY FullSendAssumption DEF Inv, Tick, T, TypeOK
  <1>1. TypeOK' /\ Started' /\ pc' # "call"
    BY <1>0 DEF TypeOK, Started, local, hist
  <1>2. TimedOut => TimedOut'
    <2>1. /\ now - started_ms * T \in Nat
          /\ now' - started_ms * T \in Nat
          /\ now - started_ms * T <= now' - started_ms * T
      BY <1>0 DEF TypeOK, Started
    <2>2. (now - started_ms * T) \div T <= (now' - started_ms * T) \div T
      BY <2>1, DivisionGrows
    <2>3. /\ (now - started_ms * T) \div T \in Nat
          /\ (now' - started_ms * T) \div T \in Nat
      BY <2>1, Division
    <2>4. started_ms' = started_ms
      BY <1>0 DEF local
    <2> QED BY <2>2, <2>3, <2>4, FullSendAssumption DEF TimedOut, Elapsed, T
  <1>3. NotEarly'
    <2>1. (Timeout - 1) * T \in Int /\ now \in Nat /\ entered \in Nat
      BY <1>0, FullSendAssumption DEF TypeOK
    <2> QED BY <1>0, <2>1 DEF Inv, NotEarly, local, hist, T
  <1> QED BY <1>0, <1>1, <1>2, <1>3
          DEF Inv, Pending, WakeLate, LateOnce, ResultIsExact, local, hist

\* Every step of FullSend keeps the invariant.
LEMMA Invariance == Spec => []Inv
  <1>1. Inv /\ [Next]_vars => Inv'
    <2> SUFFICES ASSUME Inv, [Next]_vars PROVE Inv'
      OBVIOUS
    <2>1. CASE Done \/ UNCHANGED vars
      BY <2>1 DEF Done, vars, local, hist, Inv, TypeOK, Pending, Started, WakeLate,
                  LateOnce, TimedOut, Elapsed, ResultIsExact, NotEarly
    <2> QED BY <2>1, InvEnter, InvSend, InvCheck, InvSleep, InvSelect, InvTick
            DEF Next, Step
  <1> QED BY <1>1, InvInit, PTL DEF Spec

\* A timeout is never answered early, for any timeout and clock resolution: less
\* than the millisecond that ms_elapse rounds away is missing.
THEOREM NeverEarly == Spec => []NotEarly
  BY Invariance, PTL DEF Inv

\* At most one send() is made after the deadline, however large the buffer is and
\* however the peer takes it.
THEOREM LateSends == Spec => []OneLateSend
  <1>1. Inv => OneLateSend
    BY DEF Inv, TypeOK, LateOnce, OneLateSend
  <1> QED BY <1>1, Invariance, PTL

\* FullSend answers its size exactly when it has sent everything.
THEOREM ResultCorrect == Spec => []ResultIsExact
  BY Invariance, PTL DEF Inv

\* The state is well-typed, for any size, timeout and clock resolution.
THEOREM TypeCorrect == Spec => []TypeOK
  BY Invariance, PTL DEF Inv

\* A wait begins with a send() that found no room, and a look at the clock comes
\* after a partial send.
Cause == /\ pc \in {"sleep", "select"} => blocked
         /\ pc = "check" => total_sent > 0
         /\ TimeoutHasCause

\* The cause of a timeout is not forgotten on the way to the answer.
LEMMA CauseStep == Inv /\ Cause /\ [Next]_vars => Cause'
  <1> SUFFICES ASSUME Inv, Cause, [Next]_vars PROVE Cause'
    OBVIOUS
  <1>0. total_sent \in 0 .. Size /\ Size \in Nat \ {0} /\ blocked \in BOOLEAN
    BY FullSendAssumption DEF Inv, TypeOK
  <1>1. CASE SendSome
    <2>1. PICK n \in 1 .. Size - total_sent :
            /\ total_sent' = total_sent + n
            /\ IF total_sent + n >= Size
               THEN pc' = "done" /\ result' = total_sent + n
               ELSE pc' = "check" /\ result' = result
      BY <1>1 DEF SendSome, Return
    <2> QED BY <1>0, <2>1 DEF Cause, TimeoutHasCause
  <1>2. CASE SendBlocks \/ SendFails
    BY <1>2 DEF SendBlocks, SendFails, Return, Cause, TimeoutHasCause
  <1>3. CASE CheckTime \/ Sleep
    BY <1>3, <1>0 DEF CheckTime, Sleep, Return, hist, Cause, TimeoutHasCause
  <1>4. CASE Enter \/ Wake \/ SelectTimesOut
    BY <1>4 DEF Enter, Wake, SelectTimesOut, Return, hist, Cause, TimeoutHasCause
  <1>5. CASE Tick \/ Done \/ UNCHANGED vars
    BY <1>5 DEF Tick, Done, vars, local, hist, Cause, TimeoutHasCause
  <1> QED BY <1>1, <1>2, <1>3, <1>4, <1>5 DEF Next, Step

\* A timeout is answered only to a caller whose socket had no room or took a part
\* of the buffer: GepChannel relies on it (SendTLV reports a message lost).
THEOREM TimeoutCorrect == Spec => []TimeoutHasCause
  <1>1. Init => Cause
    BY DEF Init, Cause, TimeoutHasCause
  <1>2. Cause => TimeoutHasCause
    BY DEF Cause
  <1> QED BY <1>1, <1>2, CauseStep, Invariance, PTL DEF Spec
=============================================================================
