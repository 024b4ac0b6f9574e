--------------------------- MODULE GepClientProofs ---------------------------
(***************************************************************************)
(* A client's sockets and its count of reconnections are right for any     *)
(* number of threads, restarts, connections, messages and faults.          *)
(***************************************************************************)
EXTENDS GepClient, TLAPS

-----------------------------------------------------------------------------
(* The inductive invariant.                                                 *)

\* The service thread runs between StartThread and Join; a new socket is there only
\* on its way into the channel; only a callback sends on the service thread.
Places ==
  /\ pc = "none" <=> app \in {"stopped", "opening", "closing"}
  /\ new_socket # NoSocket <=> pc = "install" \/ app = "opening"
  /\ spc[Service] # "idle" => pc = "callback"

\* Which sockets are open, and what RunThread's copy is worth where.
Sockets ==
  /\ fds = {socket_, new_socket} \ {NoSocket}
  /\ app \in {"stopped", "opening"} => socket_ = NoSocket
  /\ pc = "top" => socket = socket_
  /\ pc \in {"select", "woken", "recv", "receiving", "callback", "close"} =>
       socket = socket_ /\ socket_ # NoSocket
  /\ pc \in {"reconnect", "install", "pause"} => socket_ = NoSocket

\* The count before Start's connection is in the channel, and after.
Counts ==
  /\ app = "stopped" => reconnect_count = 0
  /\ app = "opening" => reconnect_count = 0 /\ conns = first
  /\ CountIsExact

Inv == TypeOK /\ Places /\ Sockets /\ Counts

\* Before the first Start.
LEMMA InvInit == Init => Inv
  <1> SUFFICES ASSUME Init PROVE Inv
    OBVIOUS
  <1>1. TypeOK
    <2>1. \A t \in Threads :
            ~ (lock = t) /\ ~ (spc[t] = "send" \/ (t = Service /\ pc = "receiving"))
      BY ClientAssumption DEF Init, Threads
    <2>2. inbox \in Seq(Pieces) /\ fds \subseteq Nat
      BY DEF Init
    <2> QED BY <2>1, <2>2 DEF Init, TypeOK, NoSocket
  <1>2. Places /\ Sockets
    BY DEF Init, Places, Sockets, NoSocket, Threads
  <1>3. Counts
    BY DEF Init, Counts, CountIsExact
  <1> QED BY <1>1, <1>2, <1>3 DEF Inv

-----------------------------------------------------------------------------
(* Every step keeps it.                                                     *)

\* The server reaches only the connection, not the client's state.
LEMMA InvServer == Inv /\ ServerStep => Inv'
  <1> SUFFICES ASSUME Inv, ServerStep PROVE Inv'
    OBVIOUS
  <1>1. /\ UNCHANGED <<owner, chan, lock, loop, send>>
        /\ listening' \in BOOLEAN /\ link' \in {"up", "down"} /\ inbox' \in Seq(Pieces)
        /\ msgs' \in Nat /\ faults' \in Nat
    <2>1. CASE ServerStarts \/ ServerStops \/ ServerHangsUp
      <3>1. inbox' = inbox /\ inbox \in Seq(Pieces)
        BY <2>1 DEF ServerStarts, ServerStops, ServerHangsUp, Inv, TypeOK
      <3>2. /\ UNCHANGED <<owner, chan, lock, loop, send, msgs>>
            /\ listening' \in BOOLEAN /\ link' \in {"up", "down"}
            /\ faults' = faults \/ faults' = faults + 1
        BY <2>1 DEF ServerStarts, ServerStops, ServerHangsUp, Inv, TypeOK
      <3>3. msgs' \in Nat /\ faults' \in Nat
        BY <3>2 DEF Inv, TypeOK
      <3> QED BY <3>1, <3>2, <3>3
    <2>2. CASE ServerSends
      <3>1. PICK p \in Pieces : inbox' = Append(inbox, p)
        BY <2>2 DEF ServerSends
      <3>2. inbox' \in Seq(Pieces)
        BY <3>1 DEF Inv, TypeOK
      <3>3. msgs' \in Nat /\ faults' \in Nat
        BY <2>2 DEF ServerSends, Inv, TypeOK
      <3> QED BY <2>2, <3>2, <3>3 DEF ServerSends, Inv, TypeOK
    <2> QED BY <2>1, <2>2 DEF ServerStep
  <1> QED BY <1>1 DEF Inv, TypeOK, Places, Sockets, Counts, CountIsExact,
                      owner, chan, loop, send

\* Start, its thread, Stop with its join and its Close.
LEMMA InvOwner == Inv /\ (Start \/ StartThread \/ Stop \/ StopStep) => Inv'
  <1> USE DEF Inv, TypeOK, Places, Sockets, Counts, CountIsExact, NoSocket
  <1>1. Inv /\ Start => Inv'
    BY DEF Start, Connect, loop, send
  <1>2. Inv /\ StartThread => Inv'
    BY DEF StartThread, Install, env, send
  <1>3. Inv /\ Stop => Inv'
    BY DEF Stop, env, chan, loop, send
  <1>4. Inv /\ Join => Inv'
    BY DEF Join, env, chan, send
  <1>5. Inv /\ StopEnds => Inv'
    BY DEF StopEnds, Close, env, loop, send
  <1> QED BY <1>1, <1>2, <1>3, <1>4, <1>5 DEF StopStep

\* RunThread outside RecvData.
LEMMA InvLoop ==
  Inv /\ (\/ LoadSocket \/ CheckControl \/ Reconnect \/ Reconnected \/ ReconnectFails
          \/ PauseEnds \/ Select \/ SelectInterrupted \/ SelectFails \/ Toss) => Inv'
  <1> USE DEF Inv, TypeOK, Places, Sockets, Counts, CountIsExact, NoSocket
  <1>1. Inv /\ LoadSocket => Inv'
    BY DEF LoadSocket, env, owner, chan, send
  <1>2. Inv /\ CheckControl => Inv'
    BY DEF CheckControl, env, owner, chan, send
  <1>3. Inv /\ Reconnect => Inv'
    BY DEF Reconnect, Connect, owner, send
  <1>4. Inv /\ Reconnected => Inv'
    BY DEF Reconnected, Install, env, send
  <1>5. Inv /\ (ReconnectFails \/ PauseEnds) => Inv'
    BY DEF ReconnectFails, PauseEnds, env, owner, chan, send
  <1>6. Inv /\ (Select \/ SelectInterrupted) => Inv'
    BY DEF Select, SelectInterrupted, Readable, env, owner, chan, send
  <1>7. Inv /\ SelectFails => Inv'
    BY DEF SelectFails, owner, chan, send
  <1>8. Inv /\ Toss => Inv'
    BY DEF Toss, Close, env, owner, send
  <1> QED BY <1>1, <1>2, <1>3, <1>4, <1>5, <1>6, <1>7, <1>8

\* RecvData, which takes the mutex and gives it back.
LEMMA InvReceive ==
  Inv /\ (\/ LockForRecv \/ Receive \/ ReceiveFails \/ ReceiveInterrupted
          \/ CallbackReturns) => Inv'
  <1> USE ClientAssumption
      DEF Inv, TypeOK, Places, Sockets, Counts, CountIsExact, NoSocket, Threads
  <1>1. Inv /\ LockForRecv => Inv'
    BY DEF LockForRecv, LockIsFree, env, owner, chan, send
  <1>2. Inv /\ Receive => Inv'
    BY SMTT(30) DEF Receive, Pieces, owner, chan, send
  <1>3. Inv /\ (ReceiveFails \/ ReceiveInterrupted) => Inv'
    BY SMTT(30) DEF ReceiveFails, ReceiveInterrupted, env, owner, chan, send
  <1>4. Inv /\ CallbackReturns => Inv'
    BY DEF CallbackReturns, env, owner, chan, send
  <1> QED BY <1>1, <1>2, <1>3, <1>4

\* A thread's send, which takes the mutex and gives it back.
LEMMA InvSend ==
  ASSUME NEW t \in Threads, Inv, Send(t) \/ SendStep(t)
  PROVE  Inv'
  <1> USE ClientAssumption
      DEF Inv, TypeOK, Places, Sockets, Counts, CountIsExact, NoSocket, Threads
  <1>1. CASE Send(t)
    BY <1>1 DEF Send, MaySend, env, owner, chan, loop
  <1>2. CASE LockSocket(t)
    BY <1>2 DEF LockSocket, LockIsFree, env, owner, chan, loop
  <1>3. CASE SendReturns(t)
    BY <1>3 DEF SendReturns, env, owner, chan, loop
  <1> QED BY <1>1, <1>2, <1>3 DEF SendStep

\* The invariant holds in every behaviour.
LEMMA Invariance == Spec => []Inv
  <1>1. Inv /\ [Next]_vars => Inv'
    <2> SUFFICES ASSUME Inv, [Next]_vars PROVE Inv'
      OBVIOUS
    <2>1. CASE StartFails \/ UNCHANGED vars
      <3>1. UNCHANGED <<env, owner, chan, lock, loop, send>>
        BY <2>1 DEF StartFails, vars
      <3>2. TypeOK'
        BY <3>1 DEF Inv, TypeOK, env, owner, chan, loop, send
      <3>3. Places' /\ Sockets' /\ Counts'
        BY <3>1 DEF Inv, Places, Sockets, Counts, CountIsExact, owner, chan, loop, send
      <3> QED BY <3>2, <3>3 DEF Inv
    <2>2. CASE ServiceStep \/ SelectInterrupted \/ ReceiveInterrupted
      BY <2>2, InvLoop, InvReceive DEF ServiceStep
    <2>3. CASE \E t \in Threads : Send(t) \/ SendStep(t)
      BY <2>3, InvSend
    <2> QED BY <2>1, <2>2, <2>3, InvServer, InvOwner DEF Next
  <1> QED BY <1>1, InvInit, PTL DEF Spec

-----------------------------------------------------------------------------
(* The theorems.                                                            *)

\* The state is well-typed, and a thread holds socket_lock_ exactly while it is
\* inside a send or a receive, for any number of threads.
THEOREM TypeCorrect == Spec => []TypeOK
  BY Invariance, PTL DEF Inv

\* RunThread's copy of the socket is the channel's open socket wherever it counts,
\* over any number of losses and reconnections.
THEOREM CopyCorrect == Spec => []CopyIsCurrent
  <1>1. Inv => CopyIsCurrent
    BY DEF Inv, Sockets, CopyIsCurrent, NoSocket
  <1> QED BY <1>1, Invariance, PTL

\* No connection is forgotten open, over any number of restarts.
THEOREM SocketsCorrect == Spec => []NoSocketLost
  <1>1. Inv => NoSocketLost
    BY DEF Inv, Places, Sockets, NoSocketLost, NoSocket
  <1> QED BY <1>1, Invariance, PTL

\* GetReconnectCount is the number of connections since Start's own.
THEOREM CountCorrect == Spec => []CountIsExact
  BY Invariance, PTL DEF Inv, Counts
=============================================================================
