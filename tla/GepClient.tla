------------------------------ MODULE GepClient ------------------------------
(***************************************************************************)
(* A GepClient with its channel's socket:                                  *)
(*   - the service thread (RunThread) selects, receives, tosses a broken   *)
(*     connection and reconnects, with a pause after each failure;         *)
(*   - application threads, and a callback on the service thread, send;    *)
(*   - the application starts and stops the client;                        *)
(*   - the server comes and goes, sends, and ends connections.             *)
(* A connection, and the descriptor of its socket, is a number; NoSocket   *)
(* stands for -1.  What the channel does with bytes is in GepChannel.      *)
(***************************************************************************)
EXTENDS Integers, Sequences

CONSTANTS
  Senders,        \* application threads that send
  Service,        \* the service thread
  Free,           \* nobody's lock
  Interruptible,  \* a signal may interrupt the service thread's system calls
  MaxStarts,      \* bound: calls of Start that succeed
  MaxSends,       \* bound: sends of one thread
  MaxMsgs,        \* bound: pieces the server sends that are no error
  MaxFaults       \* bound: failures of the server and of the kernel

Threads  == Senders \cup {Service}
NoSocket == 0

\* What one RecvData finds: a message with a callback, part of a message, or
\* what GepChannel answers CMD_ERROR to.
Pieces == {"message", "fragment", "garbage"}

ASSUME ClientAssumption ==
  /\ Service \notin Senders /\ Free \notin Threads
  /\ Interruptible \in BOOLEAN
  /\ MaxStarts \in Nat /\ MaxSends \in Nat /\ MaxMsgs \in Nat /\ MaxFaults \in Nat

VARIABLES
  listening,    \* a server accepts connections
  link,         \* the server's end of the last connection: "up" or "down"
  inbox,        \* what the kernel has received on it
  msgs, faults, \* bounded counts of what server and kernel did
  app,          \* the application: "stopped", "opening", "running", ...
  starts,       \* calls of Start that succeeded
  thread_ctrl, reconnect_count,
  first,        \* history: the connection Start made
  socket_,      \* the channel's socket
  new_socket,   \* the socket OpenClientSocket has connected
  fds,          \* sockets the client has open
  conns,        \* connections made so far
  lock,         \* who holds socket_lock_
  pc,           \* where the service thread is
  socket,       \* RunThread's own copy of the channel's socket
  ready,        \* the socket is in read_fds
  spc, sends    \* per thread: where it is in Send, and how often it was there

env   == <<listening, link, inbox, msgs, faults>>
owner == <<app, starts, thread_ctrl, reconnect_count, first>>
chan  == <<socket_, new_socket, fds, conns>>
loop  == <<pc, socket, ready>>
send  == <<spc, sends>>
vars  == <<env, owner, chan, lock, loop, send>>

Init ==
  /\ listening \in BOOLEAN /\ link = "down" /\ inbox = <<>>
  /\ msgs = 0 /\ faults = 0
  /\ app = "stopped" /\ starts = 0
  /\ thread_ctrl = FALSE /\ reconnect_count = 0 /\ first = 0
  /\ socket_ = NoSocket /\ new_socket = NoSocket /\ fds = {} /\ conns = 0
  /\ lock = Free
  /\ pc = "none" /\ socket = NoSocket /\ ready = FALSE
  /\ spc = [t \in Threads |-> "idle"] /\ sends = [t \in Threads |-> 0]

-----------------------------------------------------------------------------
(* The server and the network.                                              *)

ServerStarts ==
  /\ ~listening /\ listening' = TRUE
  /\ UNCHANGED <<link, inbox, msgs, faults, owner, chan, lock, loop, send>>

ServerStops ==
  /\ listening /\ faults < MaxFaults
  /\ listening' = FALSE /\ link' = "down" /\ faults' = faults + 1
  /\ UNCHANGED <<inbox, msgs, owner, chan, lock, loop, send>>

ServerHangsUp ==
  /\ link = "up" /\ faults < MaxFaults
  /\ link' = "down" /\ faults' = faults + 1
  /\ UNCHANGED <<listening, inbox, msgs, owner, chan, lock, loop, send>>

ServerSends ==
  /\ link = "up"
  /\ \E p \in Pieces :
       /\ inbox' = Append(inbox, p)
       /\ IF p = "garbage"
          THEN faults < MaxFaults /\ faults' = faults + 1 /\ UNCHANGED msgs
          ELSE msgs < MaxMsgs /\ msgs' = msgs + 1 /\ UNCHANGED faults
  /\ UNCHANGED <<listening, link, owner, chan, lock, loop, send>>

-----------------------------------------------------------------------------
(* OpenClientSocket and Close, by the application or the service thread.    *)

LockIsFree == lock = Free

\* socket() and connect().  When connect() fails, the new socket is closed.
Connect ==
  /\ listening
  /\ conns' = conns + 1 /\ new_socket' = conns + 1 /\ fds' = fds \cup {conns + 1}
  /\ link' = "up" /\ inbox' = <<>>
  /\ UNCHANGED <<listening, msgs, faults, socket_>>

\* Its last two lines.
Install ==
  /\ LockIsFree
  /\ socket_' = new_socket /\ new_socket' = NoSocket
  /\ UNCHANGED <<fds, conns>>

Close ==
  /\ socket_ # NoSocket => LockIsFree
  /\ socket_' = NoSocket /\ fds' = fds \ {socket_}
  /\ UNCHANGED <<new_socket, conns>>

-----------------------------------------------------------------------------
(* The application: Start, and Stop with its join().                        *)

Start ==
  /\ app = "stopped" /\ starts < MaxStarts /\ Connect
  /\ app' = "opening" /\ starts' = starts + 1 /\ first' = conns + 1
  /\ UNCHANGED <<thread_ctrl, reconnect_count, lock, loop, send>>

\* Start answers -1, and may be called again.
StartFails == app = "stopped" /\ ~listening /\ UNCHANGED vars

StartThread ==
  /\ app = "opening" /\ Install
  /\ app' = "running" /\ thread_ctrl' = TRUE /\ pc' = "load"
  /\ UNCHANGED <<env, starts, reconnect_count, first, lock, socket, ready, send>>

Stop ==
  /\ app = "running"
  /\ app' = "joining" /\ thread_ctrl' = FALSE
  /\ UNCHANGED <<env, starts, reconnect_count, first, chan, lock, loop, send>>

Join ==
  /\ app = "joining" /\ pc = "exit"
  /\ app' = "closing" /\ pc' = "none"
  /\ UNCHANGED <<env, starts, thread_ctrl, reconnect_count, first, chan, lock, socket,
                 ready, send>>

\* Variant: reconnect_count_ is not reset.
StopKeepsCount ==
  /\ app = "closing" /\ Close
  /\ app' = "stopped"
  /\ UNCHANGED <<env, starts, thread_ctrl, reconnect_count, first, lock, loop, send>>

StopEnds ==
  /\ app = "closing" /\ Close
  /\ app' = "stopped" /\ reconnect_count' = 0
  /\ UNCHANGED <<env, starts, thread_ctrl, first, lock, loop, send>>

-----------------------------------------------------------------------------
(* RunThread.                                                               *)

\* Variant: the new socket is not looked up after a reconnection.
LoadOnce ==
  /\ pc = "load" /\ LockIsFree
  /\ socket' = (IF conns = first THEN socket_ ELSE socket) /\ pc' = "top"
  /\ UNCHANGED <<env, owner, chan, lock, ready, send>>

\* socket = GetSocket().
LoadSocket ==
  /\ pc = "load" /\ LockIsFree
  /\ socket' = socket_ /\ pc' = "top"
  /\ UNCHANGED <<env, owner, chan, lock, ready, send>>

\* The loop's condition, and the test after select().
CheckControl ==
  /\ pc \in {"top", "woken"}
  /\ pc' = CASE ~thread_ctrl                         -> "exit"
             [] thread_ctrl /\ pc = "top"   -> IF socket = NoSocket THEN "reconnect" ELSE "select"
             [] thread_ctrl /\ pc = "woken" -> IF ready THEN "recv" ELSE "top"
  /\ UNCHANGED <<env, owner, chan, lock, socket, ready, send>>

Reconnect ==
  /\ pc = "reconnect" /\ Connect
  /\ pc' = "install"
  /\ UNCHANGED <<owner, lock, socket, ready, send>>

Reconnected ==
  /\ pc = "install" /\ Install
  /\ reconnect_count' = reconnect_count + 1 /\ pc' = "load"
  /\ UNCHANGED <<env, app, starts, thread_ctrl, first, lock, socket, ready, send>>

\* Nobody listens: the thread sleeps for kReconnectRetryDelaySecs.
ReconnectFails ==
  /\ pc = "reconnect" /\ ~listening
  /\ pc' = "pause"
  /\ UNCHANGED <<env, owner, chan, lock, socket, ready, send>>

PauseEnds ==
  /\ pc = "pause" /\ pc' = "load"
  /\ UNCHANGED <<env, owner, chan, lock, socket, ready, send>>

Readable == inbox # <<>> \/ link = "down"

\* Variant: no timeout.
SelectBlocks ==
  /\ pc = "select" /\ socket \in fds /\ Readable
  /\ ready' = TRUE /\ pc' = "woken"
  /\ UNCHANGED <<env, owner, chan, lock, socket, send>>

\* The socket is readable, or the timeout is over.
Select ==
  /\ pc = "select" /\ socket \in fds
  /\ ready' = Readable /\ pc' = "woken"
  /\ UNCHANGED <<env, owner, chan, lock, socket, send>>

\* EINTR: read_fds is what it was before the call, with the socket in it.
SelectInterrupted ==
  /\ pc = "select" /\ Interruptible /\ socket \in fds
  /\ ready' = TRUE /\ pc' = "woken"
  /\ UNCHANGED <<env, owner, chan, lock, socket, send>>

\* Any other error: the loop is left, with the channel as it is.
SelectFails ==
  /\ pc = "select" /\ (faults < MaxFaults \/ socket \notin fds)
  /\ pc' = "exit" /\ faults' = faults + 1
  /\ UNCHANGED <<listening, link, inbox, msgs, owner, chan, lock, socket, ready, send>>

\* RecvData takes the lock for its recv(), which blocks until there is something.
LockForRecv ==
  /\ pc = "recv" /\ LockIsFree
  /\ lock' = Service /\ pc' = "receiving"
  /\ UNCHANGED <<env, owner, chan, socket, ready, send>>

Receive ==
  /\ pc = "receiving" /\ inbox # <<>>
  /\ inbox' = Tail(inbox) /\ lock' = Free
  /\ pc' = CASE Head(inbox) = "message"  -> "callback"
             [] Head(inbox) = "fragment" -> "top"
             [] Head(inbox) = "garbage"  -> "close"
  /\ UNCHANGED <<listening, link, msgs, faults, owner, chan, socket, ready, send>>

\* Variant: an orderly shutdown is not an error.
ReceiveNothing ==
  /\ pc = "receiving" /\ link = "down"
  /\ lock' = Free /\ pc' = "top"
  /\ UNCHANGED <<env, owner, chan, socket, ready, send>>

\* Variant: the error path forgets the mutex.
ReceiveFailsLocked ==
  /\ pc = "receiving" /\ link = "down"
  /\ pc' = "close"
  /\ UNCHANGED <<env, owner, chan, lock, socket, ready, send>>

\* The server has closed or reset the connection: RecvData answers an error.
ReceiveFails ==
  /\ pc = "receiving" /\ link = "down"
  /\ lock' = Free /\ pc' = "close"
  /\ UNCHANGED <<env, owner, chan, socket, ready, send>>

\* EINTR again, now an error.
ReceiveInterrupted ==
  /\ pc = "receiving" /\ inbox = <<>> /\ Interruptible /\ faults < MaxFaults
  /\ faults' = faults + 1 /\ lock' = Free /\ pc' = "close"
  /\ UNCHANGED <<listening, link, inbox, msgs, owner, chan, socket, ready, send>>

CallbackReturns ==
  /\ pc = "callback" /\ spc[Service] = "idle"
  /\ pc' = "top"
  /\ UNCHANGED <<env, owner, chan, lock, socket, ready, send>>

\* Variant: the thread's copy is not reset.
TossKeepsCopy ==
  /\ pc = "close" /\ Close
  /\ pc' = "top"
  /\ UNCHANGED <<env, owner, lock, socket, ready, send>>

\* "toss the existing connection and try to reconnect"
Toss ==
  /\ pc = "close" /\ Close
  /\ socket' = NoSocket /\ pc' = "top"
  /\ UNCHANGED <<env, owner, lock, ready, send>>

-----------------------------------------------------------------------------
(* Send: GepChannel::SendMessage, under the lock of the channel.            *)

MaySend(t) == t = Service => pc = "callback"

Send(t) ==
  /\ spc[t] = "idle" /\ MaySend(t) /\ sends[t] < MaxSends
  /\ spc' = [spc EXCEPT ![t] = "lock"] /\ sends' = [sends EXCEPT ![t] = @ + 1]
  /\ UNCHANGED <<env, owner, chan, lock, loop>>

LockSocket(t) ==
  /\ spc[t] = "lock" /\ LockIsFree
  /\ lock' = t /\ spc' = [spc EXCEPT ![t] = "send"]
  /\ UNCHANGED <<env, owner, chan, loop, sends>>

\* It answers, with 0 or -1, after kGepSendTimeoutMs at the latest.
SendReturns(t) ==
  /\ spc[t] = "send"
  /\ lock' = Free /\ spc' = [spc EXCEPT ![t] = "idle"]
  /\ UNCHANGED <<env, owner, chan, loop, sends>>

-----------------------------------------------------------------------------
ServiceStep == \/ LoadSocket \/ CheckControl
               \/ Reconnect \/ Reconnected \/ ReconnectFails \/ PauseEnds
               \/ Select \/ SelectFails \/ LockForRecv
               \/ Receive \/ ReceiveFails \/ CallbackReturns \/ Toss

SendStep(t) == LockSocket(t) \/ SendReturns(t)

ServerStep == ServerStarts \/ ServerStops \/ ServerHangsUp \/ ServerSends

StopStep == Join \/ StopEnds

Next == \/ ServerStep
        \/ Start \/ StartFails \/ StartThread \/ Stop \/ StopStep
        \/ ServiceStep \/ SelectInterrupted \/ ReceiveInterrupted
        \/ \E t \in Threads : Send(t) \/ SendStep(t)

Spec == Init /\ [][Next]_vars

\* The threads run; the server does what it likes, and no signal has to come.
FairSpec == /\ Spec
            /\ WF_vars(ServiceStep) /\ WF_vars(StartThread) /\ WF_vars(StopStep)
            /\ \A t \in Threads : WF_vars(SendStep(t))

-----------------------------------------------------------------------------
(* Properties.                                                              *)

\* The shape of the state.  A thread holds socket_lock_ exactly while it is inside
\* a send or a receive: every way out of RecvData and SendTLV gives it back.
TypeOK ==
  /\ listening \in BOOLEAN /\ link \in {"up", "down"} /\ inbox \in Seq(Pieces)
  /\ msgs \in Nat /\ faults \in Nat
  /\ app \in {"stopped", "opening", "running", "joining", "closing"}
  /\ starts \in Nat /\ thread_ctrl \in BOOLEAN
  /\ reconnect_count \in Nat /\ first \in Nat
  /\ socket_ \in Nat /\ new_socket \in Nat /\ socket \in Nat /\ conns \in Nat
  /\ fds \subseteq Nat
  /\ lock \in Threads \cup {Free}
  /\ pc \in {"none", "load", "top", "reconnect", "install", "pause", "select", "woken",
             "recv", "receiving", "callback", "close", "exit"}
  /\ ready \in BOOLEAN
  /\ spc \in [Threads -> {"idle", "lock", "send"}] /\ sends \in [Threads -> Nat]
  /\ \A t \in Threads :
       lock = t <=> spc[t] = "send" \/ (t = Service /\ pc = "receiving")

\* RunThread selects on a copy of the channel's socket, RecvData receives on the
\* channel's: over every loss and reconnection they are the same open socket, so
\* the thread never watches a descriptor that was closed, and it reconnects only
\* when there is no socket that it would overwrite (gep_client.cc, "socket = -1").
CopyIsCurrent ==
  /\ pc \in {"select", "woken", "recv", "receiving", "callback", "close"} =>
       socket = socket_ /\ socket_ \in fds
  /\ pc \in {"reconnect", "install", "pause"} => socket_ = NoSocket

\* No connection is forgotten open: the client's only sockets are its channel's and
\* the one being connected, and none is left when Stop has returned or Start failed.
NoSocketLost ==
  /\ fds \subseteq {socket_, new_socket}
  /\ app = "stopped" => fds = {}

\* GetReconnectCount counts the connections made since Start, beyond its own, over
\* failed attempts and restarts.
CountIsExact ==
  app \in {"running", "joining"} =>
    reconnect_count + (IF pc = "install" THEN 1 ELSE 0) = conns - first

\* The thread is in a recv() that only the server can end, with the lock.
Blocked == pc = "receiving" /\ ~Readable

\* Stop returns, with the server up, down or away, and during the pause between
\* attempts, unless an interrupted select() has led into a recv() without data.
StopReturns == app = "joining" ~> app = "stopped" \/ Blocked

\* So does a send, whatever connection it finds.
SendsReturn == \A t \in Threads : spc[t] = "lock" ~> spc[t] = "idle" \/ Blocked

\* "on any receive error, toss the existing connection and try to reconnect"
\* (RunThread): a client that is not stopped, and whose select() works, is in the
\* end connected to a server that stays.
Reconnects ==
  <>[](listening /\ app = "running" /\ pc # "exit")
    => <>[](socket_ # NoSocket /\ link = "up")
=============================================================================
