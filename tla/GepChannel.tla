------------------------------ MODULE GepChannel ------------------------------
(***************************************************************************)
(* The two GepChannel objects of one connection, one at each end, with the *)
(* threads that use them:                                                  *)
(*   - the service thread of an end (RunThread of GepClient or GepServer)  *)
(*     receives, parses, runs the callbacks, closes and reopens; it is     *)
(*     named after its end;                                                *)
(*   - application threads send.  A callback sends too, on the service     *)
(*     thread.                                                             *)
(* Both ends run the same code.  socket_lock_ is taken by SendTLV for the  *)
(* whole message, by Recv, by Close and to set socket_; buf_ and len_ are  *)
(* used by the service thread alone.                                       *)
(*                                                                         *)
(* A connection is identified by a number.  The kernel carries at most Cap *)
(* bytes in each direction.  A new connection is made when both ends have  *)
(* let go of the old one: the server would have a channel of its own for   *)
(* each, with a lock, a buffer and a socket that the other does not touch. *)
(***************************************************************************)
EXTENDS GepProtocol

LOCAL INSTANCE SequencesExt

CONSTANTS
  Client, Server,   \* the ends, and their service threads
  Apps,             \* application threads
  AppEnd,           \* AppEnd[t]: the end application thread t sends from
  Messages,         \* the messages of this application
  Outbox,           \* Outbox[t]: what thread t sends, in order
  Serializable,     \* the messages Serialize succeeds on
  Parseable,        \* the (tag, value) pairs Unserialize succeeds on
  Ops,              \* the tags that have a callback (GepVFT)
  Stoppable,        \* the ends whose application calls Stop
  Cap,              \* socket buffer space of one direction
  Chunks,           \* bound: what a send() or recv() moves when it does not move all it can
  MaxConns,         \* bound: connections opened in a behaviour
  Free              \* no thread: the value of a lock nobody holds

Ends    == {Client, Server}
Threads == Apps \cup Ends

\* SendTLV is given the length of a value as an int.
MaxInt == 2147483647

ASSUME ChannelAssumption ==
  /\ Client # Server
  /\ Apps \cap Ends = {}
  /\ Free \notin Threads
  /\ AppEnd \in [Apps -> Ends]
  /\ Messages \subseteq TLV
  /\ Outbox \in [Threads -> Seq(Messages)]
  /\ Serializable \subseteq Messages
  /\ Stoppable \subseteq Ends
  /\ Cap \in Nat \ {0}
  /\ Chunks \subseteq Nat
  /\ \A m \in Messages : Len(m.value) <= MaxInt
  /\ MaxConns \in Nat

NoSocket == 0

Peer(e)  == IF e = Client THEN Server ELSE Client
EndOf(t) == IF t \in Ends THEN t ELSE AppEnd[t]

VARIABLES
  socket,     \* socket[e]: socket_, the connection's number, or NoSocket (-1)
  lock,       \* lock[e]: who holds socket_lock_
  buf,        \* buf[e]: buf_[0 .. len_)
  wire,       \* wire[e]: bytes the kernel has for e and e has not received
  rpc,        \* rpc[e]: where e's service thread is
  spc,        \* spc[t]: where thread t is in SendMessage
  out,        \* out[t]: what is left of t's current SendData
  todo,       \* todo[t]: t's messages; the first is the one being sent
  conns,      \* connections opened so far
  flight,     \* history: messages on their way to e, not yet taken by it
  executed,   \* history: messages e's callbacks were given
  answered,   \* history: messages SendMessage returned 0 for
  torn        \* history: a send to e failed halfway on this connection

chan == <<socket, lock, buf, wire, rpc>>
send == <<spc, out, todo>>
hist == <<flight, executed, answered, torn>>
vars == <<chan, send, conns, hist>>

Init ==
  /\ socket   = [e \in Ends |-> NoSocket]
  /\ lock     = [e \in Ends |-> Free]
  /\ buf      = [e \in Ends |-> <<>>]
  /\ wire     = [e \in Ends |-> <<>>]
  /\ rpc      = [e \in Ends |-> "select"]
  /\ spc      = [t \in Threads |-> "idle"]
  /\ out      = [t \in Threads |-> <<>>]
  /\ todo     = Outbox
  /\ conns    = 0
  /\ flight   = [e \in Ends |-> <<>>]
  /\ executed = [e \in Ends |-> <<>>]
  /\ answered = {}
  /\ torn     = [e \in Ends |-> FALSE]

IsOpen(e)    == socket[e] # NoSocket
PeerGone(e)  == socket[Peer(e)] # socket[e]
Connected(e) == IsOpen(e) /\ ~PeerGone(e)

-----------------------------------------------------------------------------
(* SendMessage, SendString, SendTLV and SendData, on any thread.            *)

\* Application threads send at will, a service thread only in a callback.
MaySend(t) == t \in Ends => rpc[t] = "callback"

Current(t) == Head(todo[t])

\* The message is serialized before the lock is asked for.
SendMessage(t) ==
  /\ spc[t] = "idle" /\ todo[t] # <<>> /\ MaySend(t)
  /\ Current(t) \in Serializable
  /\ spc' = [spc EXCEPT ![t] = "lock"]
  /\ UNCHANGED <<chan, out, todo, conns, hist>>

SerializeFails(t) ==
  /\ spc[t] = "idle" /\ todo[t] # <<>> /\ MaySend(t)
  /\ Current(t) \notin Serializable
  /\ todo' = [todo EXCEPT ![t] = Tail(@)]
  /\ UNCHANGED <<chan, spc, out, conns, hist>>

\* Variant: nobody waits for the lock.
LockIgnored(e) == TRUE

LockIsFree(e) == lock[e] = Free

LockSocket(t) ==
  LET e == EndOf(t) IN
  /\ spc[t] = "lock" /\ LockIsFree(e)
  /\ lock' = [lock EXCEPT ![e] = t]
  /\ spc' = [spc EXCEPT ![t] = "header"]
  /\ out' = [out EXCEPT ![t] = PrintHeader(Current(t).tag, Len(Current(t).value))]
  /\ flight' = IF Connected(e)
               THEN [flight EXCEPT ![Peer(e)] = Append(@, Current(t))]
               ELSE flight
  /\ UNCHANGED <<socket, buf, wire, rpc, todo, conns, executed, answered, torn>>

InSend(t) == spc[t] \in {"header", "value"}

Room(e) == Cap - Len(wire[e])

Smaller(a, b) == IF a <= b THEN a ELSE b

\* A call moves all it can, or stops short of it.
Moves(n, all) == n <= all /\ n \in Chunks \cup {all}

\* One send(MSG_DONTWAIT): the kernel takes the first n bytes.  Once the peer
\* has closed, what it takes goes nowhere.
SendSome(t) ==
  LET e == EndOf(t) IN
  /\ InSend(t) /\ IsOpen(e)
  /\ \E n \in 1 .. Len(out[t]) :
       /\ out' = [out EXCEPT ![t] = SubSeq(@, n + 1, Len(@))]
       /\ \/ /\ ~PeerGone(e) /\ Moves(n, Smaller(Len(out[t]), Room(Peer(e))))
             /\ wire' = [wire EXCEPT ![Peer(e)] = @ \o SubSeq(out[t], 1, n)]
          \/ /\ PeerGone(e) /\ Moves(n, Len(out[t]))
             /\ UNCHANGED wire
  /\ UNCHANGED <<socket, lock, buf, rpc, spc, todo, conns, hist>>

\* Variant: a return that leaves the mutex locked.
ReturnLocked(t) ==
  /\ spc'  = [spc EXCEPT ![t] = "idle"]
  /\ out'  = [out EXCEPT ![t] = <<>>]
  /\ todo' = [todo EXCEPT ![t] = Tail(@)]
  /\ UNCHANGED <<socket, lock, buf, wire, rpc, conns, executed>>

\* The end of SendTLV: the lock_guard is released.
Return(t) ==
  /\ lock' = [lock EXCEPT ![EndOf(t)] = Free]
  /\ spc'  = [spc EXCEPT ![t] = "idle"]
  /\ out'  = [out EXCEPT ![t] = <<>>]
  /\ todo' = [todo EXCEPT ![t] = Tail(@)]
  /\ UNCHANGED <<socket, buf, wire, rpc, conns, executed>>

HeaderSent(t) ==
  /\ spc[t] = "header" /\ out[t] = <<>> /\ Current(t).value # <<>>
  /\ spc' = [spc EXCEPT ![t] = "value"]
  /\ out' = [out EXCEPT ![t] = Current(t).value]
  /\ UNCHANGED <<chan, todo, conns, hist>>

\* SendTLV returns 0: nothing of the message is left to send.
MessageSent(t) ==
  /\ InSend(t) /\ out[t] = <<>>
  /\ spc[t] = "header" => Current(t).value = <<>>
  /\ Return(t)
  /\ answered' = answered \cup {Current(t)}
  /\ UNCHANGED <<flight, torn>>

Unsent(t)   == spc[t] = "header" /\ Len(out[t]) = HdrLen
FieldLen(t) == IF spc[t] = "header" THEN HdrLen ELSE Len(Current(t).value)

\* Variant: a send that waits as long as it takes.
GivesUpOnError(t) == ~Connected(EndOf(t))

\* FullSend gives up: after kGepSendTimeoutMs of waiting for a full socket, at a
\* clock check that follows a partial send, or on an error of send().
GivesUp(t) == LET e == EndOf(t) IN
              \/ ~Connected(e)
              \/ Room(Peer(e)) = 0
              \/ Len(out[t]) < FieldLen(t)

\* SendTLV returns -1.  The socket stays open, with what was sent in the stream.
SendFails(t) ==
  LET e == EndOf(t) IN
  /\ InSend(t) /\ out[t] # <<>> /\ GivesUp(t)
  /\ Return(t)
  /\ IF Connected(e) /\ Unsent(t)
     THEN flight' = [flight EXCEPT ![Peer(e)] = SubSeq(@, 1, Len(@) - 1)]
     ELSE UNCHANGED flight
  /\ torn' = [torn EXCEPT ![Peer(e)] = @ \/ (Connected(e) /\ ~Unsent(t))]
  /\ UNCHANGED answered

-----------------------------------------------------------------------------
(* RecvData, RecvString and RecvTLV, on the service thread of e.            *)

\* Variant: recv() is given the size of the whole buffer.
WholeBuffer(e) == MaxMsgLen

\* The space recv() is given.
Space(e) == MaxMsgLen - Len(buf[e])

\* select() reports data; the lock is held for the recv() only.
Recv(e) ==
  /\ rpc[e] = "select" /\ IsOpen(e) /\ LockIsFree(e)
  /\ \E n \in 1 .. Len(wire[e]) :
       /\ Moves(n, Smaller(Len(wire[e]), Space(e)))
       /\ buf'  = [buf EXCEPT ![e] = @ \o SubSeq(wire[e], 1, n)]
       /\ wire' = [wire EXCEPT ![e] = SubSeq(@, n + 1, Len(@))]
  /\ rpc' = [rpc EXCEPT ![e] = "parse"]
  /\ UNCHANGED <<socket, lock, send, conns, hist>>

\* RecvData returns an error: the peer has closed or reset the connection (a
\* reset throws away what was not received yet), or buf_ has no room left.
RecvFails(e) ==
  /\ rpc[e] = "select" /\ IsOpen(e)
  /\ \/ PeerGone(e) /\ LockIsFree(e)
     \/ Len(buf[e]) >= MaxMsgLen
  /\ rpc' = [rpc EXCEPT ![e] = "close"]
  /\ UNCHANGED <<socket, lock, buf, wire, send, conns, hist>>

\* The loop ends: CMD_OK or CMD_FRAGMENTED.
NeedMore(b) == ~HasHeader(b) \/ (GoodHeader(b) /\ ~HasFrame(b))

ParseEnds(e) ==
  /\ rpc[e] = "parse" /\ NeedMore(buf[e])
  /\ rpc' = [rpc EXCEPT ![e] = "select"]
  /\ UNCHANGED <<socket, lock, buf, wire, send, conns, hist>>

\* Wrong magic number or value length too large: CMD_ERROR.
RejectFrame(e) ==
  /\ rpc[e] = "parse" /\ HasHeader(buf[e]) /\ ~GoodHeader(buf[e])
  /\ buf' = [buf EXCEPT ![e] = <<>>]
  /\ rpc' = [rpc EXCEPT ![e] = "close"]
  /\ UNCHANGED <<socket, lock, wire, send, conns, hist>>

\* The rest of the queue q once m has been taken from it.
After(q, m) ==
  IF \E i \in DOMAIN q : q[i] = m
  THEN LET i == CHOOSE k \in DOMAIN q : q[k] = m /\ \A j \in 1 .. k - 1 : q[j] # m
       IN  SubSeq(q, i + 1, Len(q))
  ELSE q

Take(e) == flight' = [flight EXCEPT ![e] = After(@, Scan(buf[e]))]

\* Variant: len_ is not lowered when nothing is left behind the message.
ShiftLeftover(e) ==
  buf' = [buf EXCEPT ![e] = IF ShiftFrame(@) = <<>> THEN @ ELSE ShiftFrame(@)]

Shift(e) == buf' = [buf EXCEPT ![e] = ShiftFrame(@)]

\* No callback for this tag: CMD_DROPPED.
DropFrame(e) ==
  /\ rpc[e] = "parse" /\ HasFrame(buf[e]) /\ ScanTag(buf[e]) \notin Ops
  /\ Shift(e)
  /\ Take(e)
  /\ UNCHANGED <<socket, lock, wire, rpc, send, conns, executed, answered, torn>>

\* CMD_ERROR, with the message left in the buffer.
UnserializeFails(e) ==
  /\ rpc[e] = "parse" /\ HasFrame(buf[e]) /\ ScanTag(buf[e]) \in Ops
  /\ Scan(buf[e]) \notin Parseable
  /\ rpc' = [rpc EXCEPT ![e] = "close"]
  /\ UNCHANGED <<socket, lock, buf, wire, send, conns, hist>>

\* The callback is called, without the lock.
Dispatch(e) ==
  /\ rpc[e] = "parse" /\ HasFrame(buf[e]) /\ ScanTag(buf[e]) \in Ops
  /\ Scan(buf[e]) \in Parseable
  /\ rpc' = [rpc EXCEPT ![e] = "callback"]
  /\ Take(e)
  /\ executed' = [executed EXCEPT ![e] = Append(@, Scan(buf[e]))]
  /\ UNCHANGED <<socket, lock, buf, wire, send, conns, answered, torn>>

\* Variant: one message per recv().
CallbackEndsParse(e) ==
  /\ rpc[e] = "callback" /\ spc[e] = "idle"
  /\ Shift(e)
  /\ rpc' = [rpc EXCEPT ![e] = "select"]
  /\ UNCHANGED <<socket, lock, wire, send, conns, hist>>

\* Its result is only logged.
CallbackReturns(e) ==
  /\ rpc[e] = "callback" /\ spc[e] = "idle"
  /\ Shift(e)
  /\ rpc' = [rpc EXCEPT ![e] = "parse"]
  /\ UNCHANGED <<socket, lock, wire, send, conns, hist>>

-----------------------------------------------------------------------------
(* Opening and closing.                                                     *)

\* The application stops the service thread between two rounds of its loop.
Stop(e) ==
  /\ e \in Stoppable /\ rpc[e] = "select" /\ IsOpen(e)
  /\ rpc' = [rpc EXCEPT ![e] = "close"]
  /\ UNCHANGED <<socket, lock, buf, wire, send, conns, hist>>

\* Variant: len_ survives the connection.
CloseKeepsBuffer(e) ==
  /\ rpc[e] = "close" /\ LockIsFree(e)
  /\ socket' = [socket EXCEPT ![e] = NoSocket]
  /\ wire'   = [wire EXCEPT ![e] = <<>>]
  /\ flight' = [flight EXCEPT ![e] = <<>>]
  /\ rpc'    = [rpc EXCEPT ![e] = "select"]
  /\ UNCHANGED <<lock, buf, send, conns, executed, answered, torn>>

\* Close of the client's channel, or the destructor of the server's.
Close(e) ==
  /\ rpc[e] = "close" /\ LockIsFree(e)
  /\ socket' = [socket EXCEPT ![e] = NoSocket]
  /\ buf'    = [buf EXCEPT ![e] = <<>>]
  /\ wire'   = [wire EXCEPT ![e] = <<>>]
  /\ flight' = [flight EXCEPT ![e] = <<>>]
  /\ rpc'    = [rpc EXCEPT ![e] = "select"]
  /\ UNCHANGED <<lock, send, conns, executed, answered, torn>>

\* OpenClientSocket at the client; AcceptConnection and AddChannel make a new
\* channel at the server.
Open ==
  /\ \A e \in Ends : ~IsOpen(e) /\ LockIsFree(e)
  /\ conns < MaxConns
  /\ conns'  = conns + 1
  /\ socket' = [e \in Ends |-> conns + 1]
  /\ torn'   = [e \in Ends |-> FALSE]
  /\ UNCHANGED <<lock, buf, wire, rpc, send, flight, executed, answered>>

-----------------------------------------------------------------------------
\* Nothing is left to do: every message is sent and all that arrived is read.
Quiescent ==
  /\ \A t \in Threads : spc[t] = "idle"
  /\ \A t \in Apps : todo[t] = <<>>
  /\ \A e \in Ends : rpc[e] = "select" /\ ~PeerGone(e) /\ wire[e] = <<>>
  /\ IsOpen(Client) \/ conns = MaxConns

Idle == Quiescent /\ UNCHANGED vars

SendStep(t) == \/ SendMessage(t) \/ SerializeFails(t) \/ LockSocket(t)
               \/ SendSome(t) \/ HeaderSent(t) \/ MessageSent(t) \/ SendFails(t)

ServiceStep(e) == \/ Recv(e) \/ RecvFails(e) \/ ParseEnds(e) \/ RejectFrame(e)
                  \/ DropFrame(e) \/ UnserializeFails(e) \/ Dispatch(e)
                  \/ CallbackReturns(e) \/ Close(e)

Next == \/ \E t \in Threads : SendStep(t)
        \/ \E e \in Ends : ServiceStep(e) \/ Stop(e)
        \/ Open
        \/ Idle

Spec == Init /\ [][Next]_vars

\* Every thread runs, FullSend does not wait beyond its timeout, and the client
\* reconnects; nobody has to call Stop.
Fairness == /\ \A t \in Threads : WF_vars(SendStep(t))
            /\ \A e \in Ends : WF_vars(ServiceStep(e))
            /\ WF_vars(Open)

FairSpec == Spec /\ Fairness

-----------------------------------------------------------------------------
(* Properties.                                                              *)

\* The shape of the state.  That len_ never exceeds sizeof(buf_) is part of it:
\* RecvData hands recv() the space that is left (gep_channel.cc, RecvData); a
\* thread inside SendMessage has a message to send, and a callback's message stays
\* in the buffer until the callback returns.
TypeOK ==
  /\ socket   \in [Ends -> 0 .. MaxConns]
  /\ lock     \in [Ends -> Threads \cup {Free}]
  /\ buf      \in [Ends -> Bytes]
  /\ \A e \in Ends : Len(buf[e]) <= MaxMsgLen
  /\ wire     \in [Ends -> Bytes]
  /\ rpc      \in [Ends -> {"select", "parse", "callback", "close"}]
  /\ \A e \in Ends : rpc[e] = "callback" => HasFrame(buf[e])
  /\ spc      \in [Threads -> {"idle", "lock", "header", "value"}]
  /\ out      \in [Threads -> Bytes]
  /\ todo     \in [Threads -> Seq(Messages)]
  /\ \A t \in Threads : spc[t] # "idle" => todo[t] # <<>>
  /\ conns    \in 0 .. MaxConns
  /\ flight   \in [Ends -> Seq(Messages)]
  /\ executed \in [Ends -> Seq(TLV)]
  /\ answered \subseteq Messages
  /\ torn     \in [Ends -> BOOLEAN]

\* A thread is between the start and the end of a message exactly while it holds
\* its end's socket_lock_, so at most one thread of an end is, and every way out
\* of SendTLV, the early returns included, gives the lock back.
LockInv ==
  \A t \in Threads : InSend(t) <=> lock[EndOf(t)] = t

\* Whenever the service thread goes back to select(), buf_ has room for at least
\* one more byte: however the peer cuts or garbles the stream, RecvData never
\* meets the full buffer it answers -1 to, which no more data could ever empty
\* (the length check of RecvString is what guarantees it).
BufferHasRoom ==
  \A e \in Ends : rpc[e] = "select" => Len(buf[e]) < MaxMsgLen

\* What e has received and not consumed.  During a callback the message is still
\* in the buffer.
Unconsumed(e) == IF rpc[e] = "callback" THEN ShiftFrame(buf[e]) ELSE buf[e]

\* What the sender that holds the other end's lock has yet to put on the stream.
StillToSend(e) ==
  LET t == lock[Peer(e)] IN
  IF t = Free \/ ~Connected(e) THEN <<>>
  ELSE IF spc[t] = "header" THEN out[t] \o Current(t).value ELSE out[t]

\* As long as no send has failed halfway, the receiver's buffer, the kernel's
\* and what a sender still holds make up, byte for byte, the frames of the
\* messages under way, in order: headers and values of different threads never
\* mix, nothing of an earlier connection is left over, and the parser stands at
\* a frame boundary ("to ensure header and data are sent consecutively",
\* gep_channel.cc SendTLV; len_ = 0 in Close).
StreamInSync ==
  \A e \in Ends : IsOpen(e) /\ ~torn[e] /\ rpc[e] # "close" =>
    Unconsumed(e) \o wire[e] \o StillToSend(e)
      = FlattenSeq([i \in DOMAIN flight[e] |-> Frame(flight[e][i])])

\* The channels implement the promise of gep_channel_array.h, as far as it can be
\* kept: until a send to e has failed halfway, e executes the messages sent to it, in
\* the order of the sends, each once, none handled is left out before the end of
\* the connection, and nothing else is executed, over any sequence of partial
\* sends and receives, refused messages and reconnections.  What happens
\* after such a send is in ExecutesWhatWasSent and LossIsReported.
Promise == INSTANCE ZeroOrOne
           WITH queue <- flight, broken <- torn, Handled <- {m \in Messages : m.tag \in Ops}
ZeroOrOneSpec == Promise!Spec

\* "Non-idempotent (zero-or-one) execution semantics.  A message sent may or may
\* not arrive to the receiver" (gep_channel_array.h): a callback is given only
\* messages that were sent.
ExecutesWhatWasSent ==
  \A e \in Ends : \A i \in DOMAIN executed[e] : executed[e][i] \in Messages

\* A call of SendMessage always returns, even when both ends' senders hold their
\* locks, and so keep their receivers out, with both directions full: the send
\* timeout (kGepSendTimeoutMs) breaks the tie.
SendReturns ==
  \A t \in Threads : spc[t] = "lock" ~> spc[t] = "idle"

\* A message does not stay under way for ever on a stream that is intact: it is
\* executed or dropped, or its connection is closed (the loop of RecvString goes
\* on until no complete message is left in the buffer).
InFlightSettles ==
  \A e \in Ends : \A m \in Messages :
    (Contains(flight[e], m) /\ ~torn[e]) ~> (~Contains(flight[e], m) \/ torn[e])

\* "We provide an error when it does not [arrive]" (gep_channel_array.h): a
\* message SendMessage answered 0 for is under way or was executed.
LossIsReported ==
  \A m \in answered : \E e \in Ends :
    Contains(flight[e], m) \/ Contains(executed[e], m)
=============================================================================
