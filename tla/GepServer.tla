------------------------------ MODULE GepServer ------------------------------
(***************************************************************************)
(* A GepServer with its GepChannelArray:                                   *)
(*   - the service thread (RunThread) selects, receives from one channel,  *)
(*     drops it on an error, and accepts one connection per round;         *)
(*   - application threads, and a callback on the service thread, send to  *)
(*     one client or to all of them;                                       *)
(*   - the application starts and stops the server;                        *)
(*   - clients connect, send and hang up.                                  *)
(* gep_channel_vector_lock_ guards gep_channel_vector_.  A section under   *)
(* this lock is one step, except the sends, which may take long.  What a   *)
(* channel does with the bytes is in GepChannel: here a client's input is  *)
(* a sequence of messages, each parsed by one RecvData.                    *)
(***************************************************************************)
EXTENDS Integers, Sequences, FiniteSets

LOCAL INSTANCE SequencesExt

CONSTANTS
  MaxChannels,    \* max_channels_
  Fds,            \* the descriptors the process may have open
  Backlog,        \* connections listen() lets wait
  Conns,          \* connections clients may make, each once
  Input,          \* Input[c]: what c's client sends
  Endless,        \* the clients that, having sent that, send it again
  Window,         \* what the kernel holds of a client's input
  Senders,        \* application threads that send
  Service,        \* the service thread
  Ids,            \* bound: the identifiers channels may get
  MaxSends,       \* bound: sends of one thread
  MaxStarts,      \* bound: calls of Start
  Interruptible,  \* a signal may interrupt the service thread's select()
  SelectMayFail,  \* select() may fail for want of memory
  AppLocks,       \* the application sends, and handles messages, under a lock of its own
  Unused, Listening, \* what a descriptor that is no connection refers to
  Free, Nobody, All  \* nobody's lock; no client; the target of a broadcast

Threads == Senders \cup {Service}

\* What one RecvData finds: a message with a callback, part of a message (or a
\* message without a callback), or what GepChannel answers CMD_ERROR to.
Pieces == {"message", "fragment", "garbage"}

ASSUME ServerAssumption ==
  /\ MaxChannels \in Nat /\ Backlog \in Nat /\ MaxSends \in Nat /\ MaxStarts \in Nat
  /\ Fds \subseteq Nat /\ Ids \subseteq Nat
  /\ Input \in [Conns -> Seq(Pieces)]
  /\ Endless \subseteq Conns /\ Window \in Nat
  /\ Interruptible \in BOOLEAN /\ SelectMayFail \in BOOLEAN /\ AppLocks \in BOOLEAN
  /\ Service \notin Senders /\ Free \notin Threads
  /\ Conns \cap {Unused, Listening} = {} /\ Unused # Listening
  /\ Nobody \notin Ids /\ All \notin Ids

VARIABLES
  link,         \* link[c]: the client's end: "new", "up" or "down"
  feed,         \* feed[c]: what the client has yet to send
  inbox,        \* inbox[c]: received by the kernel, not yet by the server
  backlog,      \* connections waiting to be accepted
  fdt,          \* fdt[f]: what descriptor f refers to
  app,          \* the application: "stopped", "running" or "joining"
  starts,       \* calls of Start so far
  thread_ctrl,
  server_socket,
  pc,           \* where the service thread is
  read_fds,
  used,         \* used_gep_channel_ptr, or Nobody
  new_socket,   \* the descriptor accept() answered last
  channels,     \* gep_channel_vector_; conn is history: the connection it is for
  last_channel_id,
  vlock,        \* who holds gep_channel_vector_lock_ over several steps
  spc, target, next, reached, failed, \* per thread: its current Send
  sends,        \* sends a thread has made
  ids, past,    \* history: clients announced, and clients withdrawn
  refused       \* history: connections accepted over the limit

net     == <<link, feed, inbox>>
control == <<app, starts, thread_ctrl>>
sockets == <<backlog, fdt, server_socket>>
loop    == <<pc, read_fds, used, new_socket>>
vector  == <<channels, last_channel_id, ids, past, refused>>
sending == <<vlock, spc, target, next, reached, failed, sends>>
world   == <<net, sockets, control, vector, sending>>
vars    == <<world, loop>>

Init ==
  /\ link = [c \in Conns |-> "new"] /\ feed = Input
  /\ inbox = [c \in Conns |-> <<>>] /\ backlog = <<>>
  /\ fdt = [f \in Fds |-> Unused]
  /\ app = "stopped" /\ starts = 0 /\ thread_ctrl = FALSE
  /\ server_socket = -1
  /\ pc = "none" /\ read_fds = {} /\ used = Nobody /\ new_socket = -1
  /\ channels = <<>> /\ last_channel_id = 0
  /\ ids = {} /\ past = {} /\ refused = {}
  /\ vlock = Free
  /\ spc = [t \in Threads |-> "idle"]
  /\ target = [t \in Threads |-> All]
  /\ next = [t \in Threads |-> 1]
  /\ reached = [t \in Threads |-> {}]
  /\ failed = [t \in Threads |-> FALSE]
  /\ sends = [t \in Threads |-> 0]

-----------------------------------------------------------------------------
(* The kernel, and the clients.                                             *)

FreeFds   == {f \in Fds : fdt[f] = Unused}
\* open() answers the lowest descriptor that is free.
LowestFd  == CHOOSE f \in FreeFds : \A g \in FreeFds : f <= g
Accepted(c) == \E f \in Fds : fdt[f] = c
Alive(c)    == Contains(backlog, c) \/ Accepted(c)

Readable(f) == \/ fdt[f] = Listening /\ backlog # <<>>
               \/ fdt[f] \in Conns /\ (inbox[fdt[f]] # <<>> \/ link[fdt[f]] = "down")

\* What was not read of a connection goes when the server closes it.
Discard(cs) == inbox' = [c \in Conns |-> IF c \in cs THEN <<>> ELSE inbox[c]]

Connect(c) ==
  /\ link[c] = "new" /\ (\E f \in Fds : fdt[f] = Listening)
  /\ Len(backlog) < Backlog
  /\ link' = [link EXCEPT ![c] = "up"]
  /\ backlog' = Append(backlog, c)
  /\ UNCHANGED <<feed, inbox, fdt, control, server_socket, loop, vector, sending>>

ClientSends(c) ==
  /\ link[c] = "up" /\ Alive(c) /\ feed[c] # <<>> /\ Len(inbox[c]) < Window
  /\ inbox' = [inbox EXCEPT ![c] = Append(@, Head(feed[c]))]
  /\ feed' = [feed EXCEPT ![c] = IF c \in Endless /\ Tail(@) = <<>> THEN Input[c] ELSE Tail(@)]
  /\ UNCHANGED <<link, sockets, control, loop, vector, sending>>

HangUp(c) ==
  /\ link[c] = "up" /\ Alive(c)
  /\ link' = [link EXCEPT ![c] = "down"]
  /\ UNCHANGED <<feed, inbox, sockets, control, loop, vector, sending>>

-----------------------------------------------------------------------------
(* The application starts and stops the server.                             *)

\* OpenServerSocket, and the service thread starts.
Start ==
  /\ app = "stopped" /\ starts < MaxStarts /\ FreeFds # {}
  /\ fdt' = [fdt EXCEPT ![LowestFd] = Listening]
  /\ server_socket' = LowestFd
  /\ app' = "running" /\ starts' = starts + 1
  /\ thread_ctrl' = TRUE /\ pc' = "top"
  /\ UNCHANGED <<net, backlog, read_fds, used, new_socket, vector, sending>>

\* socket(), bind() or listen() fails; what was opened is closed again.
StartFails == app = "stopped" /\ UNCHANGED vars

Stop ==
  /\ app = "running"
  /\ thread_ctrl' = FALSE /\ app' = "joining"
  /\ UNCHANGED <<net, sockets, starts, loop, vector, sending>>

\* Variant: nobody waits for the lock.
VectorLockIgnored == TRUE

VectorIsFree == vlock = Free

ChannelFds == {channels[i].fd : i \in DOMAIN channels}

\* Variant: the channels are left to the destructor.
ClearSocketOnly ==
  /\ app = "joining" /\ pc = "exit" /\ VectorIsFree
  /\ fdt' = [fdt EXCEPT ![server_socket] = Unused]
  /\ server_socket' = -1 /\ backlog' = <<>>
  /\ app' = "stopped" /\ pc' = "none"
  /\ UNCHANGED <<net, starts, thread_ctrl, read_fds, used, new_socket, vector, sending>>

\* join() returns, and GepChannelArray::Stop closes everything.
ClearVector ==
  /\ app = "joining" /\ pc = "exit" /\ VectorIsFree
  /\ fdt' = [f \in Fds |-> IF f \in ChannelFds \cup {server_socket}
                           THEN Unused ELSE fdt[f]]
  /\ Discard({fdt[f] : f \in ChannelFds} \cup ToSet(backlog))
  /\ server_socket' = -1 /\ backlog' = <<>>
  /\ past' = past \cup {channels[i].id : i \in DOMAIN channels}
  /\ ids' = ids \ {channels[i].id : i \in DOMAIN channels}
  /\ channels' = <<>>
  /\ app' = "stopped" /\ pc' = "none"
  /\ UNCHANGED <<link, feed, starts, thread_ctrl, read_fds, used, new_socket,
                 last_channel_id, refused, sending>>

-----------------------------------------------------------------------------
(* RunThread.                                                               *)

\* The three places where the loop looks at thread_ctrl_.
AfterTest == [top |-> "watch", woken |-> "recv", handled |-> "accept"]

CheckControl ==
  /\ pc \in DOMAIN AfterTest
  /\ pc' = IF thread_ctrl THEN AfterTest[pc] ELSE "exit"
  /\ UNCHANGED <<world, read_fds, used, new_socket>>

\* Variant: select() is called with max_fds instead of max_fds + 1.
WatchBelow == {f \in {server_socket} \cup ChannelFds : \E g \in ChannelFds : f < g}

Watched == {server_socket} \cup ChannelFds

\* FD_SET, and GetVectorReadFds.
Watch ==
  /\ pc = "watch" /\ VectorIsFree
  /\ read_fds' = Watched
  /\ pc' = "select"
  /\ UNCHANGED <<world, used, new_socket>>

\* Variant: no timeout.
SelectBlocks ==
  /\ pc = "select" /\ \E f \in read_fds : Readable(f)
  /\ read_fds' = {f \in read_fds : Readable(f)}
  /\ pc' = "woken"
  /\ UNCHANGED <<world, used, new_socket>>

\* select() answers what is readable, possibly nothing: it has a timeout.
Select ==
  /\ pc = "select"
  /\ read_fds' = {f \in read_fds : Readable(f)}
  /\ pc' = "woken"
  /\ UNCHANGED <<world, used, new_socket>>

\* EINTR: the sets are not modified, and the loop goes on.
SelectInterrupted ==
  /\ pc = "select" /\ Interruptible
  /\ pc' = "woken"
  /\ UNCHANGED <<world, read_fds, used, new_socket>>

\* Any other error: the loop is left.
SelectFails ==
  /\ pc = "select" /\ SelectMayFail
  /\ pc' = "exit"
  /\ UNCHANGED <<world, read_fds, used, new_socket>>

ReadyChannels == {i \in DOMAIN channels : channels[i].fd \in read_fds}

\* Variant: only the oldest channel is looked at.
PickOldest ==
  /\ pc = "recv" /\ VectorIsFree
  /\ IF 1 \in ReadyChannels
     THEN used' = channels[1] /\ pc' = "read"
     ELSE UNCHANGED used /\ pc' = "handled"
  /\ UNCHANGED <<world, read_fds, new_socket>>

\* GepChannelArray::RecvData takes the first channel that is ready.
PickChannel ==
  /\ pc = "recv" /\ VectorIsFree
  /\ IF ReadyChannels # {}
     THEN \E i \in ReadyChannels :
            /\ \A j \in ReadyChannels : i <= j
            /\ used' = channels[i] /\ pc' = "read"
     ELSE UNCHANGED used /\ pc' = "handled"
  /\ UNCHANGED <<world, read_fds, new_socket>>

\* GepChannel::RecvData, without the lock.
Receive ==
  /\ pc = "read" /\ inbox[used.conn] # <<>>
  /\ inbox' = [inbox EXCEPT ![used.conn] = Tail(@)]
  /\ pc' = CASE Head(inbox[used.conn]) = "message"  -> "callback"
             [] Head(inbox[used.conn]) = "fragment" -> "handled"
             [] Head(inbox[used.conn]) = "garbage"  -> "drop"
  /\ used' = IF pc' = "handled" THEN Nobody ELSE used
  /\ UNCHANGED <<link, feed, sockets, control, read_fds, new_socket, vector, sending>>

\* The client has closed or reset the connection, or there is nothing to read on
\* the non-blocking socket.
ReceiveFails ==
  /\ pc = "read"
  /\ inbox[used.conn] = <<>> \/ link[used.conn] = "down"
  /\ pc' = "drop"
  /\ UNCHANGED <<world, read_fds, used, new_socket>>

\* The application's lock is its senders' from before Send to after it, and the
\* callback's.
AppLockIsFree == pc # "locked" /\ \A t \in Senders : spc[t] = "idle"

CallbackLocks ==
  /\ pc = "callback" /\ AppLocks /\ AppLockIsFree
  /\ pc' = "locked"
  /\ UNCHANGED <<world, read_fds, used, new_socket>>

InCallback == pc = IF AppLocks THEN "locked" ELSE "callback"

CallbackReturns ==
  /\ InCallback /\ spc[Service] = "idle"
  /\ pc' = "handled" /\ used' = Nobody
  /\ UNCHANGED <<world, read_fds, new_socket>>


\* Variant: the channel is closed while it is still in the vector.
DropCloses ==
  /\ pc = "drop"
  /\ fdt' = [fdt EXCEPT ![used.fd] = Unused]
  /\ pc' = "close"
  /\ UNCHANGED <<net, backlog, control, server_socket, read_fds, used, new_socket,
                 vector, sending>>

\* Variant: the application is not told.
DropSilently ==
  /\ pc = "drop" /\ VectorIsFree
  /\ \E i \in DOMAIN channels :
       channels[i] = used /\ channels' = RemoveAt(channels, i)
  /\ pc' = "close"
  /\ UNCHANGED <<net, sockets, control, read_fds, used, new_socket, last_channel_id, ids,
                 past, refused, sending>>

\* After an error: DelClient, and the channel leaves the vector.  It is still there:
\* until Stop only this thread takes channels out.
DropChannel ==
  /\ pc = "drop" /\ VectorIsFree
  /\ \E i \in DOMAIN channels :
       channels[i] = used /\ channels' = RemoveAt(channels, i)
  /\ ids' = ids \ {used.id} /\ past' = past \cup {used.id}
  /\ pc' = "close"
  /\ UNCHANGED <<net, sockets, control, read_fds, used, new_socket, last_channel_id,
                 refused, sending>>

\* The last reference goes out of scope: ~GepChannel.
CloseChannel ==
  /\ pc = "close"
  /\ fdt' = [fdt EXCEPT ![used.fd] = Unused]
  /\ Discard({used.conn})
  /\ pc' = "handled" /\ used' = Nobody
  /\ UNCHANGED <<link, feed, backlog, control, server_socket, read_fds, new_socket,
                 vector, sending>>

NothingToAccept ==
  /\ pc = "accept" /\ server_socket \notin read_fds
  /\ pc' = "top"
  /\ UNCHANGED <<world, read_fds, used, new_socket>>

AcceptConnection ==
  /\ pc = "accept" /\ server_socket \in read_fds
  /\ backlog # <<>> /\ FreeFds # {}
  /\ fdt' = [fdt EXCEPT ![LowestFd] = Head(backlog)]
  /\ new_socket' = LowestFd
  /\ backlog' = Tail(backlog)
  /\ pc' = "add"
  /\ UNCHANGED <<net, control, server_socket, read_fds, used, vector, sending>>

\* accept() finds no connection or no free descriptor: the loop is left.
AcceptFails ==
  /\ pc = "accept" /\ server_socket \in read_fds
  /\ backlog = <<>> \/ FreeFds = {}
  /\ pc' = "exit"
  /\ UNCHANGED <<world, read_fds, used, new_socket>>

\* Variant: one channel more than the limit.
OneTooMany == Len(channels) > MaxChannels

TooManyClients == Len(channels) >= MaxChannels

\* Variant: identifiers are positions in the vector.
PositionId == Len(channels)

NextId == last_channel_id

NewChannel == [id |-> NextId, fd |-> new_socket, conn |-> fdt[new_socket]]

AddChannel ==
  /\ pc = "add" /\ VectorIsFree /\ ~TooManyClients /\ NextId \in Ids
  /\ channels' = Append(channels, NewChannel)
  /\ last_channel_id' = last_channel_id + 1
  /\ ids' = ids \cup {NextId}
  /\ pc' = "top" /\ new_socket' = -1
  /\ UNCHANGED <<net, sockets, control, read_fds, used, past, refused, sending>>

\* AcceptConnection does not look at AddChannel's error.
RefuseChannel ==
  /\ pc = "add" /\ VectorIsFree /\ TooManyClients
  /\ refused' = refused \cup {fdt[new_socket]}
  /\ pc' = "top" /\ new_socket' = -1
  /\ UNCHANGED <<net, sockets, control, read_fds, used, channels, last_channel_id, ids,
                 past, sending>>

-----------------------------------------------------------------------------
(* GepServer::Send, to all clients or to one.                               *)

\* The service thread sends in a callback, application threads at will, or when
\* they get the application's lock.
MaySend(t) == IF t = Service THEN InCallback ELSE AppLocks => AppLockIsFree

Send(t) ==
  /\ spc[t] = "idle" /\ MaySend(t) /\ sends[t] < MaxSends
  /\ \E to \in ids \cup past \cup {All} : target' = [target EXCEPT ![t] = to]
  /\ spc' = [spc EXCEPT ![t] = "lock"]
  /\ sends' = [sends EXCEPT ![t] = @ + 1]
  /\ UNCHANGED <<net, sockets, control, loop, vector, vlock, next, reached, failed>>

LockVector(t) ==
  /\ spc[t] = "lock" /\ VectorIsFree
  /\ vlock' = t
  /\ spc' = [spc EXCEPT ![t] = "send"]
  /\ UNCHANGED <<net, sockets, control, loop, vector, target, next, reached, failed,
                 sends>>

AtChannel(t) == spc[t] = "send" /\ next[t] <= Len(channels)

\* GepChannel::SendMessage succeeds or not.  A send to one client ends with it.
Deliver(t) ==
  /\ AtChannel(t)
  /\ LET id == channels[next[t]].id IN
     /\ target[t] \in {All, id}
     /\ \/ reached' = [reached EXCEPT ![t] = @ \cup {id}] /\ UNCHANGED failed
        \/ failed' = [failed EXCEPT ![t] = TRUE] /\ UNCHANGED reached
  /\ next' = [next EXCEPT ![t] = IF target[t] = All THEN @ + 1 ELSE Len(channels) + 1]
  /\ UNCHANGED <<net, sockets, control, loop, vector, vlock, spc, target, sends>>

\* Variant: the walk stays at a channel that is not the one asked for.
PassOverStays(t) ==
  /\ AtChannel(t) /\ target[t] \notin {All, channels[next[t]].id}
  /\ UNCHANGED vars

PassOver(t) ==
  /\ AtChannel(t) /\ target[t] \notin {All, channels[next[t]].id}
  /\ next' = [next EXCEPT ![t] = @ + 1]
  /\ UNCHANGED <<net, sockets, control, loop, vector, vlock, spc, target, reached,
                 failed, sends>>

\* What Send answers: no channel failed, and the one asked for was there.
Succeeds(t) == ~failed[t] /\ (target[t] # All => reached[t] # {})

SendReturns(t) ==
  /\ spc[t] = "send" /\ next[t] > Len(channels)
  /\ vlock' = Free
  /\ spc' = [spc EXCEPT ![t] = "idle"]
  /\ target' = [target EXCEPT ![t] = All]
  /\ next' = [next EXCEPT ![t] = 1]
  /\ reached' = [reached EXCEPT ![t] = {}]
  /\ failed' = [failed EXCEPT ![t] = FALSE]
  /\ UNCHANGED <<net, sockets, control, loop, vector, sends>>

-----------------------------------------------------------------------------
ServiceStep == \/ CheckControl \/ Watch \/ Select \/ PickChannel
               \/ Receive \/ ReceiveFails \/ CallbackLocks \/ CallbackReturns
               \/ DropChannel \/ CloseChannel
               \/ NothingToAccept \/ AcceptConnection \/ AcceptFails
               \/ AddChannel \/ RefuseChannel

SendStep(t) == LockVector(t) \/ Deliver(t) \/ PassOver(t) \/ SendReturns(t)

ClientStep(c) == Connect(c) \/ ClientSends(c) \/ HangUp(c)

Next == \/ Start \/ StartFails \/ Stop \/ ClearVector
        \/ ServiceStep \/ SelectInterrupted \/ SelectFails
        \/ \E t \in Threads : Send(t) \/ SendStep(t)
        \/ \E c \in Conns : ClientStep(c)

Spec == Init /\ [][Next]_vars

\* The threads run; nobody has to start, stop, connect, send or hang up.
FairSpec == /\ Spec
            /\ WF_vars(ServiceStep) /\ WF_vars(ClearVector)
            /\ \A t \in Threads : WF_vars(SendStep(t))

-----------------------------------------------------------------------------
(* Properties.                                                              *)

Channel == [id : Ids, fd : Fds, conn : Conns]

\* The shape of the state, with the limit of AddChannel.
TypeOK ==
  /\ link \in [Conns -> {"new", "up", "down"}]
  /\ feed \in [Conns -> Seq(Pieces)] /\ inbox \in [Conns -> Seq(Pieces)]
  /\ backlog \in Seq(Conns)
  /\ fdt \in [Fds -> Conns \cup {Unused, Listening}]
  /\ app \in {"stopped", "running", "joining"} /\ starts \in 0 .. MaxStarts
  /\ thread_ctrl \in BOOLEAN
  /\ server_socket \in Fds \cup {-1} /\ new_socket \in Fds \cup {-1}
  /\ pc \in {"none", "top", "watch", "select", "woken", "recv", "read", "callback",
             "locked", "drop", "close", "handled", "accept", "add", "exit"}
  /\ read_fds \subseteq Fds
  /\ used \in Channel \cup {Nobody}
  /\ channels \in Seq(Channel) /\ Len(channels) <= MaxChannels
  /\ last_channel_id \in Nat
  /\ vlock \in Threads \cup {Free}
  /\ spc \in [Threads -> {"idle", "lock", "send"}]
  /\ target \in [Threads -> Ids \cup {All}]
  /\ next \in [Threads -> Nat \ {0}]
  /\ reached \in [Threads -> SUBSET Ids] /\ failed \in [Threads -> BOOLEAN]
  /\ sends \in [Threads -> 0 .. MaxSends]
  /\ ids \subseteq Ids /\ past \subseteq Ids /\ refused \subseteq Conns

\* Every channel a send may reach owns an open descriptor, the one of the
\* connection it was made for, and the channels are in the order of their
\* identifiers: descriptors are reused, so one closed too early would be another
\* client's (RecvData erases the channel before its destructor closes it).
ChannelsAreReal ==
  \A i \in DOMAIN channels :
    /\ fdt[channels[i].fd] = channels[i].conn
    /\ \A j \in 1 .. i - 1 : channels[j].id < channels[i].id

\* No descriptor is lost: each one is the service socket, a channel's, on its way
\* into or out of the vector, or of a client refused for the limit; when Stop has
\* returned only the last are left, and no client is announced any more.
DescriptorsAccounted ==
  /\ \A f \in Fds :
       \/ fdt[f] = Unused
       \/ f = server_socket /\ fdt[f] = Listening
       \/ f \in ChannelFds
       \/ pc = "add" /\ f = new_socket
       \/ pc = "close" /\ f = used.fd
       \/ fdt[f] \in refused
  /\ app = "stopped" => server_socket = -1 /\ channels = <<>> /\ ids = {}

\* The clients the application was told of are those it can send to
\* (AddClient and DelClient against gep_channel_vector_).
Announced == ids = {channels[i].id : i \in DOMAIN channels}

\* To the application the server is a registry of clients: see ClientRegistry.
Serving == IF pc \in {"callback", "locked"} THEN used.id ELSE Nobody
Registry == INSTANCE ClientRegistry
            WITH announced <- ids, withdrawn <- past, serving <- Serving
ClientRegistrySpec == Registry!Spec

\* "Returns -1 if any of the channels fails, 0 otherwise" (gep_channel_array.cc,
\* SendMessage): a broadcast that succeeds has reached exactly the clients that
\* are announced when it returns, whoever came, went or failed meanwhile.
BroadcastIsExact ==
  [][\A t \in Threads :
       SendReturns(t) /\ target[t] = All =>
         reached[t] \subseteq ids /\ (Succeeds(t) <=> reached[t] = ids)]_vars

\* Stop returns, also while threads send and clients come and go.
StopReturns == app = "joining" ~> app = "stopped"

\* A thread that sends while it holds a lock that the message callback takes
\* returns all the same: RecvData has released the vector's lock by then
\* (GepEndToEndTest.CallbackCrossed, for the client's end).
SendsReturn == \A t \in Threads : spc[t] = "lock" ~> spc[t] = "idle"

\* A connection does not wait in the backlog for ever, however busy the channels
\* and as long as select() works: every round ends with a look at server_socket.
PendingIsAccepted ==
  \A c \in Conns : Contains(backlog, c) ~> ~Contains(backlog, c)

\* c's client has sent something, or hung up, and the server has not noticed.
Waits(c) == /\ \E i \in DOMAIN channels : channels[i].conn = c
            /\ inbox[c] # <<>> \/ link[c] = "down"

\* The channels that RecvData looks at before c's.
Before(c) == {channels[j].conn : j \in
                {k \in DOMAIN channels : \E i \in DOMAIN channels : k < i /\ channels[i].conn = c}}

\* A round serves the first channel that is ready (GepChannelArray::RecvData), so a
\* client may wait for ever behind older ones that never pause, but for no
\* other reason: not for younger clients, for connections, or for senders.
InputIsRead ==
  \A c \in Conns \ Endless : <>[]Waits(c) => []<>(\E d \in Before(c) : Waits(d))

\* "kicks off a service thread that listens on the provided TCP port"
\* (gep_server.h), and EINTR is no reason to leave the loop (RunThread): the
\* service thread ends only when the application stops the server.
ServiceStaysUp == pc = "exit" => ~thread_ctrl

\* "Each connection creates a new GEP channel" (gep_server.h).
ConnectionGetsChannel ==
  pc = "top" => \A c \in Conns :
    Accepted(c) => \E i \in DOMAIN channels : channels[i].conn = c
=============================================================================
