--------------------------- MODULE GepServerProofs ---------------------------
(***************************************************************************)
(* A server's channels, their identifiers and its descriptors agree for    *)
(* any number of clients, threads, messages and restarts; its broadcasts   *)
(* are exact, and to its application it is a registry of clients.          *)
(***************************************************************************)
EXTENDS GepServer, SequenceLemmas

LOCAL INSTANCE SequencesExt

-----------------------------------------------------------------------------
(* The inductive invariant.                                                 *)

\* Where the service thread is while the server runs, and which channel and which
\* socket it has at hand.
Places ==
  /\ pc = "none" <=> app = "stopped"
  /\ pc \in {"read", "callback", "locked", "drop"} =>
       \E i \in DOMAIN channels : channels[i] = used
  /\ pc = "add" => new_socket \in Fds
  /\ pc = "close" => used \in Channel

\* Identifiers grow along the vector and are never given again.
Names ==
  /\ \A i \in DOMAIN channels : \A j \in 1 .. i - 1 : channels[j].id < channels[i].id
  /\ \A i \in DOMAIN channels : channels[i].id < last_channel_id
  /\ \A id \in past : id < last_channel_id /\ id \notin ids
  /\ Announced

\* Every descriptor of a channel, old, new or about to be closed, is its own.
Descriptors ==
  /\ \A i \in DOMAIN channels : fdt[channels[i].fd] = channels[i].conn
  /\ \A i, j \in DOMAIN channels : channels[i].fd = channels[j].fd => i = j
  /\ pc = "add" => fdt[new_socket] \in Conns /\ new_socket \notin ChannelFds
  /\ pc = "close" => fdt[used.fd] \in Conns /\ used.fd \notin ChannelFds
  /\ IF app = "stopped" THEN server_socket = -1 /\ channels = <<>>
                        ELSE server_socket \in Fds /\ fdt[server_socket] = Listening

\* No open descriptor is without an owner, but those of refused clients.
Owners ==
  \A f \in Fds : \/ fdt[f] = Unused
                 \/ f = server_socket /\ fdt[f] = Listening
                 \/ f \in ChannelFds
                 \/ pc = "add" /\ f = new_socket
                 \/ pc = "close" /\ f = used.fd
                 \/ fdt[f] \in refused

\* The channels a send has passed.
Passed(t) == {channels[i].id : i \in 1 .. next[t] - 1}

\* The vector's lock is a sender's until it has passed all channels, and a broadcast
\* has reached those that it has passed, unless one of them failed.
Sends ==
  \A t \in Threads :
    /\ vlock = t <=> spc[t] = "send"
    /\ next[t] \in 1 .. Len(channels) + 1
    /\ spc[t] # "send" => next[t] = 1 /\ reached[t] = {} /\ ~failed[t]
    /\ target[t] = All => /\ reached[t] \subseteq Passed(t)
                          /\ failed[t] <=> reached[t] # Passed(t)

Inv == TypeOK /\ Places /\ Names /\ Descriptors /\ Owners /\ Sends

-----------------------------------------------------------------------------
(* What the steps leave alone.                                              *)

\* The vector is changed under its lock, by three steps (gep_channel_vector_).
LEMMA VectorKept ==
  ASSUME [Next]_vars, ~ AddChannel, ~ DropChannel, ~ ClearVector
  PROVE  UNCHANGED <<channels, last_channel_id, ids, past>>
  <1>1. CASE Start \/ StartFails \/ Stop \/ UNCHANGED vars
    BY <1>1 DEF Start, StartFails, Stop, vars, world, vector
  <1>2. CASE \E c \in Conns : ClientStep(c)
    BY <1>2 DEF ClientStep, Connect, ClientSends, HangUp, vector
  <1>3. CASE \E t \in Threads : Send(t) \/ SendStep(t)
    BY <1>3 DEF Send, SendStep, LockVector, Deliver, PassOver, SendReturns, vector
  <1>4. CASE ServiceStep \/ SelectInterrupted \/ SelectFails
    BY <1>4 DEF ServiceStep, SelectInterrupted, SelectFails, CheckControl, Watch, Select,
                PickChannel,
                Receive, ReceiveFails, CallbackLocks, CallbackReturns, CloseChannel,
                NothingToAccept, AcceptConnection, AcceptFails, RefuseChannel,
                world, vector
  <1> QED BY <1>1, <1>2, <1>3, <1>4 DEF Next

\* A send changes only what belongs to sends, and nothing else does.
LEMMA SendingKept ==
  ASSUME [Next]_vars, ~ \E t \in Threads : Send(t) \/ SendStep(t)
  PROVE  UNCHANGED sending
  <1>1. CASE Start \/ StartFails \/ Stop \/ ClearVector \/ UNCHANGED vars
    BY <1>1 DEF Start, StartFails, Stop, ClearVector, vars, world
  <1>2. CASE \E c \in Conns : ClientStep(c)
    BY <1>2 DEF ClientStep, Connect, ClientSends, HangUp
  <1>3. CASE ServiceStep \/ SelectInterrupted \/ SelectFails
    BY <1>3 DEF ServiceStep, SelectInterrupted, SelectFails, CheckControl, Watch, Select,
                PickChannel,
                Receive, ReceiveFails, CallbackLocks, CallbackReturns, CloseChannel,
                NothingToAccept, AcceptConnection, AcceptFails, RefuseChannel,
                AddChannel, DropChannel, world
  <1> QED BY <1>1, <1>2, <1>3 DEF Next

\* Without its element i, a sequence still has its other elements, in order.
LEMMA RemovalHere ==
  ASSUME NEW S, NEW s \in Seq(S), NEW i \in DOMAIN s
  PROVE  LET r == RemoveAt(s, i) IN
         /\ r \in Seq(S) /\ Len(r) = Len(s) - 1
         /\ \A j \in 1 .. Len(s) - 1 : r[j] = IF j < i THEN s[j] ELSE s[j + 1]
  <1>1. i \in 1 .. Len(s)
    BY LenProperties
  <1> QED BY <1>1, Removal DEF RemoveAt

\* open() and accept() answer a descriptor that is free.
LEMMA LowestIsFree ==
  ASSUME FreeFds # {}
  PROVE  LowestFd \in Fds /\ fdt[LowestFd] = Unused
  <1>1. FreeFds \subseteq Nat
    BY ServerAssumption DEF FreeFds
  <1>2. \E f \in FreeFds : \A g \in FreeFds : f <= g
    <2> HIDE DEF FreeFds
    <2> QED BY <1>1, Least
  <1>3. LowestFd \in FreeFds
    BY <1>2 DEF LowestFd
  <1> QED BY <1>3 DEF FreeFds

\* A channel has an identifier, a descriptor and a connection.
LEMMA ChannelType ==
  ASSUME TypeOK, NEW i \in DOMAIN channels
  PROVE  /\ channels[i] \in Channel /\ channels[i].id \in Ids
         /\ channels[i].fd \in Fds /\ channels[i].conn \in Conns
  <1>1. channels \in Seq(Channel)
    BY DEF TypeOK
  <1>2. channels[i] \in Channel
    BY <1>1, ElementOfSeq, LenProperties
  <1> QED BY <1>2 DEF Channel

-----------------------------------------------------------------------------
(* Before the first Start.                                                  *)

\* The constructors leave everything empty.
LEMMA InvInit == Init => Inv
  <1> SUFFICES ASSUME Init PROVE Inv
    OBVIOUS
  <1>1. TypeOK
    <2>1. /\ feed \in [Conns -> Seq(Pieces)] /\ inbox \in [Conns -> Seq(Pieces)]
          /\ link \in [Conns -> {"new", "up", "down"}]
          /\ backlog \in Seq(Conns) /\ channels = <<>> /\ channels \in Seq(Channel)
      BY ServerAssumption DEF Init
    <2>2. Len(channels) <= MaxChannels
      BY <2>1, ServerAssumption
    <2>3. /\ spc \in [Threads -> {"idle", "lock", "send"}]
          /\ target \in [Threads -> Ids \cup {All}]
          /\ next \in [Threads -> Nat \ {0}]
          /\ reached \in [Threads -> SUBSET Ids] /\ failed \in [Threads -> BOOLEAN]
          /\ sends \in [Threads -> 0 .. MaxSends]
      BY ServerAssumption DEF Init
    <2>4. /\ fdt \in [Fds -> Conns \cup {Unused, Listening}]
          /\ app = "stopped" /\ thread_ctrl \in BOOLEAN
          /\ server_socket = -1 /\ new_socket = -1
      BY DEF Init
    <2>6. starts \in 0 .. MaxStarts /\ last_channel_id \in Nat
      BY ServerAssumption DEF Init
    <2>5. /\ pc = "none" /\ read_fds = {} /\ used = Nobody /\ vlock = Free
          /\ ids = {} /\ past = {} /\ refused = {}
      BY DEF Init
    <2> QED BY <2>1, <2>2, <2>3, <2>4, <2>5, <2>6 DEF TypeOK
  <1>2. channels = <<>> /\ DOMAIN channels = {} /\ Len(channels) = 0
    BY DEF Init
  <1>3. Places /\ Names /\ Descriptors /\ Owners
    BY <1>2 DEF Init, Places, Names, Announced, Descriptors, Owners
  <1>4. Sends
    BY <1>2, ServerAssumption DEF Init, Sends, Passed
  <1> QED BY <1>1, <1>3, <1>4 DEF Inv

-----------------------------------------------------------------------------
(* The types.                                                               *)

\* What clients and the application do.
LEMMA TypeWorld ==
  ASSUME Inv, Start \/ Stop \/ ClearVector \/ \E c \in Conns : ClientStep(c)
  PROVE  TypeOK'
  <1> USE DEF Inv, TypeOK
  <1>1. CASE Start
    <2>1. fdt' \in [Fds -> Conns \cup {Unused, Listening}] /\ server_socket' \in Fds
      BY <1>1, LowestIsFree DEF Start
    <2>2. starts' \in 0 .. MaxStarts
      BY <1>1, ServerAssumption DEF Start
    <2> QED BY <1>1, <2>1, <2>2 DEF Start, net, vector, sending
  <1>2. CASE Stop
    BY <1>2 DEF Stop, net, sockets, loop, vector, sending
  <1>3. CASE ClearVector
    <2>1. /\ fdt' \in [Fds -> Conns \cup {Unused, Listening}]
          /\ inbox' \in [Conns -> Seq(Pieces)]
      BY <1>3 DEF ClearVector, Discard
    <2>2. past' \subseteq Ids /\ ids' \subseteq Ids
      BY <1>3, ChannelType DEF ClearVector
    <2>3. channels' \in Seq(Channel) /\ Len(channels') <= MaxChannels
          /\ backlog' \in Seq(Conns)
      BY <1>3, ServerAssumption DEF ClearVector
    <2> QED BY <1>3, <2>1, <2>2, <2>3 DEF ClearVector, sending
  <1>4. ASSUME NEW c \in Conns, ClientStep(c) PROVE TypeOK'
    <2>1. CASE Connect(c)
      BY <1>4, <2>1 DEF Connect, control, loop, vector, sending
    <2>2. CASE ClientSends(c)
      <3>1. inbox' \in [Conns -> Seq(Pieces)] /\ feed' \in [Conns -> Seq(Pieces)]
        <4>1. /\ inbox \in [Conns -> Seq(Pieces)] /\ feed[c] \in Seq(Pieces) /\ feed[c] # <<>>
              /\ feed \in [Conns -> Seq(Pieces)] /\ Input[c] \in Seq(Pieces)
          BY <1>4, <2>2, ServerAssumption DEF ClientSends
        <4>2. /\ Append(inbox[c], Head(feed[c])) \in Seq(Pieces)
              /\ Tail(feed[c]) \in Seq(Pieces)
          BY <4>1, HeadTailProperties, AppendProperties
        <4>3. /\ inbox' = [inbox EXCEPT ![c] = Append(inbox[c], Head(feed[c]))]
              /\ \E s \in {Input[c], Tail(feed[c])} : feed' = [feed EXCEPT ![c] = s]
          BY <2>2 DEF ClientSends
        <4> QED BY <4>1, <4>2, <4>3
      <3> QED BY <2>2, <3>1 DEF ClientSends, sockets, control, loop, vector, sending
    <2>3. CASE HangUp(c)
      BY <1>4, <2>3 DEF HangUp, sockets, control, loop, vector, sending
    <2> QED BY <1>4, <2>1, <2>2, <2>3 DEF ClientStep
  <1> QED BY <1>1, <1>2, <1>3, <1>4

\* RunThread up to a channel's RecvData.
LEMMA TypeLoop ==
  ASSUME Inv, \/ CheckControl \/ Watch \/ Select \/ SelectInterrupted \/ SelectFails
              \/ PickChannel
              \/ ReceiveFails \/ CallbackLocks \/ CallbackReturns
              \/ NothingToAccept \/ AcceptFails
  PROVE  TypeOK'
  <1>1. UNCHANGED world /\ new_socket' = new_socket
    BY DEF CheckControl, Watch, Select, SelectInterrupted, SelectFails,
           PickChannel, ReceiveFails,
           CallbackLocks, CallbackReturns, NothingToAccept, AcceptFails
  <1>2. read_fds' \subseteq Fds
    <2>1. ChannelFds \subseteq Fds
      BY ChannelType DEF Inv, ChannelFds
    <2>2. CASE Watch
      BY <2>1, <2>2 DEF Watch, Watched, Inv, Places, Descriptors
    <2> QED BY <2>2 DEF CheckControl, Select, SelectInterrupted, SelectFails,
                        PickChannel,
                        ReceiveFails, CallbackLocks, CallbackReturns, NothingToAccept,
                        AcceptFails, Inv, TypeOK
  <1>3. used' \in Channel \cup {Nobody}
    BY DEF CheckControl, Watch, Select, SelectInterrupted, SelectFails,
           PickChannel, ReceiveFails,
           CallbackLocks, CallbackReturns, NothingToAccept, AcceptFails, ReadyChannels,
           Inv, TypeOK
  <1>4. pc' \in {"none", "top", "watch", "select", "woken", "recv", "read", "callback",
                 "locked", "drop", "close", "handled", "accept", "add", "exit"}
    BY DEF CheckControl, AfterTest, Watch, Select, SelectInterrupted, SelectFails,
           PickChannel,
           ReceiveFails, CallbackLocks, CallbackReturns, NothingToAccept, AcceptFails
  <1> QED BY <1>1, <1>2, <1>3, <1>4
          DEF world, net, sockets, control, vector, sending, Inv, TypeOK

\* What the service thread receives, drops, accepts and adds.
LEMMA TypeChannels ==
  ASSUME Inv, \/ Receive \/ DropChannel \/ CloseChannel
              \/ AcceptConnection \/ AddChannel \/ RefuseChannel
  PROVE  TypeOK'
  <1> USE DEF Inv, TypeOK
  <1>1. CASE Receive
    <2>1. PICK i \in DOMAIN channels : channels[i] = used
      BY <1>1 DEF Receive, Places
    <2>2. used.conn \in Conns
      BY <2>1, ChannelType
    <2>3. inbox' \in [Conns -> Seq(Pieces)] /\ Head(inbox[used.conn]) \in Pieces
      BY <1>1, <2>2 DEF Receive
    <2>4. pc' \in {"callback", "handled", "drop"}
      BY <1>1, <2>3 DEF Receive, Pieces
    <2> QED BY <1>1, <2>3, <2>4 DEF Receive, sockets, control, vector, sending
  <1>2. CASE DropChannel
    <2>1. PICK i \in DOMAIN channels :
            channels[i] = used /\ channels' = RemoveAt(channels, i)
      BY <1>2 DEF DropChannel
    <2>2. channels' \in Seq(Channel) /\ Len(channels') <= MaxChannels
      BY <2>1, RemovalHere, ServerAssumption, LenProperties
    <2>3. used.id \in Ids
      BY <2>1, ChannelType
    <2> QED BY <1>2, <2>2, <2>3 DEF DropChannel, net, sockets, control, sending
  <1>3. CASE CloseChannel
    <2>1. fdt' \in [Fds -> Conns \cup {Unused, Listening}]
      BY <1>3 DEF CloseChannel
    <2>2. inbox' \in [Conns -> Seq(Pieces)]
      BY <1>3 DEF CloseChannel, Discard
    <2> QED BY <1>3, <2>1, <2>2 DEF CloseChannel, control, vector, sending
  <1>4. CASE AcceptConnection
    <2>1. Head(backlog) \in Conns /\ Tail(backlog) \in Seq(Conns)
      BY <1>4 DEF AcceptConnection
    <2> QED BY <1>4, <2>1, LowestIsFree
            DEF AcceptConnection, net, control, vector, sending
  <1>5. CASE AddChannel
    <2>1. NewChannel \in Channel
      BY <1>5 DEF AddChannel, NewChannel, Channel, Places, Descriptors
    <2>2. channels' \in Seq(Channel) /\ Len(channels') = Len(channels) + 1
      BY <1>5, <2>1 DEF AddChannel
    <2>3. Len(channels') <= MaxChannels
      BY <1>5, <2>2, ServerAssumption, LenProperties DEF AddChannel, TooManyClients
    <2> QED BY <1>5, <2>2, <2>3 DEF AddChannel, net, sockets, control, sending
  <1>6. CASE RefuseChannel
    BY <1>6 DEF RefuseChannel, Descriptors, net, sockets, control, sending
  <1> QED BY <1>1, <1>2, <1>3, <1>4, <1>5, <1>6

\* A thread's send.
LEMMA TypeSend ==
  ASSUME Inv, NEW t \in Threads, Send(t) \/ SendStep(t)
  PROVE  TypeOK'
  <1> USE DEF Inv, TypeOK
  <1>1. CASE Send(t)
    <2>1. target' \in [Threads -> Ids \cup {All}]
      BY <1>1 DEF Send
    <2>2. sends' \in [Threads -> 0 .. MaxSends]
      BY <1>1, ServerAssumption DEF Send
    <2> QED BY <1>1, <2>1, <2>2 DEF Send, net, sockets, control, loop, vector
  <1>2. CASE LockVector(t)
    BY <1>2 DEF LockVector, net, sockets, control, loop, vector
  <1>3. CASE Deliver(t)
    <2>1. next[t] \in DOMAIN channels /\ Len(channels) \in Nat
      BY <1>3, LenProperties DEF Deliver, AtChannel
    <2>2. channels[next[t]].id \in Ids
      BY <2>1, ChannelType
    <2>3. next' \in [Threads -> Nat \ {0}]
      BY <1>3, <2>1 DEF Deliver
    <2>4. CASE reached' = [reached EXCEPT ![t] = @ \cup {channels[next[t]].id}]
                /\ UNCHANGED failed
      BY <1>3, <2>2, <2>3, <2>4 DEF Deliver, net, sockets, control, loop, vector
    <2>5. CASE failed' = [failed EXCEPT ![t] = TRUE] /\ UNCHANGED reached
      BY <1>3, <2>3, <2>5 DEF Deliver, net, sockets, control, loop, vector
    <2> QED BY <1>3, <2>4, <2>5 DEF Deliver
  <1>4. CASE PassOver(t)
    <2>1. next' \in [Threads -> Nat \ {0}]
      BY <1>4 DEF PassOver
    <2> QED BY <1>4, <2>1 DEF PassOver, net, sockets, control, loop, vector
  <1>5. CASE SendReturns(t)
    <2>1. /\ target' \in [Threads -> Ids \cup {All}] /\ next' \in [Threads -> Nat \ {0}]
          /\ reached' \in [Threads -> SUBSET Ids] /\ failed' \in [Threads -> BOOLEAN]
          /\ spc' \in [Threads -> {"idle", "lock", "send"}]
      BY <1>5 DEF SendReturns
    <2> QED BY <1>5, <2>1 DEF SendReturns, net, sockets, control, loop, vector
  <1> QED BY <1>1, <1>2, <1>3, <1>4, <1>5 DEF SendStep

\* Every step keeps the types.
LEMMA TypeStep == Inv /\ [Next]_vars => TypeOK'
  <1> SUFFICES ASSUME Inv, [Next]_vars PROVE TypeOK'
    OBVIOUS
  <1>1. CASE StartFails \/ UNCHANGED vars
    BY <1>1 DEF StartFails, vars, world, net, sockets, control, vector, sending, loop,
                Inv, TypeOK
  <1> QED BY <1>1, TypeWorld, TypeLoop, TypeChannels, TypeSend DEF Next, ServiceStep

-----------------------------------------------------------------------------
(* Where the service thread is.                                             *)

\* Every step keeps Places.
LEMMA PlacesStep == Inv /\ [Next]_vars => Places'
  <1> SUFFICES ASSUME Inv, [Next]_vars PROVE Places'
    OBVIOUS
  <1> USE DEF Places
  <1>1. CASE Start \/ ClearVector
    BY <1>1 DEF Start, ClearVector
  <1>2. CASE \/ Stop \/ StartFails \/ UNCHANGED vars \/ \E c \in Conns : ClientStep(c)
            \/ \E t \in Threads : Send(t) \/ SendStep(t)
    <2>1. CASE Stop
      BY <2>1 DEF Stop, loop, vector, Inv, Channel
    <2>2. CASE StartFails \/ UNCHANGED vars
      BY <2>2 DEF StartFails, vars, world, loop, vector, control, Inv, Channel
    <2>3. ASSUME NEW c \in Conns, ClientStep(c) PROVE Places'
      BY <2>3 DEF ClientStep, Connect, ClientSends, HangUp, loop, vector, control, Inv,
                  Channel
    <2>4. ASSUME NEW t \in Threads, Send(t) \/ SendStep(t) PROVE Places'
      BY <2>4 DEF Send, SendStep, LockVector, Deliver, PassOver, SendReturns, loop, vector,
                  control, Inv, Channel
    <2> QED BY <1>2, <2>1, <2>2, <2>3, <2>4
  <1>3. CASE \/ CheckControl \/ Watch \/ Select \/ SelectInterrupted \/ SelectFails
            \/ PickChannel
            \/ ReceiveFails \/ CallbackLocks \/ CallbackReturns
            \/ NothingToAccept \/ AcceptFails
    <2>1. app' = app /\ channels' = channels
      BY <1>3 DEF CheckControl, Watch, Select, SelectInterrupted, SelectFails,
                  PickChannel,
                  ReceiveFails, CallbackLocks, CallbackReturns, NothingToAccept,
                  AcceptFails, world, control, vector
    <2>2. CASE PickChannel
      BY <2>1, <2>2 DEF PickChannel, ReadyChannels, Inv
    <2>3. CASE ReceiveFails \/ CallbackLocks
      BY <2>1, <2>3 DEF ReceiveFails, CallbackLocks, Inv
    <2>4. CASE CheckControl
      BY <2>1, <2>4 DEF CheckControl, AfterTest, Inv
    <2>5. CASE Watch \/ Select \/ SelectInterrupted \/ SelectFails
      BY <2>1, <2>5 DEF Watch, Select, SelectInterrupted, SelectFails, Inv
    <2>6. CASE CallbackReturns \/ NothingToAccept \/ AcceptFails
      <3>1. pc # "none" /\ pc' \in {"handled", "top", "exit"}
        BY <2>6 DEF CallbackReturns, InCallback, NothingToAccept, AcceptFails
      <3> QED BY <2>1, <3>1 DEF Inv
    <2> QED BY <1>3, <2>2, <2>3, <2>4, <2>5, <2>6
  <1>4. CASE Receive
    <2>1. /\ app' = app /\ channels' = channels /\ pc = "read"
          /\ pc' \in {"callback", "handled", "drop"} => pc' # "none"
          /\ used' = IF pc' = "handled" THEN Nobody ELSE used
      BY <1>4 DEF Receive, control, vector
    <2>2. PICK k \in DOMAIN channels : channels[k] = used
      BY <2>1 DEF Inv
    <2>3. Head(inbox[used.conn]) \in Pieces
      <3>1. used.conn \in Conns
        BY <2>2, ChannelType DEF Inv
      <3> QED BY <1>4, <3>1 DEF Receive, Inv, TypeOK
    <2>4. pc' \in {"callback", "handled", "drop"}
      BY <1>4, <2>3 DEF Receive, Pieces
    <2> QED BY <2>1, <2>2, <2>4 DEF Inv
  <1>5. CASE DropChannel
    <2>1. used \in Channel
      BY <1>5, ChannelType DEF DropChannel, Inv
    <2> QED BY <1>5, <2>1 DEF DropChannel, control, Inv
  <1>6. CASE AcceptConnection
    BY <1>6, LowestIsFree DEF AcceptConnection, control, Inv
  <1>7. CASE CloseChannel \/ AddChannel \/ RefuseChannel
    BY <1>7 DEF CloseChannel, AddChannel, RefuseChannel, control, Inv
  <1> QED BY <1>1, <1>2, <1>3, <1>4, <1>5, <1>6, <1>7 DEF Next, ServiceStep

-----------------------------------------------------------------------------
(* The channels and their identifiers.                                      *)

\* What the vector is after DropChannel: every other channel, in its order.
LEMMA Dropped ==
  ASSUME TypeOK, DropChannel
  PROVE  \E i \in DOMAIN channels :
           /\ channels[i] = used
           /\ DOMAIN channels' = 1 .. Len(channels) - 1
           /\ \A j \in DOMAIN channels' :
                channels'[j] = channels[IF j < i THEN j ELSE j + 1]
           /\ \A k \in DOMAIN channels \ {i} :
                \E j \in DOMAIN channels' : channels'[j] = channels[k]
           /\ \A j \in DOMAIN channels' :
                (IF j < i THEN j ELSE j + 1) \in DOMAIN channels \ {i}
  <1>1. channels \in Seq(Channel) /\ Len(channels) \in Nat
        /\ DOMAIN channels = 1 .. Len(channels)
    BY LenProperties DEF TypeOK
  <1>2. PICK i \in DOMAIN channels :
          channels[i] = used /\ channels' = RemoveAt(channels, i)
    BY SMTT(30) DEF DropChannel
  <1>3. /\ channels' \in Seq(Channel) /\ Len(channels') = Len(channels) - 1
        /\ \A j \in 1 .. Len(channels) - 1 :
             channels'[j] = IF j < i THEN channels[j] ELSE channels[j + 1]
    BY <1>1, <1>2, RemovalHere
  <1>4. DOMAIN channels' = 1 .. Len(channels) - 1
    BY <1>3, LenProperties
  <1>5. ASSUME NEW j \in DOMAIN channels'
        PROVE  /\ channels'[j] = channels[IF j < i THEN j ELSE j + 1]
               /\ (IF j < i THEN j ELSE j + 1) \in DOMAIN channels \ {i}
    BY <1>1, <1>3, <1>4
  <1>6. ASSUME NEW k \in DOMAIN channels \ {i}
        PROVE  \E j \in DOMAIN channels' : channels'[j] = channels[k]
    <2>1. CASE k < i
      <3>1. k \in DOMAIN channels' /\ channels'[k] = channels[k]
        BY <1>1, <1>3, <1>4, <2>1
      <3> QED BY <3>1
    <2>2. CASE ~ (k < i)
      <3>1. k - 1 \in DOMAIN channels' /\ ~ (k - 1 < i) /\ k - 1 + 1 = k
        BY <1>1, <1>4, <2>2
      <3>2. channels'[k - 1] = channels[k]
        BY <1>5, <3>1
      <3> QED BY <3>1, <3>2
    <2> QED BY <2>1, <2>2
  <1> QED BY <1>2, <1>4, <1>5, <1>6

\* What the vector is after AddChannel.
LEMMA Added ==
  ASSUME TypeOK, AddChannel
  PROVE  /\ DOMAIN channels = 1 .. Len(channels) /\ Len(channels) \in Nat
         /\ DOMAIN channels' = 1 .. Len(channels) + 1
         /\ Len(channels') = Len(channels) + 1
         /\ channels'[Len(channels) + 1] = NewChannel
         /\ \A i \in 1 .. Len(channels) : channels'[i] = channels[i]
  <1>1. channels \in Seq(Channel) /\ channels' = Append(channels, NewChannel)
    BY DEF TypeOK, AddChannel
  <1> QED BY <1>1, LenProperties, AppendProperties

\* Every step keeps Names.
LEMMA NamesStep == Inv /\ [Next]_vars => Names'
  <1> SUFFICES ASSUME Inv, [Next]_vars PROVE Names'
    OBVIOUS
  <1>0. /\ TypeOK /\ Names /\ last_channel_id \in Nat
        /\ \A i \in DOMAIN channels : channels[i].id \in Nat
        /\ \A id \in past : id \in Nat
        /\ DOMAIN channels = 1 .. Len(channels) /\ Len(channels) \in Nat
    BY ChannelType, ServerAssumption, LenProperties DEF Inv, TypeOK
  <1>1. CASE AddChannel
    <2>1. /\ NewChannel.id = last_channel_id
          /\ last_channel_id' = last_channel_id + 1
          /\ ids' = ids \cup {last_channel_id} /\ past' = past
      BY <1>1 DEF AddChannel, NewChannel, NextId
    <2>2. \A i \in DOMAIN channels' : channels'[i].id < last_channel_id'
      BY <1>0, <1>1, <2>1, Added DEF Names
    <2>3. \A i \in DOMAIN channels' : \A j \in 1 .. i - 1 : channels'[j].id < channels'[i].id
      BY <1>0, <1>1, <2>1, Added DEF Names
    <2>4. \A id \in past' : id < last_channel_id' /\ id \notin ids'
      BY <1>0, <2>1 DEF Names
    <2>5. Announced'
      <3>1. ids = {channels[i].id : i \in 1 .. Len(channels)}
        BY <1>0 DEF Names, Announced
      <3>2. {channels'[i].id : i \in DOMAIN channels'} = ids \cup {NewChannel.id}
        <4>1. \A i \in 1 .. Len(channels) : channels'[i].id = channels[i].id
          BY <1>0, <1>1, Added
        <4>2. channels'[Len(channels) + 1].id = NewChannel.id
          BY <1>0, <1>1, Added
        <4>3. DOMAIN channels' = (1 .. Len(channels)) \cup {Len(channels) + 1}
          BY <1>0, <1>1, Added
        <4> QED BY <3>1, <4>1, <4>2, <4>3
      <3> QED BY <2>1, <3>2 DEF Announced
    <2> QED BY <2>2, <2>3, <2>4, <2>5 DEF Names
  <1>2. CASE DropChannel
    <2>0. /\ last_channel_id' = last_channel_id
          /\ ids' = ids \ {used.id} /\ past' = past \cup {used.id}
      BY <1>2 DEF DropChannel
    <2>1. PICK i \in DOMAIN channels :
           /\ channels[i] = used
           /\ DOMAIN channels' = 1 .. Len(channels) - 1
           /\ \A j \in DOMAIN channels' :
                channels'[j] = channels[IF j < i THEN j ELSE j + 1]
           /\ \A k \in DOMAIN channels \ {i} :
                \E j \in DOMAIN channels' : channels'[j] = channels[k]
           /\ \A j \in DOMAIN channels' :
                (IF j < i THEN j ELSE j + 1) \in DOMAIN channels \ {i}
      BY <1>0, <1>2, Dropped
    <2>2. \A j \in DOMAIN channels' : channels'[j].id < last_channel_id'
      BY <1>0, <2>0, <2>1 DEF Names
    <2>3. ASSUME NEW k \in DOMAIN channels', NEW j \in 1 .. k - 1
          PROVE  channels'[j].id < channels'[k].id
      <3> DEFINE kk == IF k < i THEN k ELSE k + 1
                 jj == IF j < i THEN j ELSE j + 1
      <3>1. j \in DOMAIN channels' /\ jj \in 1 .. kk - 1 /\ kk \in DOMAIN channels
        BY <1>0, <2>1
      <3>2. channels'[k] = channels[kk] /\ channels'[j] = channels[jj]
        BY <2>1, <3>1
      <3> HIDE DEF kk, jj
      <3> QED BY <1>0, <3>1, <3>2 DEF Names
    <2>4. used.id < last_channel_id
      BY <1>0, <2>1 DEF Names
    <2>5. \A id \in past' : id < last_channel_id' /\ id \notin ids'
      BY <1>0, <2>0, <2>4 DEF Names
    <2>6. Announced'
      <3>1. ASSUME NEW k \in DOMAIN channels \ {i} PROVE channels[k].id # used.id
        <4>1. k \in 1 .. i - 1 \/ i \in 1 .. k - 1
          BY <1>0
        <4>2. channels[k].id < channels[i].id \/ channels[i].id < channels[k].id
          BY <1>0, <4>1 DEF Names
        <4> QED BY <1>0, <2>1, <4>2
      <3>2. ids = {channels[k].id : k \in DOMAIN channels}
        BY <1>0 DEF Names, Announced
      <3>3. ids' = {channels[k].id : k \in DOMAIN channels \ {i}}
        BY <2>0, <2>1, <3>1, <3>2
      <3>4. {channels'[j].id : j \in DOMAIN channels'} =
              {channels[k].id : k \in DOMAIN channels \ {i}}
        BY <2>1
      <3> QED BY <3>3, <3>4 DEF Announced
    <2> QED BY <2>2, <2>3, <2>5, <2>6 DEF Names
  <1>3. CASE ClearVector
    <2>1. /\ channels' = <<>> /\ DOMAIN channels' = {}
          /\ ids' = {} /\ past' = past \cup ids /\ last_channel_id' = last_channel_id
      BY <1>0, <1>3 DEF ClearVector, Names, Announced
    <2>2. \A id \in ids : id < last_channel_id
      BY <1>0 DEF Names, Announced
    <2>3. \A id \in past' : id < last_channel_id' /\ id \notin ids'
      BY <1>0, <2>1, <2>2 DEF Names
    <2>4. Announced'
      BY <2>1 DEF Announced
    <2> QED BY <2>1, <2>3, <2>4 DEF Names
  <1>4. CASE ~ AddChannel /\ ~ DropChannel /\ ~ ClearVector
    <2>1. UNCHANGED <<channels, last_channel_id, ids, past>>
      BY <1>4, VectorKept
    <2> QED BY <1>0, <2>1 DEF Names, Announced
  <1> QED BY <1>1, <1>2, <1>3, <1>4

-----------------------------------------------------------------------------
(* The descriptors.                                                         *)

\* Descriptors are opened and closed, and change their owner, in seven steps.
LEMMA DescriptorsKept ==
  ASSUME Inv, [Next]_vars, ~ Start, ~ ClearVector, ~ DropChannel, ~ CloseChannel,
         ~ AcceptConnection, ~ AddChannel, ~ RefuseChannel
  PROVE  /\ UNCHANGED <<fdt, channels, server_socket, refused>>
         /\ app' = "stopped" <=> app = "stopped"
         /\ pc \in {"add", "close"} \/ pc' \in {"add", "close"} =>
              UNCHANGED <<pc, used, new_socket>>
  <1>1. CASE Stop \/ StartFails \/ UNCHANGED vars
    BY <1>1 DEF Stop, StartFails, vars, world, sockets, vector, control, loop
  <1>2. CASE \E c \in Conns : ClientStep(c)
    BY <1>2 DEF ClientStep, Connect, ClientSends, HangUp, sockets, vector, control, loop
  <1>3. CASE \E t \in Threads : Send(t) \/ SendStep(t)
    BY <1>3 DEF Send, SendStep, LockVector, Deliver, PassOver, SendReturns, sockets,
                vector, control, loop
  <1>4. CASE CheckControl \/ Watch \/ Select \/ SelectInterrupted \/ SelectFails
              \/ PickChannel
    BY <1>4 DEF CheckControl, AfterTest, Watch, Select, SelectInterrupted, SelectFails,
                PickChannel,
                world, sockets, vector, control
  <1>5. CASE \/ ReceiveFails \/ CallbackLocks \/ CallbackReturns \/ NothingToAccept
            \/ AcceptFails
    BY <1>5 DEF ReceiveFails, CallbackLocks, CallbackReturns, InCallback,
                NothingToAccept, AcceptFails, world, sockets, vector, control
  <1>6. CASE Receive
    <2>1. PICK k \in DOMAIN channels : channels[k] = used
      BY <1>6 DEF Receive, Inv, Places
    <2>2. Head(inbox[used.conn]) \in Pieces
      <3>1. used.conn \in Conns
        BY <2>1, ChannelType DEF Inv
      <3> QED BY <1>6, <3>1 DEF Receive, Inv, TypeOK
    <2>3. pc' \in {"callback", "handled", "drop"}
      BY <1>6, <2>2 DEF Receive, Pieces
    <2> QED BY <1>6, <2>3 DEF Receive, sockets, vector, control
  <1> QED BY <1>1, <1>2, <1>3, <1>4, <1>5, <1>6 DEF Next, ServiceStep

\* A channel's descriptor refers to its connection, so it is neither free nor the
\* service socket.
LEMMA ChannelFdsOpen ==
  ASSUME TypeOK, Descriptors, NEW f \in ChannelFds
  PROVE  f \in Fds /\ fdt[f] \in Conns /\ fdt[f] # Unused /\ fdt[f] # Listening
  <1>1. PICK i \in DOMAIN channels : f = channels[i].fd
    BY DEF ChannelFds
  <1>2. f \in Fds /\ fdt[f] \in Conns
    BY <1>1, ChannelType DEF Descriptors
  <1> QED BY <1>2, ServerAssumption

\* The start of the service socket, and the end of everything.
LEMMA DescriptorsOwner ==
  ASSUME Inv, Start \/ ClearVector
  PROVE  Descriptors' /\ Owners'
  <1>1. CASE Start
    <2>0. LowestFd \in Fds /\ fdt[LowestFd] = Unused
      BY <1>1, LowestIsFree DEF Start
    <2>1. /\ app' = "running" /\ pc' = "top" /\ channels' = <<>> /\ channels = <<>>
          /\ server_socket' = LowestFd /\ fdt'[LowestFd] = Listening
          /\ \A f \in Fds : f # LowestFd => fdt'[f] = fdt[f]
          /\ refused' = refused /\ server_socket = -1 /\ pc = "none"
      BY <1>1, <2>0 DEF Start, vector, Inv, TypeOK, Places, Descriptors
    <2>2. Descriptors'
      BY <2>0, <2>1 DEF Descriptors
    <2>3. \A f \in Fds : f # -1 /\ f \notin ChannelFds
      BY <2>1, ServerAssumption DEF ChannelFds
    <2>4. Owners'
      BY <2>1, <2>3 DEF Owners, Inv
    <2> QED BY <2>2, <2>4
  <1>2. CASE ClearVector
    <2>1. /\ app' = "stopped" /\ pc' = "none" /\ channels' = <<>> /\ server_socket' = -1
          /\ \A f \in Fds : fdt'[f] = IF f \in ChannelFds \cup {server_socket}
                                       THEN Unused ELSE fdt[f]
          /\ refused' = refused /\ pc = "exit"
      BY <1>2 DEF ClearVector
    <2>2. Descriptors'
      BY <2>1 DEF Descriptors
    <2>3. Owners'
      BY <2>1 DEF Owners, Inv
    <2> QED BY <2>2, <2>3
  <1> QED BY <1>1, <1>2

\* A descriptor on its way into the vector.
LEMMA DescriptorsIn ==
  ASSUME Inv, AcceptConnection \/ AddChannel \/ RefuseChannel
  PROVE  Descriptors' /\ Owners'
  <1>0. /\ TypeOK /\ Descriptors /\ Owners /\ app # "stopped"
        /\ server_socket \in Fds /\ fdt[server_socket] = Listening
    BY DEF Inv, Places, Descriptors, AcceptConnection, AddChannel, RefuseChannel
  <1>1. CASE AcceptConnection
    <2>0. LowestFd \in Fds /\ fdt[LowestFd] = Unused /\ Head(backlog) \in Conns
      BY <1>0, <1>1, LowestIsFree DEF AcceptConnection, TypeOK
    <2>1. /\ pc' = "add" /\ new_socket' = LowestFd /\ fdt'[LowestFd] \in Conns
          /\ \A f \in Fds : f # LowestFd => fdt'[f] = fdt[f]
          /\ UNCHANGED <<app, channels, server_socket, refused>> /\ pc = "accept"
      BY <1>0, <1>1, <2>0 DEF AcceptConnection, control, vector, TypeOK
    <2>2. LowestFd \notin ChannelFds /\ LowestFd # server_socket
      BY <1>0, <2>0, ChannelFdsOpen, ServerAssumption
    <2>3. ChannelFds' = ChannelFds
      BY <2>1 DEF ChannelFds
    <2>4. \A i \in DOMAIN channels : channels[i].fd \in Fds /\ channels[i].fd # LowestFd
      BY <1>0, <2>2, ChannelType DEF ChannelFds
    <2>5. Descriptors'
      BY <1>0, <2>1, <2>2, <2>3, <2>4 DEF Descriptors
    <2>6. Owners'
      BY <1>0, <2>1, <2>3 DEF Owners
    <2> QED BY <2>5, <2>6
  <1>2. CASE AddChannel
    <2>1. /\ pc' = "top" /\ pc = "add" /\ UNCHANGED <<fdt, app, server_socket, refused>>
      BY <1>2 DEF AddChannel, sockets, control
    <2>2. NewChannel.fd = new_socket /\ NewChannel.conn = fdt[new_socket]
      BY DEF NewChannel
    <2>3. /\ DOMAIN channels = 1 .. Len(channels) /\ Len(channels) \in Nat
          /\ DOMAIN channels' = 1 .. Len(channels) + 1
          /\ channels'[Len(channels) + 1] = NewChannel
          /\ \A i \in 1 .. Len(channels) : channels'[i] = channels[i]
      BY <1>0, <1>2, Added
    <2>4. \A i \in DOMAIN channels : channels[i].fd # new_socket
      BY <1>0, <2>1 DEF Descriptors, ChannelFds
    <2>5. \A i \in DOMAIN channels' : fdt'[channels'[i].fd] = channels'[i].conn
      BY <1>0, <2>1, <2>2, <2>3 DEF Descriptors
    <2>6. \A i, j \in DOMAIN channels' : channels'[i].fd = channels'[j].fd => i = j
      BY <1>0, <2>2, <2>3, <2>4 DEF Descriptors
    <2>7. Descriptors'
      BY <1>0, <2>1, <2>5, <2>6 DEF Descriptors
    <2>8. ASSUME NEW f \in ChannelFds \cup {new_socket} PROVE f \in ChannelFds'
      <3>1. CASE f = new_socket
        <4>1. Len(channels) + 1 \in DOMAIN channels'
          BY <2>3
        <4> QED BY <2>2, <2>3, <3>1, <4>1 DEF ChannelFds
      <3>2. CASE f \in ChannelFds
        <4>1. PICK i \in DOMAIN channels : f = channels[i].fd
          BY <3>2 DEF ChannelFds
        <4>2. i \in DOMAIN channels' /\ channels'[i] = channels[i]
          BY <2>3
        <4> QED BY <4>1, <4>2 DEF ChannelFds
      <3> QED BY <3>1, <3>2
    <2>9. Owners'
      BY <1>0, <2>1, <2>8 DEF Owners
    <2> QED BY <2>7, <2>9
  <1>3. CASE RefuseChannel
    <2>1. /\ pc' = "top" /\ pc = "add" /\ UNCHANGED <<fdt, app, server_socket, channels>>
          /\ refused' = refused \cup {fdt[new_socket]}
      BY <1>3 DEF RefuseChannel, sockets, control
    <2>2. ChannelFds' = ChannelFds
      BY <2>1 DEF ChannelFds
    <2>3. Descriptors'
      BY <1>0, <2>1, <2>2 DEF Descriptors
    <2>4. Owners'
      BY <1>0, <2>1, <2>2 DEF Owners
    <2> QED BY <2>3, <2>4
  <1> QED BY <1>1, <1>2, <1>3

\* A descriptor on its way out of it.
LEMMA DescriptorsOut ==
  ASSUME Inv, DropChannel \/ CloseChannel
  PROVE  Descriptors' /\ Owners'
  <1>0. /\ TypeOK /\ Descriptors /\ Owners /\ app # "stopped"
        /\ server_socket \in Fds /\ fdt[server_socket] = Listening
    BY DEF Inv, Places, Descriptors, DropChannel, CloseChannel
  <1>1. CASE DropChannel
    <2>0. /\ pc' = "close" /\ pc = "drop"
          /\ UNCHANGED <<fdt, app, server_socket, refused, used>>
      BY <1>1 DEF DropChannel, sockets, control
    <2>1. PICK i \in DOMAIN channels :
           /\ channels[i] = used
           /\ DOMAIN channels' = 1 .. Len(channels) - 1
           /\ \A j \in DOMAIN channels' :
                channels'[j] = channels[IF j < i THEN j ELSE j + 1]
           /\ \A k \in DOMAIN channels \ {i} :
                \E j \in DOMAIN channels' : channels'[j] = channels[k]
           /\ \A j \in DOMAIN channels' :
                (IF j < i THEN j ELSE j + 1) \in DOMAIN channels \ {i}
      BY <1>0, <1>1, Dropped
    <2>2. \A j \in DOMAIN channels' :
            \E k \in DOMAIN channels \ {i} : channels'[j] = channels[k]
      BY <2>1
    <2>3. \A j \in DOMAIN channels' : fdt'[channels'[j].fd] = channels'[j].conn
      BY <1>0, <2>0, <2>2 DEF Descriptors
    <2>4. ASSUME NEW j \in DOMAIN channels', NEW k \in DOMAIN channels',
                 channels'[j].fd = channels'[k].fd
          PROVE  j = k
      <3> DEFINE jj == IF j < i THEN j ELSE j + 1
                 kk == IF k < i THEN k ELSE k + 1
      <3>1. jj \in DOMAIN channels /\ kk \in DOMAIN channels /\ (jj = kk => j = k)
        BY <1>0, <2>1, LenProperties DEF TypeOK
      <3>2. channels'[j] = channels[jj] /\ channels'[k] = channels[kk]
        BY <2>1
      <3> HIDE DEF jj, kk
      <3> QED BY <1>0, <2>4, <3>1, <3>2 DEF Descriptors
    <2>5. fdt[used.fd] \in Conns
      BY <1>0, <2>1, ChannelType DEF Descriptors
    <2>6. used.fd \notin ChannelFds'
      BY <1>0, <2>1, <2>2 DEF Descriptors, ChannelFds
    <2>7. Descriptors'
      BY <1>0, <2>0, <2>3, <2>4, <2>5, <2>6 DEF Descriptors
    <2>8. \A f \in ChannelFds : f = used.fd \/ f \in ChannelFds'
      BY <2>1 DEF ChannelFds
    <2>9. Owners'
      BY <1>0, <2>0, <2>8 DEF Owners
    <2> QED BY <2>7, <2>9
  <1>2. CASE CloseChannel
    <2>0. used.fd \in Fds /\ fdt[used.fd] \in Conns /\ used.fd \notin ChannelFds
      BY <1>0, <1>2 DEF CloseChannel, Descriptors, Inv, Places, Channel
    <2>1. /\ pc' = "handled" /\ pc = "close" /\ fdt'[used.fd] = Unused
          /\ \A f \in Fds : f # used.fd => fdt'[f] = fdt[f]
          /\ UNCHANGED <<app, channels, server_socket, refused>>
      BY <1>0, <1>2, <2>0 DEF CloseChannel, control, vector, TypeOK
    <2>2. server_socket # used.fd
      BY <1>0, <2>0, ServerAssumption
    <2>3. \A i \in DOMAIN channels : channels[i].fd \in Fds /\ channels[i].fd # used.fd
      BY <1>0, <2>0, ChannelType DEF ChannelFds
    <2>4. ChannelFds' = ChannelFds
      BY <2>1 DEF ChannelFds
    <2>5. Descriptors'
      BY <1>0, <2>1, <2>2, <2>3, <2>4 DEF Descriptors
    <2>6. Owners'
      BY <1>0, <2>1, <2>4 DEF Owners
    <2> QED BY <2>5, <2>6
  <1> QED BY <1>1, <1>2

\* Every step keeps Descriptors and Owners.
LEMMA DescriptorsStep == Inv /\ [Next]_vars => Descriptors' /\ Owners'
  <1> SUFFICES ASSUME Inv, [Next]_vars PROVE Descriptors' /\ Owners'
    OBVIOUS
  <1>1. CASE \/ Start \/ ClearVector \/ DropChannel \/ CloseChannel
            \/ AcceptConnection \/ AddChannel \/ RefuseChannel
    BY <1>1, DescriptorsOwner, DescriptorsIn, DescriptorsOut
  <1>2. CASE ~ (\/ Start \/ ClearVector \/ DropChannel \/ CloseChannel
               \/ AcceptConnection \/ AddChannel \/ RefuseChannel)
    <2>1. /\ UNCHANGED <<fdt, channels, server_socket, refused>>
          /\ app' = "stopped" <=> app = "stopped"
          /\ pc \in {"add", "close"} \/ pc' \in {"add", "close"} =>
               UNCHANGED <<pc, used, new_socket>>
      BY <1>2, DescriptorsKept
    <2>2. ChannelFds' = ChannelFds
      BY <2>1 DEF ChannelFds
    <2>3. Descriptors'
      BY <2>1, <2>2 DEF Descriptors, Inv
    <2>4. Owners'
      BY <2>1, <2>2 DEF Owners, Inv
    <2> QED BY <2>3, <2>4
  <1> QED BY <1>1, <1>2
-----------------------------------------------------------------------------
(* The sends.                                                               *)

\* The element that is next has none of the identifiers already passed.
LEMMA NextIsNew ==
  ASSUME TypeOK, Names, NEW t \in Threads, AtChannel(t), next[t] \in Nat \ {0}
  PROVE  /\ next[t] \in DOMAIN channels
         /\ channels[next[t]].id \notin Passed(t)
         /\ {channels[i].id : i \in 1 .. next[t]} = Passed(t) \cup {channels[next[t]].id}
  <1>1. /\ next[t] \in DOMAIN channels /\ next[t] \in Nat
        /\ 1 .. next[t] = (1 .. next[t] - 1) \cup {next[t]}
    BY LenProperties DEF AtChannel, TypeOK
  <1>2. channels[next[t]].id \in Nat
    BY <1>1, ChannelType, ServerAssumption
  <1>3. \A j \in 1 .. next[t] - 1 : channels[j].id < channels[next[t]].id
    BY <1>1 DEF Names
  <1>4. \A j \in 1 .. next[t] - 1 : channels[j].id # channels[next[t]].id
    BY <1>2, <1>3
  <1> QED BY <1>1, <1>4 DEF Passed

\* A channel that SendMessage reaches, or fails at, is one more that is passed.
LEMMA DeliverKeeps ==
  ASSUME Inv, NEW t \in Threads, Deliver(t)
  PROVE  Sends'
  <1>0. TypeOK /\ Names /\ Sends
    BY DEF Inv
  <1>1. /\ next \in [Threads -> Nat \ {0}] /\ reached \in [Threads -> SUBSET Ids]
        /\ failed \in [Threads -> BOOLEAN] /\ Len(channels) \in Nat
    BY <1>0, LenProperties DEF TypeOK
  <1> DEFINE id == channels[next[t]].id
  <1>2. /\ UNCHANGED <<channels, vlock, spc, target>> /\ spc[t] = "send" /\ AtChannel(t)
        /\ next' = [next EXCEPT ![t] = IF target[t] = All THEN @ + 1
                                                          ELSE Len(channels) + 1]
        /\ \/ reached' = [reached EXCEPT ![t] = @ \cup {id}] /\ UNCHANGED failed
           \/ failed' = [failed EXCEPT ![t] = TRUE] /\ UNCHANGED reached
    BY DEF Deliver, AtChannel, vector
  <1>3. /\ next[t] \in DOMAIN channels /\ id \notin Passed(t)
        /\ {channels[i].id : i \in 1 .. next[t]} = Passed(t) \cup {id}
    BY <1>0, <1>1, <1>2, NextIsNew
  <1> HIDE DEF id
  <1>4. \A u \in Threads \ {t} :
          /\ next'[u] = next[u] /\ reached'[u] = reached[u] /\ failed'[u] = failed[u]
          /\ Passed(u)' = Passed(u)
    BY <1>1, <1>2 DEF Passed
  <1>5. next'[t] \in 1 .. Len(channels) + 1
    BY <1>1, <1>2 DEF AtChannel
  <1>6. ASSUME target[t] = All
        PROVE  reached'[t] \subseteq Passed(t)' /\ (failed'[t] <=> reached'[t] # Passed(t)')
    <2>1. next'[t] - 1 = next[t]
      BY <1>1, <1>2, <1>6
    <2>2. Passed(t)' = Passed(t) \cup {id}
      BY <1>2, <1>3, <2>1 DEF Passed
    <2>3. reached[t] \subseteq Passed(t) /\ (failed[t] <=> reached[t] # Passed(t))
      BY <1>0, <1>6 DEF Sends
    <2>4. CASE reached' = [reached EXCEPT ![t] = @ \cup {id}] /\ UNCHANGED failed
      <3>1. reached'[t] = reached[t] \cup {id} /\ failed'[t] = failed[t]
        BY <1>1, <2>4
      <3> QED BY <1>3, <2>2, <2>3, <3>1
    <2>5. CASE failed' = [failed EXCEPT ![t] = TRUE] /\ UNCHANGED reached
      <3>1. reached'[t] = reached[t] /\ failed'[t]
        BY <1>1, <2>5
      <3> QED BY <1>3, <2>2, <2>3, <3>1
    <2> QED BY <1>2, <2>4, <2>5
  <1>7. ASSUME NEW u \in Threads
        PROVE  /\ vlock' = u <=> spc'[u] = "send"
               /\ next'[u] \in 1 .. Len(channels') + 1
               /\ spc'[u] # "send" => next'[u] = 1 /\ reached'[u] = {} /\ ~failed'[u]
               /\ target'[u] = All => /\ reached'[u] \subseteq Passed(u)'
                                      /\ failed'[u] <=> reached'[u] # Passed(u)'
    <2>1. CASE u = t
      BY <1>0, <1>2, <1>5, <1>6, <2>1 DEF Sends
    <2>2. CASE u # t
      BY <1>0, <1>2, <1>4, <2>2 DEF Sends
    <2> QED BY <2>1, <2>2
  <1> QED BY <1>7 DEF Sends

\* The other steps of a send.
LEMMA SendKeeps ==
  ASSUME Inv, NEW t \in Threads, Send(t) \/ LockVector(t) \/ PassOver(t) \/ SendReturns(t)
  PROVE  Sends'
  <1>0. TypeOK /\ Sends
    BY DEF Inv
  <1>1. /\ next \in [Threads -> Nat \ {0}] /\ reached \in [Threads -> SUBSET Ids]
        /\ failed \in [Threads -> BOOLEAN] /\ Len(channels) \in Nat
        /\ target \in [Threads -> Ids \cup {All}]
        /\ spc \in [Threads -> {"idle", "lock", "send"}]
    BY <1>0, LenProperties DEF TypeOK
  <1>2. channels' = channels
    BY DEF Send, LockVector, PassOver, SendReturns, vector
  <1>3. CASE Send(t)
    <2>1. /\ UNCHANGED <<vlock, next, reached, failed>> /\ spc[t] = "idle"
          /\ spc'[t] = "lock" /\ \A u \in Threads \ {t} : /\ spc'[u] = spc[u]
                                                       /\ target'[u] = target[u]
      BY <1>1, <1>3 DEF Send
    <2>2. \A u \in Threads : Passed(u)' = Passed(u)
      BY <1>2, <2>1 DEF Passed
    <2>3. next[t] = 1 /\ reached[t] = {} /\ ~failed[t] /\ Passed(t) = {}
      BY <1>0, <2>1 DEF Sends, Passed
    <2> QED BY <1>0, <1>2, <2>1, <2>2, <2>3 DEF Sends
  <1>4. CASE LockVector(t)
    <2>1. /\ UNCHANGED <<target, next, reached, failed>> /\ spc[t] = "lock"
          /\ vlock = Free /\ vlock' = t /\ spc'[t] = "send"
          /\ \A u \in Threads \ {t} : spc'[u] = spc[u]
      BY <1>1, <1>4 DEF LockVector, VectorIsFree
    <2>2. \A u \in Threads : Passed(u)' = Passed(u)
      BY <1>2, <2>1 DEF Passed
    <2> QED BY <1>0, <1>2, <2>1, <2>2, ServerAssumption DEF Sends
  <1>5. CASE PassOver(t)
    <2>1. /\ UNCHANGED <<target, reached, failed, vlock, spc>> /\ spc[t] = "send"
          /\ target[t] # All /\ next'[t] = next[t] + 1 /\ next[t] <= Len(channels)
          /\ \A u \in Threads \ {t} : next'[u] = next[u]
      BY <1>1, <1>5 DEF PassOver, AtChannel
    <2>2. \A u \in Threads \ {t} : Passed(u)' = Passed(u)
      BY <1>2, <2>1 DEF Passed
    <2>3. next'[t] \in 1 .. Len(channels) + 1
      BY <1>1, <2>1
    <2> QED BY <1>0, <1>2, <2>1, <2>2, <2>3 DEF Sends
  <1>6. CASE SendReturns(t)
    <2>1. /\ spc[t] = "send" /\ vlock' = Free /\ spc'[t] = "idle"
          /\ next'[t] = 1 /\ reached'[t] = {} /\ ~failed'[t]
          /\ \A u \in Threads \ {t} :
               /\ spc'[u] = spc[u] /\ target'[u] = target[u] /\ next'[u] = next[u]
               /\ reached'[u] = reached[u] /\ failed'[u] = failed[u]
      BY <1>1, <1>6 DEF SendReturns
    <2>2. \A u \in Threads \ {t} : Passed(u)' = Passed(u)
      BY <1>2, <2>1 DEF Passed
    <2>3. vlock = t /\ t # Free
      BY <1>0, <2>1, ServerAssumption DEF Sends
    <2>4. ASSUME NEW u \in Threads
          PROVE  /\ vlock' = u <=> spc'[u] = "send"
                 /\ next'[u] \in 1 .. Len(channels') + 1
                 /\ spc'[u] # "send" => next'[u] = 1 /\ reached'[u] = {} /\ ~failed'[u]
                 /\ target'[u] = All => /\ reached'[u] \subseteq Passed(u)'
                                        /\ failed'[u] <=> reached'[u] # Passed(u)'
      <3>1. CASE u = t
        <4>1. next'[u] = 1 /\ reached'[u] = {} /\ ~failed'[u] /\ spc'[u] = "idle"
          BY <2>1, <3>1
        <4>2. Passed(u)' = {}
          BY <4>1 DEF Passed
        <4>3. vlock' # u /\ next'[u] \in 1 .. Len(channels') + 1
          BY <1>1, <1>2, <2>1, <2>3, <3>1, <4>1
        <4> QED BY <4>1, <4>2, <4>3
      <3>2. CASE u # t
        <4>1. u # Free
          BY ServerAssumption
        <4> QED BY <1>0, <1>2, <2>1, <2>2, <2>3, <3>2, <4>1 DEF Sends
      <3> QED BY <3>1, <3>2
    <2> QED BY <2>4 DEF Sends
  <1> QED BY <1>3, <1>4, <1>5, <1>6

\* Every step keeps Sends: who changes the vector waits until nobody sends.
LEMMA SendsStep == Inv /\ [Next]_vars => Sends'
  <1> SUFFICES ASSUME Inv, [Next]_vars PROVE Sends'
    OBVIOUS
  <1>0. Sends /\ TypeOK
    BY DEF Inv
  <1>1. CASE \E t \in Threads : Send(t) \/ SendStep(t)
    BY <1>1, DeliverKeeps, SendKeeps DEF SendStep
  <1>2. CASE ~ \E t \in Threads : Send(t) \/ SendStep(t)
    <2>1. UNCHANGED <<vlock, spc, target, next, reached, failed>>
      BY <1>2, SendingKept DEF sending
    <2>2. CASE AddChannel \/ DropChannel \/ ClearVector
      <3>1. vlock = Free
        BY <2>2 DEF AddChannel, DropChannel, ClearVector, VectorIsFree
      <3>2. \A t \in Threads : spc[t] # "send"
        BY <1>0, <3>1, ServerAssumption DEF Sends
      <3>3. \A t \in Threads : next[t] = 1 /\ reached[t] = {} /\ ~failed[t]
        BY <1>0, <3>2 DEF Sends
      <3>4. \A t \in Threads : Passed(t)' = {}
        BY <2>1, <3>3 DEF Passed
      <3>5. Len(channels') \in Nat
        <4>1. channels' \in Seq(Channel)
          BY <2>2, TypeChannels, TypeWorld DEF TypeOK
        <4> QED BY <4>1, LenProperties
      <3>6. ASSUME NEW u \in Threads
            PROVE  /\ vlock' = u <=> spc'[u] = "send"
                   /\ next'[u] \in 1 .. Len(channels') + 1
                   /\ spc'[u] # "send" => next'[u] = 1 /\ reached'[u] = {} /\ ~failed'[u]
                   /\ target'[u] = All => /\ reached'[u] \subseteq Passed(u)'
                                          /\ failed'[u] <=> reached'[u] # Passed(u)'
        <4>1. vlock = u <=> spc[u] = "send"
          BY <1>0 DEF Sends
        <4>2. next'[u] = 1 /\ reached'[u] = {} /\ ~failed'[u]
          BY <2>1, <3>3
        <4> QED BY <2>1, <3>4, <3>5, <4>1, <4>2
      <3> QED BY <3>6 DEF Sends
    <2>3. CASE ~ AddChannel /\ ~ DropChannel /\ ~ ClearVector
      <3>1. channels' = channels
        BY <2>3, VectorKept
      <3>2. \A t \in Threads : Passed(t)' = Passed(t)
        BY <2>1, <3>1 DEF Passed
      <3> QED BY <1>0, <2>1, <3>1, <3>2 DEF Sends
    <2> QED BY <2>2, <2>3
  <1> QED BY <1>1, <1>2

\* Inv holds in every state.
LEMMA Invariance == Spec => []Inv
  <1>1. Inv /\ [Next]_vars => Inv'
    BY TypeStep, PlacesStep, NamesStep, DescriptorsStep, SendsStep DEF Inv
  <1> QED BY <1>1, InvInit, PTL DEF Spec

-----------------------------------------------------------------------------
(* The theorems.                                                            *)

\* The state is well-typed, and there are never more channels than the limit, for any
\* number of clients, threads and restarts.
THEOREM TypeCorrect == Spec => []TypeOK
  BY Invariance, PTL DEF Inv

\* A channel in the vector owns its connection's open descriptor, however descriptors
\* are reused, and identifiers grow along the vector.
THEOREM ChannelsCorrect == Spec => []ChannelsAreReal
  <1>1. Inv => ChannelsAreReal
    BY DEF Inv, Names, Descriptors, ChannelsAreReal
  <1> QED BY <1>1, Invariance, PTL

\* No descriptor is lost but those of refused clients, and Stop leaves nothing.
THEOREM DescriptorsCorrect == Spec => []DescriptorsAccounted
  <1>1. Inv => DescriptorsAccounted
    <2> SUFFICES ASSUME Inv PROVE DescriptorsAccounted
      OBVIOUS
    <2>1. app = "stopped" => server_socket = -1 /\ channels = <<>> /\ ids = {}
      BY DEF Inv, Descriptors, Names, Announced
    <2> QED BY <2>1 DEF Inv, Owners, DescriptorsAccounted
  <1> QED BY <1>1, Invariance, PTL

\* AddClient and DelClient tell the application exactly which clients there are.
THEOREM AnnouncedCorrect == Spec => []Announced
  BY Invariance, PTL DEF Inv, Names

\* A broadcast that succeeds has reached exactly the clients announced when it
\* returns, for any number of threads, clients and channels.
THEOREM BroadcastCorrect == Spec => BroadcastIsExact
  <1> DEFINE Exact(t) == SendReturns(t) /\ target[t] = All =>
                           reached[t] \subseteq ids /\ (Succeeds(t) <=> reached[t] = ids)
  <1>1. ASSUME Inv, NEW t \in Threads, SendReturns(t), target[t] = All
        PROVE  reached[t] \subseteq ids /\ (Succeeds(t) <=> reached[t] = ids)
    <2>1. /\ next[t] \in 1 .. Len(channels) + 1 /\ next[t] > Len(channels)
          /\ reached[t] \subseteq Passed(t) /\ (failed[t] <=> reached[t] # Passed(t))
      BY <1>1 DEF Inv, Sends, SendReturns
    <2>2. Len(channels) \in Nat /\ DOMAIN channels = 1 .. Len(channels)
      BY <1>1, LenProperties DEF Inv, TypeOK
    <2>3. next[t] - 1 = Len(channels)
      BY <2>1, <2>2
    <2>4. Passed(t) = ids
      BY <1>1, <2>2, <2>3 DEF Passed, Inv, Names, Announced
    <2> QED BY <1>1, <2>1, <2>4 DEF Succeeds
  <1>2. Inv => \A t \in Threads : Exact(t)
    BY <1>1
  <1>3. Inv /\ [Next]_vars => [\A t \in Threads : Exact(t)]_vars
    BY <1>2
  <1> QED BY <1>3, Invariance, PTL DEF Spec, BroadcastIsExact

-----------------------------------------------------------------------------
(* The registry of clients.                                                 *)

\* Which client is being served changes only around a callback.
LEMMA ServingKept ==
  ASSUME Inv, [Next]_vars, ~ Receive, ~ CallbackReturns
  PROVE  Serving' = Serving
  <1>1. CASE \/ Stop \/ StartFails \/ UNCHANGED vars \/ \E c \in Conns : ClientStep(c)
            \/ \E t \in Threads : Send(t) \/ SendStep(t)
    <2>1. UNCHANGED <<pc, used>>
      BY <1>1 DEF Stop, StartFails, vars, ClientStep, Connect, ClientSends, HangUp, Send,
                  SendStep, LockVector, Deliver, PassOver, SendReturns, loop
    <2> QED BY <2>1 DEF Serving
  <1>2. CASE CallbackLocks
    BY <1>2 DEF CallbackLocks, Serving
  <1>3. CASE \/ Start \/ ClearVector \/ CheckControl \/ Watch \/ Select
            \/ SelectInterrupted \/ SelectFails \/ PickChannel \/ ReceiveFails
    <2>1. pc \notin {"callback", "locked"} /\ pc' \notin {"callback", "locked"}
      BY <1>3 DEF Start, ClearVector, CheckControl, AfterTest, Watch, Select,
                  SelectInterrupted, SelectFails, PickChannel, ReceiveFails, Inv, Places
    <2> QED BY <2>1 DEF Serving
  <1>4. CASE \/ DropChannel \/ CloseChannel \/ NothingToAccept \/ AcceptConnection
            \/ AcceptFails \/ AddChannel \/ RefuseChannel
    <2>1. pc \notin {"callback", "locked"} /\ pc' \notin {"callback", "locked"}
      BY <1>4 DEF DropChannel, CloseChannel, NothingToAccept, AcceptConnection,
                  AcceptFails, AddChannel, RefuseChannel
    <2> QED BY <2>1 DEF Serving
  <1> QED BY <1>1, <1>2, <1>3, <1>4 DEF Next, ServiceStep

\* A step of the server is a callback of the registry, or none at all.
LEMMA RegistryStep == Inv /\ [Next]_vars => [Registry!Next]_(Registry!vars)
  <1> SUFFICES ASSUME Inv, [Next]_vars PROVE [Registry!Next]_(Registry!vars)
    OBVIOUS
  <1>0. /\ TypeOK /\ Names /\ ids = {channels[i].id : i \in DOMAIN channels}
        /\ \A id \in ids \cup past : id \in Nat
    BY ServerAssumption DEF Inv, TypeOK, Names, Announced
  <1>1. CASE AddChannel
    <2>1. /\ last_channel_id \in Ids /\ ids' = ids \cup {last_channel_id} /\ past' = past
          /\ pc = "add"
      BY <1>1 DEF AddChannel, NextId
    <2>2. last_channel_id \notin ids \cup past
      BY <1>0, <2>1, ServerAssumption DEF Names, TypeOK
    <2>3. Serving = Nobody
      BY <2>1 DEF Serving
    <2>4. Serving' = Serving
      BY <1>1, ServingKept DEF AddChannel, Receive, CallbackReturns, InCallback
    <2>5. Registry!AddClient(last_channel_id)
      BY <2>1, <2>2, <2>3, <2>4 DEF Registry!AddClient
    <2> QED BY <2>1, <2>5 DEF Registry!Next
  <1>2. CASE DropChannel
    <2>1. /\ pc = "drop" /\ ids' = ids \ {used.id} /\ past' = past \cup {used.id}
      BY <1>2 DEF DropChannel
    <2>2. used.id \in ids
      BY <1>0, <1>2 DEF DropChannel
    <2>3. Serving = Nobody
      BY <2>1 DEF Serving
    <2>4. Serving' = Serving
      BY <1>2, ServingKept DEF DropChannel, Receive, CallbackReturns, InCallback
    <2>5. Registry!DelClients({used.id})
      BY <2>1, <2>2, <2>3, <2>4 DEF Registry!DelClients
    <2>6. {used.id} \in SUBSET ids
      BY <2>2
    <2> QED BY <2>5, <2>6 DEF Registry!Next
  <1>3. CASE ClearVector
    <2>1. pc = "exit" /\ ids' = ids \ ids /\ past' = past \cup ids
      BY <1>0, <1>3 DEF ClearVector
    <2>3. Serving = Nobody
      BY <2>1 DEF Serving
    <2>4. Serving' = Serving
      BY <1>3, ServingKept DEF ClearVector, Receive, CallbackReturns, InCallback
    <2>5. Registry!DelClients(ids)
      BY <2>1, <2>3, <2>4 DEF Registry!DelClients
    <2>6. ids \in SUBSET ids
      OBVIOUS
    <2> QED BY <2>5, <2>6 DEF Registry!Next
  <1>4. CASE Receive
    <2>1. UNCHANGED <<ids, past>> /\ pc = "read"
      BY <1>4 DEF Receive, vector
    <2>2. used.id \in ids
      BY <1>0, <2>1 DEF Inv, Places
    <2>3. Serving = Nobody
      BY <2>1 DEF Serving
    <2>4. Serving' \in {Nobody, used.id}
      BY <1>4 DEF Receive, Serving
    <2>5. Registry!Call(used.id) \/ UNCHANGED <<ids, past, Serving>>
      BY <2>1, <2>2, <2>3, <2>4 DEF Registry!Call
    <2> QED BY <2>2, <2>5 DEF Registry!Next, Registry!vars
  <1>5. CASE CallbackReturns
    <2>1. UNCHANGED <<ids, past>> /\ pc' = "handled"
      BY <1>5 DEF CallbackReturns, world, vector
    <2>2. Registry!Return
      BY <2>1 DEF Registry!Return, Serving
    <2> QED BY <2>2 DEF Registry!Next
  <1>6. CASE ~ (\/ AddChannel \/ DropChannel \/ ClearVector \/ Receive
               \/ CallbackReturns)
    <2>1. UNCHANGED <<ids, past>>
      BY <1>6, VectorKept
    <2>2. Serving' = Serving
      BY <1>6, ServingKept
    <2> QED BY <2>1, <2>2 DEF Registry!vars
  <1> QED BY <1>1, <1>2, <1>3, <1>4, <1>5, <1>6

\* To its application the server is a ClientRegistry, for any number of clients.
THEOREM RegistryCorrect == Spec => ClientRegistrySpec
  <1>1. Init => Registry!Init
    BY DEF Init, Registry!Init, Serving
  <1> QED BY <1>1, RegistryStep, Invariance, PTL
          DEF Spec, ClientRegistrySpec, Registry!Spec
=============================================================================
