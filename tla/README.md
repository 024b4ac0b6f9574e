# A TLA+ model of libgep

libgep lets one server and several clients on the same machine exchange protobuf
messages over TCP. This directory models its concurrent core in TLA+, checks it
with TLC on small instances, and proves some of its invariants with TLAPS for
every value of the constants. The reference is the code under `src/`; every
definition that stands for code is listed with its lines in `PROJECT.json`
(`map`).

## 1. The system

| Part | State | Operations | Talks to |
|---|---|---|---|
| `GepProtocol` | magic, mode, port, select timeout | `ScanHeader`, `PrintHeader`, `Serialize`, `Unserialize` | called by `GepChannel` |
| `GepChannel` | `socket_`, `len_`/`buf_`, `socket_lock_` | `OpenClientSocket`, `Close`, `RecvData` (`RecvString`, `RecvTLV`), `SendMessage` (`SendString`, `SendTLV`, `SendData`) | the other end over TCP; runs the application's callbacks |
| `SocketInterface::FullSend`, `TimeManager` | locals; the monotonic clock | send a buffer within a timeout | `send()`, `select()` |
| `GepChannelArray` | `gep_channel_vector_` and its recursive lock, `last_channel_id_`, `server_socket_` | `OpenServerSocket`, `AcceptConnection`/`AddChannel`, `RecvData`, `SendMessage` (all, one), `Stop` | owns the server's channels; calls `AddClient`, `DelClient` |
| `GepServer` | `thread_ctrl_`, the service thread | `Start`, `Stop`, `RunThread`, `Send` | drives the array |
| `GepClient` | `thread_ctrl_`, `reconnect_count_`, one channel | `Start`, `Stop`, `RunThread`, `Reconnect`, `Send` | drives its channel |
| utilities | log level | logging, printing of bytes, time conversions | everyone |

At each end one *service thread* selects, receives, parses and runs callbacks;
any number of *application threads* send; callbacks send too, on the service
thread. `socket_lock_` is held for a whole `SendTLV` and for the single `recv()`
of `RecvData`; `gep_channel_vector_lock_` is held for a whole broadcast and
whenever the vector is read or changed, but not while a channel receives or a
callback runs.

What is hard here: header and value are sent separately and in pieces, by
several threads; a send may time out halfway; streams are cut and joined at any
byte; connections come and go under senders; descriptors are reused; both ends
may wait for each other with full socket buffers; `select()` may be interrupted;
Stop races with everything. `PROJECT.json` lists these as `hazards`, each at its
line, with the properties aimed at it. The properties that make each part correct:

* channel: until a send fails halfway, messages stay framed and in order, and each is
  executed at most once; the receive buffer never fills up; senders always return;
* FullSend: exact results, timeouts neither early nor late;
* server: what the application was told, the vector, and the open descriptors
  agree; identifiers are never reused; broadcasts are exact; nobody is left waiting but
  behind an older client that never pauses;
* client: its thread watches the socket the channel has, survives disconnections,
  reconnects, and stops; no connection is forgotten open;
* example: the two programs find each other and print what the other was asked to send;
* utilities: nothing is printed outside the buffer, conversions lose nothing.

## 2. The modules

| Module | Models | Uses |
|---|---|---|
| `GepProtocol` | the wire format: header, limit, frames, as operators on sequences of bytes | |
| `GepChannel` | the two channels of a connection, their senders and service threads | `GepProtocol`, `ZeroOrOne` |
| `ZeroOrOne` | abstract: each message is executed zero times or once, in order, while its stream is whole | |
| `FullSend` | `SocketInterface::FullSend` against a clock and a socket | |
| `GepServer` | `GepServer` with `GepChannelArray`, senders and clients | `ClientRegistry` |
| `ClientRegistry` | abstract: the protocol of `AddClient`, `DelClient` and the message callbacks | |
| `GepClient` | `GepClient` with its channel's socket and lock, senders, a server that comes and goes | |
| `SgpExample` | both programs of the example, with their fifo, callbacks and pauses | |
| `Utils` | the printing functions and the conversions of a time | |
| `MCGepChannel`, `MCGepServer`, `MCGepClient`, `MCSgpExample` | instances for TLC | |
| `SequenceLemmas` | facts on sequences the proofs cite | |
| `GepChannelProofs`, `GepStreamProofs`, `FullSendProofs`, `GepServerProofs`, `GepClientProofs`, `SgpExampleProofs`, `UtilsProofs` | theorems | |

The parts meet where one's actions stand for another's: `GepServer` and `GepClient`
take from `GepChannel` what one `RecvData` answers (a message, a fragment, an
error) and that a send returns; `GepChannel` takes from `FullSend` when a
send may fail; `SgpExample` takes from all of them that messages arrive in order
on a connection that is not closed.

Definitions whose comment begins with "Variant" are small changes of the
definition that follows; each run property is shown to fail when its variant
(`mutants` in `PROJECT.json`) takes the definition's place.

### GepChannel

A byte stream is a sequence of bytes. A header is three fields of four bytes, the last one a
number, most significant byte first, written and read by the macros of `utils.h`
(`SET_UINT32`, `UINT32`). `send()` and `recv()` move all they can or any number of bytes in
`Chunks`, so headers are cut inside their fields. Once the streams are out of step any
bytes are read as a header; a length that was torn may well be within bounds.

| State | Code |
|---|---|
| `socket[e]`, `buf[e]`, `lock[e]` | `socket_` (0 for -1), `buf_[0..len_)`, the holder of `socket_lock_` |
| `wire[e]` | what the kernel holds for end `e`, at most `Cap` bytes |
| `rpc[e]` | the service thread: in `select()`, in `RecvString`, in a callback, about to close |
| `spc[t]`, `out[t]`, `todo[t]` | thread `t` in `SendMessage`; what is left of its `SendData`; its messages |
| `flight`, `executed`, `answered`, `torn` | history only: messages under way, given to callbacks, answered 0; a send failed halfway |

`SendMessage`, `LockSocket`, `SendSome`, `HeaderSent`, `MessageSent` and
`SendFails` are the path through `SendMessage`...`FullSend`. A send fails when the
peer is gone, the wire is full (the 5 ms timeout), or a part was already
taken (the clock check after a partial send): `GivesUp`. `Recv`, `RecvFails`,
`ParseEnds`, `RejectFrame`, `DropFrame`, `UnserializeFails`, `Dispatch` and
`CallbackReturns` are `RecvData` with its loop; one pass of the loop is one step.
`Close` and `Open` end and begin a connection; a closing end discards what it had
not read, and what is sent to a closed peer goes nowhere. A connection that exists at
one end only until it is noticed at the other, and the reset that throws
data away, are both possible.

`Open` waits until both ends have let go of the old connection. In the program the client may
reconnect at once, and the server then has two channels for a time; but each has a socket, a lock
and a buffer of its own, so all that the restriction leaves out is that messages of the old
connection are executed at the server after the new one has begun. That several channels live side by side, in
one vector and one service thread, is `GepServer`'s subject.

`ZeroOrOne` is what the two channels promise together, and it is as strong as what they
keep. Until a send to an end fails halfway (`torn`, there `broken`), an end executes the messages sent to it, in
order, each once, and skips only what has no callback. After such a send it may execute anything
until the next connection (`Stray`). The header of `gep_channel_array.h` promises more; the
runs `channel_loss` and `channel_garble` show two ways in which it is not kept.

### FullSend

The clock runs in ticks, `TicksPerMs` to the millisecond, and may advance between
any two statements. `started_ms` is the start rounded down, as `ms_elapse(0)` is.
`send()` takes a part, blocks, or fails; `select()` wakes, is interrupted or times
out. `late` counts the `send()` calls made after the deadline.

### GepServer

`pc` follows `RunThread`: `watch` (build the sets), `select`, `recv` (pick the
first ready channel), `read`, `callback`, `drop`, `close`, `accept`, `add`; the
three looks at `thread_ctrl_` are steps of their own. `fdt` is the kernel's
descriptor table, in which `socket()` and `accept()` take the lowest free
entry. A section under the vector lock is one step; a send holds `vlock` from
`LockVector` to `SendReturns` and visits one channel per step. A channel's
`RecvData` is abstracted to what it answers: a message for a callback, a fragment,
or an error. `EINTR` leaves `read_fds` as it was (`SelectInterrupted`); any other error of `select()`
ends the thread (`SelectFails`). A client in `Endless` sends its input over and over and so never
pauses; of each client's input the kernel holds `Window` pieces. What the
application does in `AddClient`/`DelClient` is to record the identifier (`ids`,
`past`). A channel of the vector always has an open socket (`ChannelsAreReal`), so
the tests of `IsOpenSocket` and `socket < 0` are not modelled.

With `AppLocks` the application has one lock of its own, which its threads
hold around `Send` and its message callback takes (`CallbackLocks`): the case of
`GepEndToEndTest.CallbackCrossed`. That the program does not lock up depends on
`RecvData` having released the vector's lock before the callback, `SendsReturn`.
`AddClient` and `DelClient` are called with the vector's lock held; an application that takes
such a lock there too would deadlock. This is certain, not a question for a run, and it
is listed as a hazard only.

### GepClient

| State | Code |
|---|---|
| `socket_`, `lock` | the channel's `socket_`, the holder of `socket_lock_` |
| `socket`, `ready` | `RunThread`'s copy of the socket; whether it is in `read_fds` |
| `pc` | `RunThread` and `Reconnect`: `load` (`GetSocket`), `top` (the loop), `reconnect`, `install` (the end of `OpenClientSocket`), `pause`, `select`, `woken`, `recv`, `receiving` (inside `recv()`, with the lock), `callback`, `close`, `exit` |
| `app` | `Start` (`opening`) and `Stop` (`joining`, `closing`) |
| `fds`, `conns`, `first` | kernel and history: open sockets, connections made, the one `Start` made |

A connection's number stands for its descriptor. The server listens or not, hangs up,
and sends messages, fragments and garbage. The client's socket is blocking: its `recv()` waits,
with the lock, when `select()` was interrupted and `read_fds` says by mistake that there
is data (`Blocked`); the properties that would fail then say so.

### SgpExample

Two main threads, `pc[p]`, as sequences of the statements of `client.cc` and
`server.cc` that others can notice, and the messages between them by kind. The
three pauses become nondeterminism; `hasty` records that one was over before the other
side was done, in which case the programs may print less. The server's `seen_client_`
(`server.cc:52`) and the client's counters (`client.cc:46-49`) are `std::atomic`, so each increment and
each read is a step. The server's own counters (`server.cc:47-50`) are plain
integers that its service thread increments and its main thread reads before it calls `Stop`; `cnt` has the
reads and increments of a machine on which an aligned `int` is read and written whole.

### Utils

Memory is a function from addresses to characters, of which only position and
origin matter: an escape has four, a hexadecimal byte two. The positions are kept because the properties are
about them: where an escape is cut, which byte gets the NUL, what is one beyond the end. Every call of
`nice_snprintf` or `strftime` is an assignment to it. `usecs_to_timeval` and its
inverse are operators, which only a theorem uses.

## 3. The runs

| Run | Instance | Shows |
|---|---|---|
| `channel_duplex` | 2 client senders, 1 server sender, a replying callback; messages that do not serialize, are too large, have no callback; both ends may stop; 2 connections | `TypeOK`, `LockInv`, `StreamInSync`, `BufferHasRoom`, `ZeroOrOneSpec` |
| `channel_live` | both ends send from a thread and a callback into full wires; one message that does not parse; with fairness | `SendReturns`, `InFlightSettles` |
| `channel_loss` | one sender, two messages | violation of `LossIsReported` |
| `channel_garble` | the same, with sends and receives cut at any byte | violation of `ExecutesWhatWasSent` |
| `full_send` | 3 bytes, 2 ms, 3 ticks per ms | all properties of `FullSend`, and that it returns |
| `server_crowd` | limit 2, 3 clients, a sending thread and callback, signals, 2 starts | `TypeOK`, `ChannelsAreReal`, `DescriptorsAccounted`, `Announced`, `ClientRegistrySpec`, `BroadcastIsExact` |
| `server_live` | a client that never pauses and one that sends a fragment and garbage, in either order; an application lock; no signals; with fairness | `StopReturns`, `SendsReturn`, `PendingIsAccepted`, `InputIsRead` |
| `server_interrupted` | as `server_live`, with signals | violation of `ServiceStaysUp` |
| `server_refused` | limit 1, 2 clients | violation of `ConnectionGetsChannel` |
| `client` | a sending thread and callback, 2 starts, signals, 3 faults, with fairness | `TypeOK`, `CopyIsCurrent`, `NoSocketLost`, `CountIsExact`, `StopReturns`, `SendsReturn`, `Reconnects` |
| `sgp` | both programs, seven command lines each, with fairness | `TypeOK`, `ResultsExact`, `NothingExtra`, `SendsToSomebody`, `FirstTrySucceeds`, `BothFinish` |
| `utils` | buffers of 1 to 30 bytes, up to 4 bytes of data, both dates | `TypeOK`, `WritesStay`, `PrintsWhatFits`, `DateIsPrefix` |

**Bounds.** `MaxMsgLen` of 16 bytes (26 in `channel_live`) leaves room for values
of 3 (13): a frame, or a frame and part of the next, fits the buffer, and lengths
within and above the limit occur. The values are those of a message with one
optional integer, nothing or two bytes; `channel_live` has text mode, which refuses
a field the receiver does not know, the others binary mode. `Cap` of 12 or 13 makes a wire fill up at or behind the end of a
header, and with `Chunks` of 5, and 1 in the two runs that look for a counterexample, sends and receives
end inside fields, between them and inside values. Two connections are needed for bytes to leak from
one to the next. Three clients at a limit of two give refusals, erasures from the
middle of the vector and reuse of descriptors; two starts give reuse of
identifiers, if there were any. In `client`, two starts show what `Stop` must reset,
and three faults let a connection be lost, and lost again while the thread is busy with
the first loss; more of them repeat the same states with another socket. In `sgp` the command lines
have no fifo, a wrong number, an unknown option, nothing to send, and some of each
command. Sizes up to 30 pass every limit of `snprintf_date`, the longest text. `Ids`,
`MaxSends`, `MaxStarts`, `MaxMsgs`, `MaxFaults`, `MaxConns`, `MaxNow` and the clients'
finite inputs bound the runs only. `server_crowd` uses symmetry of the two silent
clients; it checks no liveness. Deadlock is not checked in `client` (it is stopped for good after
`MaxStarts`), `sgp` (a program without its partner waits for ever) and `utils` (functions
return).

**Fairness.** Every thread that can take a step eventually does (weak fairness of
each thread's steps): the code's loops have no condition that keeps a runnable
thread from running, `FullSend` gives up by itself, and `select()` has a timeout.
Waiting for a mutex is weakly fair here, which suffices because each thread sends
finitely often in a run; `std::mutex` promises no fairness, so threads that send
without a pause could starve a receiver. In `channel_live` the client reconnects (`GepClient::Reconnect`).
Nobody is assumed to start, stop, connect, send or hang up, no socket is assumed to
become writable, no signal to come. `server_live` assumes that no signals interrupt the
service thread, since `server_interrupted` shows what they do, and that `select()` does not fail
(`SelectMayFail`; it may in `server_crowd`). `InputIsRead` does not assume that clients
pause: it says that a client which waits for ever has, again and again, an older one before it that is
ready. `Reconnects` assumes, as
its premise, a server that in the end stays and a `select()` that does not fail. In `sgp`
the main threads and service threads run.

**Disagreements found.**
1. `SendTLV` fails halfway and keeps the stream open: the next message is answered
   0 and swallowed (`gep_channel_array.h:38-40` promises an error). `LossIsReported`.
2. For the same reason a callback may be given what nobody sent: when the last byte of a
   binary value is missing, the next header's first letter takes its place, and the value still parses
   (`gep_channel_array.h:36-38` promises zero or one execution of a message). In the run an
   integer 1 arrives as 103. `ExecutesWhatWasSent`.
3. An interrupted `select()` ends the server's service thread, although line 98 of
   `gep_server.cc` is written to survive it. `ServiceStaysUp`.
4. A connection over the limit is neither served nor closed, ever
   (`gep_server.h:24-25`). `ConnectionGetsChannel`.

Observations without a run of their own: an interrupted `select()` leads the client into a `recv()`
that blocks with `socket_lock_` held, and with it every `Send` and `Stop`, until the server
speaks or goes (`Blocked`). `send()` is called without `MSG_NOSIGNAL`: an application that does not
ignore `SIGPIPE`, as the example does not, dies of a peer that left (`Dies`); the other
modules assume one that does. After an error of `select()` the client's thread is gone while
its socket stays open (`SelectFails`). `snprintf_date` writes one NUL beyond a
buffer of 20 to 23 bytes when it prints the full date (`WritesStay`); its only caller has 64.
`nice_snprintf` answers the size of the buffer when it cuts a text, one more than "the number of
characters actually printed" of `utils.h:138` (`utils_test.cc:48` expects what it does;
`PrintsWhatFits` states it). A message of exactly `kMaxMsgLen` bytes is refused (`gep_channel.cc:194`)
and costs the connection, although `gep_protocol.h:75` calls this the maximum length "including 12-byte
header"; the sender checks no length. In the example's client, `read()` answers up to `MAX_BUF`,
or -1 without a fifo, and `client.cc:224` then writes `rbuf[len]`, one beyond the buffer or one before it;
the model has what `strtol` may make of the buffer (`ReadPort`), not that write.

## 4. The theorems

All hold for every value of the constants that satisfies the named assumptions
(`ProtocolAssumption`, `ChannelAssumption`, `FullSendAssumption`, `ServerAssumption`,
`ClientAssumption`, `SgpAssumption`, `LineAssumption`, `UtilsAssumption`). The bounds of the runs are constants too, so that they may be as large as
one likes.

**GepProtocol.** `Uint32RoundTrip` (in `GepChannelProofs`): what the macros write is what they read, for every
32-bit number. That the lengths of messages are such numbers is part of `ChannelAssumption`, since `SendTLV` is
given them as an `int`.

**GepChannel.** `TypeCorrect`: `TypeOK` is inductive. It contains what the other proofs need
to know of the shape of the state: `len_` within the buffer, a message to send for
every thread inside `SendMessage`, a whole frame in the buffer during a
callback. `LockCorrect`: `LockInv` is inductive on top of `TypeOK`: a thread is in the
middle of a message exactly while it owns its end's lock; `SendersExclude`
follows: never two threads of one end at once. `BufferCorrect`: when the service
thread goes back to `select()` the loop of `RecvString` has ended, so the buffer holds
less than a frame whose length the check has bounded (`RoomForMore`). `Basic` collects
what else is always true of the parts a stream is made of: `Owners` (a thread that owns a
lock is past `LockSocket`), `Sockets` (a closed end has an empty buffer and an idle service
thread), and `Senders` (what a sender has left is an end part of its message's frame).

`GepStreamProofs` looks at the whole of what is on its way to an end: `Stream(e)` is what
is received and not consumed, what the kernel carries, and what the owner of the peer's lock has
still to send. The lemma `Effects` says that a step does one of seven things to it:
nothing (`Same`); a message is sent, whose frame joins the stream as the message joins those under
way (`Grows`); a message of which nothing was sent is given up (`Shrinks`), or one that was sent in part
(`Breaks`); the receiver throws away what it has (`Forgets`); it takes the message its
parser has found (`Takes`); the connection is gone (`Gone`). From these effects, most of the time
without looking at an action again, follows

* `SyncInv`: as long as the stream is intact it is `Frames(flight[e])`, the frames of the messages
  under way, byte for byte. It needs `LastSent`, that the message of a sender that has not sent a byte is the
  last one of `flight`: else `Shrinks` would cut off another message's frame. `StreamCorrect` follows.
* `OldestFirst`: on such a stream whatever is executed or dropped is `flight[e][1]`. What
  `ScanHeader` reads off the front is what `PrintHeader` wrote (`ParseFirst`), wherever the pieces were
  cut, because a length survives its four bytes (`FieldType`, `Uint32RoundTrip`).
* `PromiseKept`: `GepChannel` implements `ZeroOrOne`. On an intact stream a `Dispatch` is its `Execute` and a
  `DropFrame` its `Skip` (`PromiseIntact`), of the oldest message and with no other left behind; on a
  torn one each is a `Stray` (`PromiseStray`). Nothing is assumed of the messages' contents.

**FullSend.** `ResultCorrect`, `NeverEarly`, `LateSends`, `TypeCorrect` and
`TimeoutCorrect` follow from one inductive invariant, `Inv`. It adds to the properties
that an unfinished call has bytes left (`Pending`), that the start is the call's
time rounded down (`Started`), when `select()` will wake (`WakeLate`), that after a late
`send()` the very next test of the clock ends the call (`LateOnce`), and what has to have
happened before a wait (`Cause`). The arithmetic of rounding is in the lemmas
`Division` to `DivisionGrows`.

**GepServer.** `Inv` is `TypeOK` with five parts, one for each question a step may disturb:

* `Places`: where the service thread is, and that the channel it has at hand is in
  the vector from `PickChannel` to `DropChannel`;
* `Names`: identifiers grow along the vector, are below `last_channel_id`, and those
  withdrawn are not announced again. `Announced` alone is not inductive: only with
  growing identifiers does erasing a channel take exactly its identifier away;
* `Descriptors`: a channel's descriptor is its connection's and no other channel's, also
  while it is being added (`new_socket`) or closed (`used.fd`). Without the last
  two, `accept()` might be given a descriptor about to be closed;
* `Owners`: every open descriptor is somebody's;
* `Sends`: the lock is a sender's during its walk; a broadcast has reached the channels it
  passed unless one failed. Whoever changes the vector needs the lock, so
  that at that time nobody is on a walk.

Each part has a lemma (`TypeStep`, `PlacesStep`, `NamesStep`, `DescriptorsStep`,
`SendsStep`); `VectorKept` and `SendingKept` settle the steps that have nothing to do with it.
From `Inv` follow `ChannelsCorrect`, `DescriptorsCorrect`, `AnnouncedCorrect`, `BroadcastCorrect`, and
`RegistryCorrect`, the refinement: `AddChannel` is `AddClient`, `DropChannel` and
`ClearVector` are `DelClients`, a `Receive` that finds a message is `Call`,
`CallbackReturns` is `Return`, and every other step is a stutter.

**GepClient.** `Inv` is `TypeOK` with `Places` (which state of the application goes with
which of the thread), `Sockets` (which sockets are open in each of them) and `Counts`.
`CopyCorrect`, `SocketsCorrect`, `CountCorrect` follow.

**SgpExample.** The command lines are arbitrary sequences of options, so `parse_args` is a
function of how many arguments are done; that it exists and what it answers
(`ParseType`) is shown by looking at the shortest beginning for which it would not. The
invariants build on each other:

* `Shape` and `Ends` are the types (and give `TypeCorrect`, which only says that);
* `Order`: before the client has connected nothing is sent, and the server sends only when
  `seen_client_` is set, which takes a byte on an accepted connection. `ServerHasAClient`;
* `Rendezvous`: whoever has read the port, or may read it from the fifo, finds the server
  listening, until the client has connected. `ToldIsEnough`;
* `Settled`: once a pause is over, all commands have arrived if no pause was hasty. It follows
  from `Calm`, which says until then where they are: for each command, what the
  callbacks have counted, what is under way and what is left to send add up to what the
  command line asked for (`Accounted`, with `Occurrences` of `SequenceLemmas`). `Calm` needs
  `Waits`: as long as nobody has connected the server listens just while it waits.
  `ResultsAreExact`;
* `Limits`, for the runs in which a pause was hasty: the same sum (`Total`) never exceeds what was asked
  for. A send into nothing, a reset and an early `Stop` only make it smaller (`SendTotal`), a
  callback leaves it as it is (`RecvTotal`), and before a program starts to send nothing of its commands is
  about (`Unsent`). `NothingCountedTwice`.

**Utils.** `TimevalRoundTrip`: what is written is what is read, for every time, before or after 1970.

The printing functions are proved for buffers of any size and data of any length. The
invariant is about the text printed so far: the buffer holds as much of it as fits, and its NUL
(`Printed`). For bytes (`Printing`) that text and the texts of the bytes still to come (`Rest`)
make up the whole text, which `FlattenSeq` defines by recursion; `FlattenHead`, of
`SequenceLemmas`, takes one byte's text off its front (of two tables of its partial results, the least place where
they differ is looked at, for want of induction). For a date (`Dating`) it is the day
and time, then the fraction, then the zone. `PutAdds` is the one lemma about `vsnprintf` and
`nice_snprintf`: what it adds to a buffer that holds a beginning of a text, also when there
is no room left. `TypeCorrect`, `NothingBeyond`, `BeginningPrinted` and `DateBegins` follow;
`StringIs` tells what string a C program would see in such a buffer.

Only model-checked: liveness, which is out of reach of the prover, as are `ENABLED` and
induction over data; and the runs that show a disagreement, which need a
counterexample and not a proof. Every invariant and every safety property of the passing runs
is a theorem.

## 5. Not modelled

`SetMagic`, `SetMode`, `SetPort` and the setters used by tests: called before Start.
Destruction of a server or client that was not stopped, a second Start, Stop from a
callback: misuse the code does not handle. Callbacks of `AddClient`/`DelClient` that
send or take the application's locks. `RawSocketInterface` and the other members of
`SocketInterface` are single system calls, modelled where they are used. `gep_log`,
`gep_perror` and `ProtobufEqual` only print or compare. The read-only accessors of
`GepChannelArray`. Tests, mocks and build files.

## 6. Plan

1. `AddClient` and `DelClient` as steps of their own, for applications that send from them
   (the vector's lock is recursive).
2. A composition of `GepClient` with `GepServer` over several connections, where a
   refused client reconnects.
