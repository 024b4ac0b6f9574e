----------------------------- MODULE SgpExample -----------------------------
(***************************************************************************)
(* The two console programs of the SGP example.  The server listens on any *)
(* free port and tells the client through a fifo; the client connects and  *)
(* sends its commands; the server, once it has seen one, sends its own;    *)
(* each waits for three seconds, prints how many commands of each kind its *)
(* callbacks were given, and stops.                                        *)
(*                                                                         *)
(* A program is its main thread, pc[p], and the service thread of its      *)
(* library object, of which only accepting and receiving are left:         *)
(* GepServer, GepClient and GepChannel have the rest.  All commands fit in *)
(* the socket's buffer, so that no Send times out.                         *)
(***************************************************************************)
EXTENDS Integers, Sequences

LOCAL INSTANCE SequencesExt

CONSTANTS
  Client, Server,   \* the programs
  CommandLines,     \* command lines: sequences of [option, value]
  Fifos,            \* the fifos that exist
  NoFifo,           \* the fifo of a command line without one
  Junk,             \* text that is no number
  Port,             \* the port the server is given
  OtherPort,        \* a port nobody listens on
  Killed,           \* the exit status of a program a signal has ended
  None              \* no value

Programs == {Client, Server}
Peer(p)  == IF p = Client THEN Server ELSE Client
Commands == 1 .. 4
MaxTries == 3

ASSUME SgpAssumption == /\ Client # Server
                        /\ NoFifo \notin Fifos
                        /\ Port \notin {OtherPort, Junk, None}
                        /\ None \notin {0, -1, Killed}
                        /\ None \notin [Commands -> Nat]

-----------------------------------------------------------------------------
(* The protocol: a tag per message, a message and a callback per tag.       *)

GetTag     == <<"cmd1", "cmd2", "cmd3", "cmd4">>
GetMessage == [cmd1 |-> 1, cmd2 |-> 2, cmd3 |-> 3, cmd4 |-> 4]
Ops        == [cmd1 |-> 1, cmd2 |-> 2, cmd3 |-> 3, cmd4 |-> 4]

\* RecvMessage hands the message to the Recv() of its type; the cast to another
\* type would throw.
Delivers(tag, c) == c = Ops[tag] /\ c = GetMessage[tag]

-----------------------------------------------------------------------------
(* The command line.                                                        *)

\* "code" is None, or what exit() was given.
Defaults == [fifo |-> NoFifo, cnt |-> <<1, 2, 3, 4>>, code |-> None]

Count == [cnt1 |-> 1, cnt2 |-> 2, cnt3 |-> 3, cnt4 |-> 4]

\* What strtol reads after a --cnt option is a number or junk.
ASSUME LineAssumption ==
  \A line \in CommandLines :
    /\ Len(line) \in Nat
    /\ \A k \in 1 .. Len(line) :
         line[k].option \in DOMAIN Count => line[k].value \in Int \cup {Junk}

Take(v, arg) ==
  LET o == arg.option  n == arg.value IN
  CASE v.code # None                                 -> v
    [] v.code = None /\ o = "fifo"                   -> [v EXCEPT !.fifo = n]
    [] v.code = None /\ o \in DOMAIN Count /\ n = Junk -> [v EXCEPT !.code = -1]
    [] v.code = None /\ o \in DOMAIN Count /\ n # Junk -> [v EXCEPT !.cnt[Count[o]] = n]
    [] OTHER                                         -> [v EXCEPT !.code = 0]

parse_args(line) ==
  LET after[n \in 0 .. Len(line)] ==
        IF n = 0 THEN Defaults ELSE Take(after[n - 1], line[n])
  IN  after[Len(line)]

\* Variant: <= in the loops.
BatchAndOne(v) == FlattenSeq([c \in Commands |-> [i \in 1 .. v.cnt[c] + 1 |-> c]])

\* The four for loops: what they send, in order.
Batch(v) == FlattenSeq([c \in Commands |-> [i \in 1 .. v.cnt[c] |-> c]])

-----------------------------------------------------------------------------
VARIABLES
  pc,           \* where main() is
  values,       \* parse_args's result
  code,         \* the exit status
  fifo,         \* fifo[f]: the port written and not read
  port,         \* the port the client read
  tries,        \* the client's failed calls of Start
  listening,    \* the server's socket accepts connections
  conn,         \* the connection: "none", "pending", "up" or "closed"
  stream,       \* stream[p]: tags on their way to p
  left,         \* left[p]: commands p has still to send
  cnt,          \* cnt[p][c]: commands c that p's callbacks were given
  seen_client_,
  printed,      \* printed[p]: the results p has printed
  hasty         \* history: a pause was over before the other side was done

setup == <<values, fifo, port, tries, listening>>
comm  == <<conn, stream, cnt, seen_client_>>
vars  == <<pc, code, setup, comm, left, printed, hasty>>

Init ==
  /\ pc = [p \in Programs |-> "parse"]
  /\ values = [p \in Programs |-> Defaults]
  /\ code = [p \in Programs |-> None]
  /\ fifo = [f \in Fifos |-> <<>>] /\ port = None /\ tries = 0
  /\ listening = FALSE /\ conn = "none"
  /\ stream = [p \in Programs |-> <<>>] /\ left = [p \in Programs |-> <<>>]
  /\ cnt = [p \in Programs |-> [c \in Commands |-> 0]]
  /\ seen_client_ = FALSE
  /\ printed = [p \in Programs |-> None]
  /\ hasty = FALSE

Goto(p, l) == pc' = [pc EXCEPT ![p] = l] /\ UNCHANGED code
Exit(p, n) == pc' = [pc EXCEPT ![p] = "exit"] /\ code' = [code EXCEPT ![p] = n]

ParseArgs(p) ==
  /\ pc[p] = "parse"
  /\ \E line \in CommandLines :
       LET v == parse_args(line) IN
       /\ values' = [values EXCEPT ![p] = v]
       /\ IF v.code # None THEN Exit(p, v.code)
                           ELSE Goto(p, IF p = Server THEN "start" ELSE "open")
  /\ UNCHANGED <<fifo, port, tries, listening, comm, left, printed, hasty>>

-----------------------------------------------------------------------------
(* How the two find each other.                                             *)

\* Variant: the port is made known before the server listens on it.
ServerBindsOnly ==
  /\ pc[Server] = "start" /\ Goto(Server, "open")
  /\ UNCHANGED <<setup, comm, left, printed, hasty>>

ServerStarts ==
  /\ pc[Server] = "start" /\ Goto(Server, "open")
  /\ listening' = TRUE
  /\ UNCHANGED <<values, fifo, port, tries, comm, left, printed, hasty>>

ServerCannotStart ==
  /\ pc[Server] = "start" /\ Exit(Server, -1)
  /\ UNCHANGED <<setup, comm, left, printed, hasty>>

\* Nobody looks at the results of open() and write(): without a fifo they fail.
\* open(O_WRONLY) waits until the client has the fifo open.
WritePort ==
  LET f == values[Server].fifo IN
  /\ pc[Server] = "open" /\ Goto(Server, "wait")
  /\ \/ f \notin Fifos /\ UNCHANGED fifo
     \/ /\ f \in Fifos /\ pc[Client] = "read" /\ values[Client].fifo = f
        /\ fifo' = [fifo EXCEPT ![f] = Append(@, Port)]
  /\ UNCHANGED <<values, port, tries, listening, comm, left, printed, hasty>>

\* open(O_RDWR) does not wait.
OpenFifo ==
  /\ pc[Client] = "open" /\ Goto(Client, "read")
  /\ UNCHANGED <<setup, comm, left, printed, hasty>>

\* Without a fifo read() fails too, and the port is looked for in a buffer nobody
\* has written to.
ReadPort ==
  LET f == values[Client].fifo IN
  /\ pc[Client] = "read"
  /\ IF f \in Fifos
     THEN fifo[f] # <<>> /\ port' = Head(fifo[f]) /\ fifo' = [fifo EXCEPT ![f] = Tail(@)]
     ELSE port' \in {Port, OtherPort, Junk} /\ UNCHANGED fifo
  /\ IF port' = Junk THEN Exit(Client, -1) ELSE Goto(Client, "start")
  /\ UNCHANGED <<values, tries, listening, comm, left, printed, hasty>>

ClientStarts ==
  /\ pc[Client] = "start" /\ port = Port /\ listening
  /\ conn' = "pending" /\ Goto(Client, "send")
  /\ left' = [left EXCEPT ![Client] = Batch(values[Client])]
  /\ UNCHANGED <<setup, stream, cnt, seen_client_, printed, hasty>>

\* Variant: one try more.
ClientTriesOn ==
  /\ pc[Client] = "start" /\ ~(port = Port /\ listening)
  /\ tries' = tries + 1
  /\ IF tries > MaxTries THEN Exit(Client, -1) ELSE Goto(Client, "start")
  /\ UNCHANGED <<values, fifo, port, listening, comm, left, printed, hasty>>

\* It sleeps for a second between two tries.
ClientCannotStart ==
  /\ pc[Client] = "start" /\ ~(port = Port /\ listening)
  /\ tries' = tries + 1
  /\ IF tries' > MaxTries THEN Exit(Client, -1) ELSE Goto(Client, "start")
  /\ UNCHANGED <<values, fifo, port, listening, comm, left, printed, hasty>>

\* Variant: the server does not wait.
SendAtOnce ==
  /\ pc[Server] = "wait" /\ Goto(Server, "send")
  /\ left' = [left EXCEPT ![Server] = Batch(values[Server])]
  /\ UNCHANGED <<setup, comm, printed, hasty>>

SeeClient ==
  /\ pc[Server] = "wait" /\ seen_client_ /\ Goto(Server, "send")
  /\ left' = [left EXCEPT ![Server] = Batch(values[Server])]
  /\ UNCHANGED <<setup, comm, printed, hasty>>

-----------------------------------------------------------------------------
(* Sending and receiving.                                                   *)

\* The client's connection may still wait to be accepted; the server's Send goes
\* to the clients it has accepted.
Reaches(p) == IF p = Client THEN conn \in {"pending", "up"} ELSE conn = "up"

Send(p) ==
  /\ pc[p] = "send" /\ left[p] # <<>>
  /\ left' = [left EXCEPT ![p] = Tail(@)]
  /\ stream' = IF Reaches(p)
               THEN [stream EXCEPT ![Peer(p)] = Append(@, GetTag[Head(left[p])])]
               ELSE stream
  /\ UNCHANGED <<pc, code, setup, conn, cnt, seen_client_, printed, hasty>>

\* send() into a connection the other side has reset raises SIGPIPE, which nobody
\* ignores.
Dies(p) ==
  /\ pc[p] = "send" /\ left[p] # <<>> /\ (conn = "closed" \/ pc[Peer(p)] = "exit")
  /\ Exit(p, Killed)
  /\ UNCHANGED <<setup, comm, left, printed, hasty>>

Sent(p) ==
  /\ pc[p] = "send" /\ left[p] = <<>> /\ Goto(p, "pause")
  /\ UNCHANGED <<setup, comm, left, printed, hasty>>

\* A client that has gone may be accepted as well.
Accept ==
  /\ conn = "pending" /\ listening
  /\ conn' = "up"
  /\ UNCHANGED <<pc, code, setup, stream, cnt, seen_client_, left, printed, hasty>>

Receives(p) == pc[p] # "exit" /\ (p = Server => conn # "pending") /\ stream[p] # <<>>

\* Variant: the flag is forgotten in all callbacks but the first.
RecvSeesFirst(p) ==
  /\ Receives(p)
  /\ \E c \in Commands :
       /\ Delivers(Head(stream[p]), c)
       /\ cnt' = [cnt EXCEPT ![p][c] = @ + 1]
       /\ seen_client_' = (seen_client_ \/ (p = Server /\ c = 1))
  /\ stream' = [stream EXCEPT ![p] = Tail(@)]
  /\ UNCHANGED <<pc, code, setup, conn, left, printed, hasty>>

Recv(p) ==
  /\ Receives(p)
  /\ \E c \in Commands :
       /\ Delivers(Head(stream[p]), c)
       /\ cnt' = [cnt EXCEPT ![p][c] = @ + 1]
  /\ seen_client_' = (seen_client_ \/ p = Server)
  /\ stream' = [stream EXCEPT ![p] = Tail(@)]
  /\ UNCHANGED <<pc, code, setup, conn, left, printed, hasty>>

-----------------------------------------------------------------------------
(* "give some time for all both sides to finish"                            *)

Done(p) == pc[p] \in {"pause", "stop", "exit"} /\ stream[p] = <<>>

PauseEnds(p) ==
  /\ pc[p] = "pause" /\ Goto(p, "stop")
  /\ printed' = [printed EXCEPT ![p] = cnt[p]]
  /\ hasty' = (hasty \/ \E q \in Programs : ~Done(q))
  /\ UNCHANGED <<setup, comm, left>>

\* Stop.  Closing a socket with unread data resets the connection.
Stop(p) ==
  /\ pc[p] = "stop" /\ Exit(p, 0)
  /\ listening' = (listening /\ p # Server)
  /\ conn' = IF p = Client /\ conn = "pending" THEN conn ELSE "closed"
  /\ \E rest \in {stream[Peer(p)]} \cup (IF stream[p] = <<>> THEN {} ELSE {<<>>}) :
       stream' = [stream EXCEPT ![p] = <<>>, ![Peer(p)] = rest]
  /\ UNCHANGED <<values, fifo, port, tries, cnt, seen_client_, left, printed, hasty>>

-----------------------------------------------------------------------------
ProgramStep(p) ==
  \/ ParseArgs(p) \/ Send(p) \/ Dies(p) \/ Sent(p) \/ PauseEnds(p) \/ Stop(p)
  \/ /\ p = Server
     /\ ServerStarts \/ ServerCannotStart \/ WritePort \/ SeeClient
  \/ /\ p = Client
     /\ OpenFifo \/ ReadPort \/ ClientStarts \/ ClientCannotStart

Next == \/ \E p \in Programs : ProgramStep(p) \/ Recv(p)
        \/ Accept

Spec == Init /\ [][Next]_vars

\* Both programs run, with all their threads.
FairSpec == /\ Spec /\ WF_vars(Accept)
            /\ \A p \in Programs : WF_vars(ProgramStep(p)) /\ WF_vars(Recv(p))

-----------------------------------------------------------------------------
(* Properties.                                                              *)

Labels == {"parse", "start", "open", "wait", "read", "send", "pause", "stop", "exit"}

\* The shape of the state; a client gives up at its fourth try at the latest
\* (client.cc, the loop around Start).
TypeOK ==
  /\ pc \in [Programs -> Labels]
  /\ \A p \in Programs : code[p] \in {None, 0, -1, Killed} /\ (pc[p] = "exit" <=> code[p] # None)
  /\ DOMAIN fifo = Fifos /\ port \in {None, Port, OtherPort, Junk}
  /\ tries \in 0 .. MaxTries + 1
  /\ listening \in BOOLEAN /\ conn \in {"none", "pending", "up", "closed"}
  /\ \A p \in Programs : \A i \in DOMAIN stream[p] : stream[p][i] \in DOMAIN Ops
  /\ \A p \in Programs : \A i \in DOMAIN left[p] : left[p][i] \in Commands
  /\ cnt \in [Programs -> [Commands -> Nat]] /\ seen_client_ \in BOOLEAN

\* What the end-to-end script expects of its output, "results: 44 33 22 11"
\* (run_client_and_server.sh): as long as the pauses outlast the traffic, each side
\* prints just what the other was asked to send, the first commands included, which
\* the server sends only because it has waited for a client.
ResultsExact ==
  \A p \in Programs : printed[p] # None /\ ~hasty =>
    \A c \in Commands :
      LET n == values[Peer(p)].cnt[c] IN printed[p][c] = IF n > 0 THEN n ELSE 0

\* However hasty a pause is, and whatever a closed or reset connection leaves
\* undelivered, no callback ever runs more often than the other program was asked
\* to send (the loops of server.cc and client.cc, and the counters of the Recv()s).
NothingExtra ==
  \A p \in Programs : \A c \in Commands :
    LET n == values[Peer(p)].cnt[c] IN cnt[p][c] <= IF n > 0 THEN n ELSE 0

\* When the server starts to send, it has accepted the client: seen_client_ stands
\* for a channel in the vector, which a mere connect() does not give.
SendsToSomebody == pc[Server] = "send" => conn \in {"up", "closed"}

\* A client that was told the port connects at the first try: the port travels
\* through the fifo only once the server listens, and the server stays until it has
\* seen a client.
FirstTrySucceeds == values[Client].fifo \in Fifos => tries = 0

Waiting == pc[Server] = "open" /\ pc[Client] \in {"open", "read"}

\* Two programs given one fifo, and anything for the client to send, find each
\* other and run to their end, with status 0 unless a pause was over so early that
\* one closed the connection while the other sent.
BothFinish ==
  Waiting /\ values[Server].fifo \in Fifos /\ values[Client].fifo = values[Server].fifo
          /\ Batch(values[Client]) # <<>>
    ~> \A p \in Programs : code[p] = 0 \/ (code[p] = Killed /\ hasty)
=============================================================================
