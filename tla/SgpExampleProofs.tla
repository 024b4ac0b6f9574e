-------------------------- MODULE SgpExampleProofs --------------------------
(***************************************************************************)
(* The two programs of the example find each other at the first try, talk  *)
(* to somebody, and count right, for any command lines and any fifos.      *)
(***************************************************************************)
EXTENDS SgpExample, SequenceLemmas

LOCAL INSTANCE SequencesExt

-----------------------------------------------------------------------------
(* The command line.                                                        *)

\* What parse_args may answer.
Args == [fifo : {NoFifo} \cup UNION {{line[k].value : k \in 1 .. Len(line)} : line \in CommandLines},
         cnt  : [Commands -> Int],
         code : {None, -1, 0}]

\* An option leaves arguments behind.
LEMMA TakeType ==
  ASSUME NEW line \in CommandLines, NEW k \in 1 .. Len(line), NEW v \in Args
  PROVE  Take(v, line[k]) \in Args
  <1> DEFINE o == line[k].option
             n == line[k].value
  <1>1. o \in DOMAIN Count => n \in Int \cup {Junk}
    BY LineAssumption
  <1>2. n \in UNION {{l[j].value : j \in 1 .. Len(l)} : l \in CommandLines}
    OBVIOUS
  <1>3. "fifo" \notin DOMAIN Count /\ \A d \in DOMAIN Count : Count[d] \in Commands
    BY DEF Count, Commands
  <1> HIDE DEF o, n
  <1>4. Take(v, line[k]) =
          CASE v.code # None                                 -> v
            [] v.code = None /\ o = "fifo"                   -> [v EXCEPT !.fifo = n]
            [] v.code = None /\ o \in DOMAIN Count /\ n = Junk -> [v EXCEPT !.code = -1]
            [] v.code = None /\ o \in DOMAIN Count /\ n # Junk -> [v EXCEPT !.cnt[Count[o]] = n]
            [] OTHER                                         -> [v EXCEPT !.code = 0]
    BY DEF Take, o, n
  <1>5. CASE v.code # None
    BY <1>4, <1>5
  <1>6. CASE v.code = None /\ o = "fifo"
    BY <1>2, <1>3, <1>4, <1>6 DEF Args
  <1>7. CASE v.code = None /\ o \in DOMAIN Count /\ n = Junk
    BY <1>3, <1>4, <1>7 DEF Args
  <1>8. CASE v.code = None /\ o \in DOMAIN Count /\ n # Junk
    <2> DEFINE w == [v.cnt EXCEPT ![Count[o]] = n]
    <2>1. Count[o] \in Commands /\ n \in Int
      BY <1>1, <1>3, <1>8
    <2>2. w \in [Commands -> Int]
      BY <2>1 DEF Args
    <2>3. Take(v, line[k]) = [v EXCEPT !.cnt = w]
      BY <1>3, <1>4, <1>8
    <2> HIDE DEF w
    <2> QED BY <2>2, <2>3 DEF Args
  <1>9. CASE v.code = None /\ o # "fifo" /\ o \notin DOMAIN Count
    BY <1>4, <1>9 DEF Args
  <1> QED BY <1>5, <1>6, <1>7, <1>8, <1>9

\* g holds what there is after each of the first n arguments.
Parsed(line, g, n) ==
  \A i \in 0 .. n : g[i] = IF i = 0 THEN Defaults ELSE Take(g[i - 1], line[i])

\* The arguments of a program that was given none.
LEMMA DefaultsType == Defaults \in Args
  <1>1. <<1, 2, 3, 4>> \in [Commands -> Int]
    BY DEF Commands
  <1> QED BY <1>1 DEF Defaults, Args

\* Every command line can be parsed.
LEMMA ParseExists ==
  ASSUME NEW line \in CommandLines, NEW n \in 0 .. Len(line)
  PROVE  \E g \in [0 .. n -> Args] : Parsed(line, g, n)
  <1> DEFINE Good(k) == \E g \in [0 .. k -> Args] : Parsed(line, g, k)
             Bad == {k \in 0 .. Len(line) : ~Good(k)}
  <1>1. Len(line) \in Nat
    BY LineAssumption
  <1>2. Good(0)
    <2> DEFINE g == [i \in 0 .. 0 |-> Defaults]
    <2>1. g \in [0 .. 0 -> Args]
      BY DefaultsType
    <2>2. Parsed(line, g, 0)
      BY DEF Parsed
    <2> HIDE DEF g
    <2> QED BY <2>1, <2>2
  <1>3. ASSUME NEW k \in 1 .. Len(line), Good(k - 1) PROVE Good(k)
    <2>1. PICK g \in [0 .. k - 1 -> Args] : Parsed(line, g, k - 1)
      BY <1>3
    <2> DEFINE v == Take(g[k - 1], line[k])
               h == [i \in 0 .. k |-> IF i = k THEN v ELSE g[i]]
    <2>2. v \in Args
      <3>1. g[k - 1] \in Args
        BY <1>1, <2>1
      <3> QED BY <3>1, TakeType
    <2>3. h[k - 1] = g[k - 1]
      BY <1>1
    <2> HIDE DEF v
    <2>4. h \in [0 .. k -> Args]
      BY <1>1, <2>1, <2>2
    <2>5. \A i \in 0 .. k : h[i] = IF i = 0 THEN Defaults ELSE Take(h[i - 1], line[i])
      <3> TAKE i \in 0 .. k
      <3>1. CASE i = k
        <4>1. h[i] = v /\ i # 0
          BY <1>1, <3>1
        <4> QED BY <2>3, <3>1, <4>1 DEF v
      <3>2. CASE i # k
        <4>1. i \in 0 .. k - 1 /\ h[i] = g[i]
          BY <1>1, <3>2
        <4>2. i # 0 => h[i - 1] = g[i - 1]
          BY <1>1, <3>2
        <4> HIDE DEF h
        <4> QED BY <2>1, <4>1, <4>2 DEF Parsed
      <3> QED BY <3>1, <3>2
    <2> HIDE DEF h
    <2>6. Parsed(line, h, k)
      BY <2>5 DEF Parsed
    <2> QED BY <2>4, <2>6
  <1>4. SUFFICES ASSUME Bad # {} PROVE FALSE
    OBVIOUS
  <1>5. PICK k \in Bad : \A l \in Bad : k <= l
    <2>1. Bad \subseteq Nat
      BY <1>1
    <2> HIDE DEF Bad
    <2> QED BY <1>4, <2>1, Least
  <1> HIDE DEF Good
  <1>6. k # 0 /\ k \in 0 .. Len(line)
    BY <1>2
  <1>7. k - 1 \in 0 .. Len(line) /\ k \in 1 .. Len(line) /\ ~ (k <= k - 1)
    BY <1>1, <1>6
  <1>8. k - 1 \notin Bad
    <2> HIDE DEF Bad
    <2> QED BY <1>5, <1>7
  <1> QED BY <1>3, <1>5, <1>7, <1>8

\* What is parsed are arguments.
LEMMA ParsedType ==
  ASSUME NEW line \in CommandLines, NEW g, Parsed(line, g, Len(line))
  PROVE  \A i \in 0 .. Len(line) : g[i] \in Args
  <1> DEFINE Bad == {i \in 0 .. Len(line) : g[i] \notin Args}
  <1>1. Len(line) \in Nat
    BY LineAssumption
  <1>2. SUFFICES ASSUME Bad # {} PROVE FALSE
    OBVIOUS
  <1>3. PICK k \in Bad : \A l \in Bad : k <= l
    <2>1. Bad \subseteq Nat
      BY <1>1
    <2> HIDE DEF Bad
    <2> QED BY <1>2, <2>1, Least
  <1>4. k \in 0 .. Len(line) /\ g[k] \notin Args
    OBVIOUS
  <1>5. k # 0
    BY <1>4, DefaultsType DEF Parsed
  <1>6. k - 1 \in 0 .. Len(line) /\ k \in 1 .. Len(line) /\ ~ (k <= k - 1)
    BY <1>1, <1>4, <1>5
  <1>7. g[k - 1] \in Args
    BY <1>3, <1>6
  <1>8. g[k] = Take(g[k - 1], line[k])
    BY <1>4, <1>5 DEF Parsed
  <1> QED BY <1>4, <1>6, <1>7, <1>8, TakeType

\* parse_args answers arguments.
LEMMA ParseType ==
  ASSUME NEW line \in CommandLines
  PROVE  parse_args(line) \in Args
  <1> DEFINE n == Len(line)
             F(h) == [i \in 0 .. n |-> IF i = 0 THEN Defaults ELSE Take(h[i - 1], line[i])]
             f == CHOOSE h : h = F(h)
  <1>1. n \in Nat
    BY LineAssumption
  <1>2. PICK h \in [0 .. n -> Args] : Parsed(line, h, n)
    <2>1. n \in 0 .. Len(line)
      BY <1>1
    <2> HIDE DEF n
    <2> QED BY <2>1, ParseExists
  <1>3. h = F(h)
    <2>1. \A i \in 0 .. n : h[i] = F(h)[i]
      BY <1>2 DEF Parsed
    <2> QED BY <1>2, <2>1
  <1>4. f = F(f)
    <2> HIDE DEF F
    <2> QED BY <1>3
  <1>5. Parsed(line, f, n)
    <2>1. \A i \in 0 .. n : F(f)[i] = IF i = 0 THEN Defaults ELSE Take(f[i - 1], line[i])
      OBVIOUS
    <2> HIDE DEF F, f
    <2> QED BY <1>4, <2>1 DEF Parsed
  <1>6. parse_args(line) = f[n]
    BY DEF parse_args
  <1>7. n \in 0 .. n
    BY <1>1
  <1> HIDE DEF f, F
  <1>8. f[n] \in Args
    BY <1>5, <1>7, ParsedType
  <1> QED BY <1>6, <1>8

-----------------------------------------------------------------------------
(* What the loops send.                                                     *)

\* How many commands a loop sends for a count of n.
Rounds(n) == IF n > 0 THEN n ELSE 0

\* The first of several sequences, and the others.
LEMMA FirstOfMany ==
  ASSUME NEW q \in Seq(Seq(Commands)), NEW x, NEW n \in Nat, Len(q) = n + 1
  PROVE  \E r \in Seq(Seq(Commands)) :
           /\ Len(r) = n
           /\ \A i \in 1 .. n : r[i] = q[i + 1]
           /\ Occurrences(FlattenSeq(q), x) =
                Occurrences(q[1], x) + Occurrences(FlattenSeq(r), x)
  <1> DEFINE L == Seq(Commands)
  <1>1. q \in Seq(L) /\ Len(q) # 0 /\ 1 \in 1 .. Len(q)
    OBVIOUS
  <1> HIDE DEF L
  <1>2. q # <<>>
    BY <1>1, EmptyLength
  <1>3. /\ Tail(q) \in Seq(L) /\ Len(Tail(q)) = Len(q) - 1
        /\ \A i \in 1 .. Len(Tail(q)) : Tail(q)[i] = q[i + 1]
    BY <1>1, <1>2, HeadTailProperties
  <1>4. PICK r \in Seq(L) : r = Tail(q)
    BY <1>3
  <1>5. Len(r) = n /\ \A i \in 1 .. n : r[i] = q[i + 1]
    BY <1>3, <1>4
  <1>6. r \in Seq(Seq(Commands))
    BY DEF L
  <1>7. PICK a \in Seq(Commands) : a = q[1]
    BY <1>1, ElementOfSeq
  <1>8. PICK b \in Seq(Commands) : b = FlattenSeq(r)
    BY <1>6, FlattenType
  <1>9. FlattenSeq(q) = a \o b
    BY <1>1, <1>4, <1>7, <1>8, FlattenHead
  <1>10. Occurrences(a \o b, x) = Occurrences(a, x) + Occurrences(b, x)
    BY OccurrencesAdd
  <1> QED BY <1>5, <1>6, <1>7, <1>8, <1>9, <1>10

\* Each command is sent as often as the command line asks for it.
LEMMA BatchShape ==
  ASSUME NEW v \in Args
  PROVE  /\ Batch(v) \in Seq(Commands)
         /\ \A c \in Commands : Occurrences(Batch(v), c) = Rounds(v.cnt[c])
  <1> DEFINE s(c) == [i \in 1 .. v.cnt[c] |-> c]
             q == [c \in Commands |-> s(c)]
  <1>1. ASSUME NEW c \in Commands
        PROVE  /\ s(c) \in Seq(Commands)
               /\ \A x : Occurrences(s(c), x) = IF c = x THEN Rounds(v.cnt[c]) ELSE 0
    <2>1. PICK n \in Int : n = v.cnt[c]
      BY DEF Args
    <2>2. /\ [i \in 1 .. n |-> c] \in Seq(Commands)
          /\ \A x : Occurrences([i \in 1 .. n |-> c], x) = IF c = x /\ n > 0 THEN n ELSE 0
      BY OccurrencesConstant
    <2> QED BY <2>1, <2>2 DEF Rounds
  <1>2. Batch(v) = FlattenSeq(q)
    BY DEF Batch
  <1> HIDE DEF s
  <1> DEFINE L == Seq(Commands)
  <1>3. q \in [1 .. 4 -> L] /\ \A c \in Commands : q[c] = s(c)
    BY <1>1 DEF Commands
  <1> HIDE DEF q
  <1>4. q \in Seq(Seq(Commands)) /\ Len(q) = 4
    <2> HIDE DEF L
    <2>1. PICK n \in Nat : n = 4
      OBVIOUS
    <2>2. q \in [1 .. n -> L]
      BY <1>3, <2>1
    <2>3. q \in Seq(L) /\ Len(q) = n
      BY <2>2
    <2> QED BY <2>1, <2>3 DEF L
  <1>5. Batch(v) \in Seq(Commands)
    BY <1>2, <1>4, FlattenType
  <1>6. ASSUME NEW x \in Commands PROVE Occurrences(Batch(v), x) = Rounds(v.cnt[x])
    <2>1. PICK q1 \in Seq(Seq(Commands)) :
            /\ Len(q1) = 3 /\ \A i \in 1 .. 3 : q1[i] = q[i + 1]
            /\ Occurrences(FlattenSeq(q), x) = Occurrences(q[1], x) + Occurrences(FlattenSeq(q1), x)
      <3>1. 3 \in Nat /\ Len(q) = 3 + 1
        BY <1>4
      <3> QED BY <1>4, <3>1, FirstOfMany
    <2>2. PICK q2 \in Seq(Seq(Commands)) :
            /\ Len(q2) = 2 /\ \A i \in 1 .. 2 : q2[i] = q1[i + 1]
            /\ Occurrences(FlattenSeq(q1), x) = Occurrences(q1[1], x) + Occurrences(FlattenSeq(q2), x)
      <3>1. 2 \in Nat /\ Len(q1) = 2 + 1
        BY <2>1
      <3> QED BY <3>1, FirstOfMany
    <2>3. PICK q3 \in Seq(Seq(Commands)) :
            /\ Len(q3) = 1 /\ \A i \in 1 .. 1 : q3[i] = q2[i + 1]
            /\ Occurrences(FlattenSeq(q2), x) = Occurrences(q2[1], x) + Occurrences(FlattenSeq(q3), x)
      <3>1. 1 \in Nat /\ Len(q2) = 1 + 1
        BY <2>2
      <3> QED BY <3>1, FirstOfMany
    <2>4. PICK q4 \in Seq(Seq(Commands)) :
            /\ Len(q4) = 0
            /\ Occurrences(FlattenSeq(q3), x) = Occurrences(q3[1], x) + Occurrences(FlattenSeq(q4), x)
      <3>1. 0 \in Nat /\ Len(q3) = 0 + 1
        BY <2>3
      <3> QED BY <3>1, FirstOfMany
    <2>5. Occurrences(FlattenSeq(q4), x) = 0
      <3>1. FlattenSeq(q4) = q4 /\ q4 = <<>>
        BY <2>4, FlattenEmpty, EmptySeq
      <3>2. <<>> \in Seq(Commands)
        BY EmptySeq
      <3> QED BY <3>1, <3>2, OccurrencesType
    <2>6. q[1] = s(1) /\ q1[1] = s(2) /\ q2[1] = s(3) /\ q3[1] = s(4)
      BY <1>3, <2>1, <2>2, <2>3 DEF Commands
    <2>7. \A c \in Commands : Occurrences(s(c), x) = IF c = x THEN Rounds(v.cnt[c]) ELSE 0
      BY <1>1
    <2>8. \A c \in Commands : Rounds(v.cnt[c]) \in Nat
      BY DEF Rounds, Args
    <2>9. 1 \in Commands /\ 2 \in Commands /\ 3 \in Commands /\ 4 \in Commands
          /\ (x = 1 \/ x = 2 \/ x = 3 \/ x = 4)
      BY DEF Commands
    <2>10. PICK n1, n2, n3, n4 : /\ n1 = Occurrences(s(1), x) /\ n2 = Occurrences(s(2), x)
                                 /\ n3 = Occurrences(s(3), x) /\ n4 = Occurrences(s(4), x)
      OBVIOUS
    <2>11. Occurrences(FlattenSeq(q), x) = n1 + (n2 + (n3 + (n4 + 0)))
      BY <2>1, <2>2, <2>3, <2>4, <2>5, <2>6, <2>10
    <2>12. PICK r \in Nat : r = Rounds(v.cnt[x])
      BY <2>8
    <2>13. /\ n1 = (IF x = 1 THEN r ELSE 0) /\ n2 = (IF x = 2 THEN r ELSE 0)
           /\ n3 = (IF x = 3 THEN r ELSE 0) /\ n4 = (IF x = 4 THEN r ELSE 0)
      BY <2>7, <2>9, <2>10, <2>12
    <2>14. n1 + (n2 + (n3 + (n4 + 0))) = r
      BY <2>9, <2>12, <2>13
    <2> QED BY <1>2, <2>11, <2>12, <2>14
  <1> QED BY <1>5, <1>6

-----------------------------------------------------------------------------
(* The shape of the state.                                                  *)

Shape ==
  /\ pc \in [Programs -> Labels]
  /\ values \in [Programs -> Args]
  /\ code \in [Programs -> {None, 0, -1, Killed}]
  /\ fifo \in [Fifos -> Seq({Port})]
  /\ port \in {None, Port, OtherPort, Junk}
  /\ tries \in 0 .. MaxTries + 1
  /\ listening \in BOOLEAN /\ conn \in {"none", "pending", "up", "closed"}
  /\ stream \in [Programs -> Seq(DOMAIN Ops)]
  /\ left \in [Programs -> Seq(Commands)]
  /\ cnt \in [Programs -> [Commands -> Nat]] /\ seen_client_ \in BOOLEAN
  /\ printed \in [Programs -> {None} \cup [Commands -> Nat]]
  /\ hasty \in BOOLEAN

\* A program that is over, and no other, has a status; the client tries four
\* times at the most.
Ends ==
  /\ \A p \in Programs : pc[p] = "exit" <=> code[p] # None
  /\ pc[Client] \in {"parse", "open", "read", "start"} => tries <= MaxTries

\* The programs are two.
LEMMA Two ==
  /\ Client # Server /\ Client \in Programs /\ Server \in Programs
  /\ Peer(Client) = Server /\ Peer(Server) = Client
  /\ \A p \in Programs : (p = Client \/ p = Server) /\ Peer(p) \in Programs /\ Peer(p) # p
  BY SgpAssumption DEF Programs, Peer

\* Every step is one of these.
LEMMA Steps ==
  ASSUME [Next]_vars
  PROVE  \/ \E p \in Programs : \/ ParseArgs(p) \/ Send(p) \/ Dies(p) \/ Sent(p)
                                \/ PauseEnds(p) \/ Stop(p) \/ Recv(p)
         \/ ServerStarts \/ ServerCannotStart \/ WritePort \/ SeeClient
         \/ OpenFifo \/ ReadPort \/ ClientStarts \/ ClientCannotStart
         \/ Accept \/ UNCHANGED vars
  BY DEF Next, ProgramStep

\* Tags and commands correspond to each other (SgpProtocol's GetTag and GetMessage,
\* and the callbacks the programs register).
LEMMA Tags ==
  /\ \A c \in Commands : GetTag[c] \in DOMAIN Ops
  /\ \A c \in Commands : \A tag \in DOMAIN Ops : Delivers(tag, c) <=> tag = GetTag[c]
  /\ \A c, d \in Commands : GetTag[c] = GetTag[d] => c = d
  <1>1. DOMAIN Ops = {"cmd1", "cmd2", "cmd3", "cmd4"}
    BY DEF Ops
  <1>2. GetTag[1] = "cmd1" /\ GetTag[2] = "cmd2" /\ GetTag[3] = "cmd3" /\ GetTag[4] = "cmd4"
    BY DEF GetTag
  <1>3. /\ Ops["cmd1"] = 1 /\ Ops["cmd2"] = 2 /\ Ops["cmd3"] = 3 /\ Ops["cmd4"] = 4
        /\ GetMessage["cmd1"] = 1 /\ GetMessage["cmd2"] = 2
        /\ GetMessage["cmd3"] = 3 /\ GetMessage["cmd4"] = 4
    BY DEF Ops, GetMessage
  <1>4. \A c \in Commands : c = 1 \/ c = 2 \/ c = 3 \/ c = 4
    BY DEF Commands
  <1>5. \A c \in Commands : GetTag[c] \in DOMAIN Ops
    BY <1>1, <1>2, <1>4
  <1>6. \A c \in Commands : \A tag \in DOMAIN Ops : Delivers(tag, c) <=> tag = GetTag[c]
    BY <1>1, <1>2, <1>3, <1>4 DEF Delivers
  <1>7. \A c, d \in Commands : GetTag[c] = GetTag[d] => c = d
    BY <1>2, <1>4
  <1> QED BY <1>5, <1>6, <1>7

\* Every step keeps the shape.
LEMMA ShapeStep == Shape /\ Ends /\ [Next]_vars => Shape'
  <1> SUFFICES ASSUME Shape, Ends, [Next]_vars PROVE Shape'
    OBVIOUS
  <1> USE Two, SgpAssumption
  <1>1. ASSUME NEW p \in Programs, ParseArgs(p) PROVE Shape'
    <2>1. PICK line \in CommandLines :
            LET v == parse_args(line) IN
            /\ values' = [values EXCEPT ![p] = v]
            /\ IF v.code # None THEN Exit(p, v.code)
                                ELSE Goto(p, IF p = Server THEN "start" ELSE "open")
      BY <1>1 DEF ParseArgs
    <2>2. PICK v \in Args : v = parse_args(line)
      BY ParseType
    <2>3. values' \in [Programs -> Args]
      BY <2>1, <2>2 DEF Shape
    <2>4. v.code \in {None, -1, 0}
      BY DEF Args
    <2>5. pc' \in [Programs -> Labels] /\ code' \in [Programs -> {None, 0, -1, Killed}]
      BY <2>1, <2>2, <2>4 DEF Shape, Exit, Goto, Labels
    <2>6. UNCHANGED <<fifo, port, tries, listening, comm, left, printed, hasty>>
      BY <1>1 DEF ParseArgs
    <2> QED BY <2>3, <2>5, <2>6 DEF Shape, comm
  <1>2. ASSUME NEW p \in Programs, Send(p) PROVE Shape'
    <2>1. /\ left[p] \in Seq(Commands) /\ left[p] # <<>>
          /\ left' = [left EXCEPT ![p] = Tail(@)]
          /\ stream' = IF Reaches(p)
                       THEN [stream EXCEPT ![Peer(p)] = Append(@, GetTag[Head(left[p])])]
                       ELSE stream
          /\ UNCHANGED <<pc, code, setup, conn, cnt, seen_client_, printed, hasty>>
      BY <1>2 DEF Send, Shape
    <2>2. Tail(left[p]) \in Seq(Commands) /\ Head(left[p]) \in Commands
      BY <2>1, HeadTailProperties
    <2>3. GetTag[Head(left[p])] \in DOMAIN Ops
      BY <2>2, Tags
    <2>4. Append(stream[Peer(p)], GetTag[Head(left[p])]) \in Seq(DOMAIN Ops)
      BY <2>3, AppendProperties DEF Shape
    <2>5. stream' \in [Programs -> Seq(DOMAIN Ops)]
      BY <2>1, <2>4 DEF Shape
    <2>6. left' \in [Programs -> Seq(Commands)]
      BY <2>1, <2>2 DEF Shape
    <2> QED BY <2>1, <2>5, <2>6 DEF Shape, setup
  <1>3. ASSUME NEW p \in Programs, Recv(p) PROVE Shape'
    <2>1. PICK c \in Commands : cnt' = [cnt EXCEPT ![p][c] = @ + 1]
      BY <1>3 DEF Recv
    <2>2. /\ stream[p] \in Seq(DOMAIN Ops) /\ stream[p] # <<>>
          /\ seen_client_' = (seen_client_ \/ p = Server)
          /\ stream' = [stream EXCEPT ![p] = Tail(@)]
          /\ UNCHANGED <<pc, code, setup, conn, left, printed, hasty>>
      BY <1>3 DEF Recv, Receives, Shape
    <2>3. Tail(stream[p]) \in Seq(DOMAIN Ops)
      BY <2>2, HeadTailProperties
    <2>4. stream' \in [Programs -> Seq(DOMAIN Ops)]
      BY <2>2, <2>3 DEF Shape
    <2>5. cnt' \in [Programs -> [Commands -> Nat]]
      BY <2>1 DEF Shape
    <2> QED BY <2>2, <2>4, <2>5 DEF Shape, setup
  <1>4. ASSUME NEW p \in Programs, Dies(p) \/ Sent(p) PROVE Shape'
    <2>1. Exit(p, Killed) \/ Goto(p, "pause")
      BY <1>4 DEF Dies, Sent
    <2>2. pc' \in [Programs -> Labels] /\ code' \in [Programs -> {None, 0, -1, Killed}]
      BY <2>1 DEF Exit, Goto, Shape, Labels
    <2>3. UNCHANGED <<setup, comm, left, printed, hasty>>
      BY <1>4 DEF Dies, Sent
    <2> QED BY <2>2, <2>3 DEF Shape, setup, comm
  <1>5. ASSUME NEW p \in Programs, PauseEnds(p) PROVE Shape'
    BY <1>5 DEF PauseEnds, Goto, Shape, Labels, setup, comm
  <1>6. ASSUME NEW p \in Programs, Stop(p) PROVE Shape'
    <2>1. PICK rest \in {stream[Peer(p)]} \cup (IF stream[p] = <<>> THEN {} ELSE {<<>>}) :
            stream' = [stream EXCEPT ![p] = <<>>, ![Peer(p)] = rest]
      BY <1>6 DEF Stop
    <2>2. <<>> \in Seq(DOMAIN Ops) /\ stream[Peer(p)] \in Seq(DOMAIN Ops)
      BY EmptySeq DEF Shape
    <2>3. stream' \in [Programs -> Seq(DOMAIN Ops)]
      <3>1. rest \in Seq(DOMAIN Ops)
        BY <2>2
      <3> QED BY <2>1, <2>2, <3>1 DEF Shape
    <2>4. /\ Exit(p, 0) /\ listening' = (listening /\ p # Server)
          /\ conn' = IF p = Client /\ conn = "pending" THEN conn ELSE "closed"
          /\ UNCHANGED <<values, fifo, port, tries, cnt, seen_client_, left, printed, hasty>>
      BY <1>6 DEF Stop
    <2>5. /\ pc' \in [Programs -> Labels] /\ code' \in [Programs -> {None, 0, -1, Killed}]
          /\ conn' \in {"none", "pending", "up", "closed"} /\ listening' \in BOOLEAN
      BY <2>4 DEF Shape, Exit, Labels
    <2> QED BY <2>3, <2>4, <2>5 DEF Shape
  <1>7. CASE ServerStarts \/ ServerCannotStart \/ OpenFifo \/ Accept
    BY <1>7 DEF ServerStarts, ServerCannotStart, OpenFifo, Accept, Exit, Goto, Shape, Labels,
                setup, comm
  <1>8. CASE WritePort
    <2> DEFINE f == values[Server].fifo
    <2>1. ASSUME f \in Fifos, fifo' = [fifo EXCEPT ![f] = Append(@, Port)]
          PROVE  fifo' \in [Fifos -> Seq({Port})]
      <3>1. fifo[f] \in Seq({Port}) /\ Port \in {Port}
        BY <2>1 DEF Shape
      <3>2. Append(fifo[f], Port) \in Seq({Port})
        BY <3>1, AppendProperties
      <3> HIDE DEF f
      <3> QED BY <2>1, <3>2 DEF Shape
    <2>2. ASSUME UNCHANGED fifo PROVE fifo' \in [Fifos -> Seq({Port})]
      BY <2>2 DEF Shape
    <2>3. fifo' \in [Fifos -> Seq({Port})]
      BY <1>8, <2>1, <2>2 DEF WritePort
    <2> QED BY <1>8, <2>3 DEF WritePort, Goto, Shape, Labels, comm
  <1>9. CASE SeeClient
    <2>1. left' \in [Programs -> Seq(Commands)]
      BY <1>9, BatchShape DEF SeeClient, Shape
    <2> QED BY <1>9, <2>1 DEF SeeClient, Goto, Shape, Labels, setup, comm
  <1>10. CASE ReadPort
    <2> DEFINE f == values[Client].fifo
    <2>1. ASSUME f \in Fifos
          PROVE  fifo' \in [Fifos -> Seq({Port})] /\ port' \in {None, Port, OtherPort, Junk}
      <3>1. fifo[f] # <<>> /\ port' = Head(fifo[f]) /\ fifo' = [fifo EXCEPT ![f] = Tail(@)]
        BY <1>10, <2>1 DEF ReadPort
      <3>2. fifo[f] \in Seq({Port})
        BY <2>1 DEF Shape
      <3>3. Head(fifo[f]) \in {Port} /\ Tail(fifo[f]) \in Seq({Port})
        BY <3>1, <3>2, HeadTailProperties
      <3> HIDE DEF f
      <3> QED BY <2>1, <3>1, <3>3 DEF Shape
    <2>2. ASSUME f \notin Fifos
          PROVE  fifo' \in [Fifos -> Seq({Port})] /\ port' \in {None, Port, OtherPort, Junk}
      BY <1>10, <2>2 DEF ReadPort, Shape
    <2>3. fifo' \in [Fifos -> Seq({Port})] /\ port' \in {None, Port, OtherPort, Junk}
      BY <2>1, <2>2
    <2>4. pc' \in [Programs -> Labels] /\ code' \in [Programs -> {None, 0, -1, Killed}]
      BY <1>10 DEF ReadPort, Shape, Exit, Goto, Labels
    <2> QED BY <1>10, <2>3, <2>4 DEF ReadPort, Shape, comm
  <1>11. CASE ClientStarts
    <2>1. left' \in [Programs -> Seq(Commands)]
      BY <1>11, BatchShape DEF ClientStarts, Shape
    <2> QED BY <1>11, <2>1 DEF ClientStarts, Goto, Shape, Labels, setup
  <1>12. CASE ClientCannotStart
    <2>1. tries \in 0 .. MaxTries /\ tries' = tries + 1
      BY <1>12 DEF ClientCannotStart, Shape, Ends
    <2>2. tries' \in 0 .. MaxTries + 1
      BY <2>1 DEF MaxTries
    <2>3. pc' \in [Programs -> Labels] /\ code' \in [Programs -> {None, 0, -1, Killed}]
      BY <1>12 DEF ClientCannotStart, Shape, Exit, Goto, Labels
    <2> QED BY <1>12, <2>2, <2>3 DEF ClientCannotStart, Shape, comm
  <1>13. CASE UNCHANGED vars
    BY <1>13 DEF vars, setup, comm, Shape
  <1> QED BY <1>1, <1>2, <1>3, <1>4, <1>5, <1>6, <1>7, <1>8, <1>9, <1>10, <1>11, <1>12, <1>13,
             Steps

\* A program gets a status just when it is over, and the client gives up in time.
LEMMA EndsStep == Shape /\ Ends /\ [Next]_vars => Ends'
  <1> SUFFICES ASSUME Shape, Ends, [Next]_vars PROVE Ends'
    OBVIOUS
  <1> USE Two, SgpAssumption DEF Ends
  <1>1. ASSUME NEW p \in Programs, ParseArgs(p) PROVE Ends'
    <2>1. PICK line \in CommandLines :
            LET v == parse_args(line) IN
            IF v.code # None THEN Exit(p, v.code)
                             ELSE Goto(p, IF p = Server THEN "start" ELSE "open")
      BY <1>1 DEF ParseArgs
    <2>2. pc[p] = "parse" /\ UNCHANGED tries
      BY <1>1 DEF ParseArgs
    <2>3. PICK v : v = parse_args(line)
      OBVIOUS
    <2>4. CASE v.code # None
      BY <2>1, <2>2, <2>3, <2>4 DEF Exit, Shape
    <2>5. CASE v.code = None
      BY <2>1, <2>2, <2>3, <2>5 DEF Goto, Shape
    <2> QED BY <2>4, <2>5
  <1>2. ASSUME NEW p \in Programs, Send(p) \/ Recv(p) PROVE Ends'
    BY <1>2 DEF Send, Recv, setup
  <1>3. ASSUME NEW p \in Programs, Dies(p) \/ Sent(p) \/ PauseEnds(p) \/ Stop(p) PROVE Ends'
    <2>1. \/ Exit(p, Killed) \/ Exit(p, 0)
          \/ Goto(p, "pause") \/ Goto(p, "stop")
      BY <1>3 DEF Dies, Sent, PauseEnds, Stop
    <2>2. pc[p] \in {"send", "pause", "stop"} /\ UNCHANGED tries
      BY <1>3 DEF Dies, Sent, PauseEnds, Stop, setup
    <2>3. CASE Exit(p, Killed) \/ Exit(p, 0)
      BY <2>2, <2>3 DEF Exit, Shape
    <2>4. CASE Goto(p, "pause") \/ Goto(p, "stop")
      BY <2>2, <2>4 DEF Goto, Shape
    <2> QED BY <2>1, <2>3, <2>4
  <1>4. CASE ServerStarts \/ ServerCannotStart \/ WritePort \/ SeeClient
    <2>1. /\ Exit(Server, -1) \/ \E l \in {"open", "wait", "send"} : Goto(Server, l)
          /\ pc[Server] # "exit" /\ UNCHANGED tries
      BY <1>4 DEF ServerStarts, ServerCannotStart, WritePort, SeeClient, setup
    <2>2. CASE Exit(Server, -1)
      BY <2>1, <2>2 DEF Exit, Shape
    <2>3. CASE \E l \in {"open", "wait", "send"} : Goto(Server, l)
      BY <2>1, <2>3 DEF Goto, Shape
    <2> QED BY <2>1, <2>2, <2>3
  <1>5. CASE OpenFifo \/ ReadPort \/ ClientStarts
    <2>1. /\ Exit(Client, -1) \/ \E l \in {"read", "start", "send"} : Goto(Client, l)
          /\ pc[Client] \in {"open", "read", "start"} /\ UNCHANGED tries
      BY <1>5 DEF OpenFifo, ReadPort, ClientStarts, setup
    <2>2. CASE Exit(Client, -1)
      BY <2>1, <2>2 DEF Exit, Shape
    <2>3. CASE \E l \in {"read", "start", "send"} : Goto(Client, l)
      BY <2>1, <2>3 DEF Goto, Shape
    <2> QED BY <2>1, <2>2, <2>3
  <1>6. CASE ClientCannotStart
    <2>1. tries \in Int /\ tries' = tries + 1
      BY <1>6 DEF ClientCannotStart, Shape
    <2>2. pc[Client] = "start"
          /\ IF tries' > MaxTries THEN Exit(Client, -1) ELSE Goto(Client, "start")
      BY <1>6 DEF ClientCannotStart
    <2>3. CASE tries' > MaxTries
      <3>1. pc' = [pc EXCEPT ![Client] = "exit"] /\ code' = [code EXCEPT ![Client] = -1]
        BY <2>2, <2>3 DEF Exit
      <3> QED BY <3>1 DEF Shape
    <2>4. CASE ~(tries' > MaxTries)
      <3>1. pc' = [pc EXCEPT ![Client] = "start"] /\ UNCHANGED code
        BY <2>2, <2>4 DEF Goto
      <3>2. tries' <= MaxTries
        BY <2>1, <2>4 DEF MaxTries
      <3>3. \A p \in Programs : pc'[p] = "exit" <=> code'[p] # None
        BY <2>2, <3>1 DEF Shape
      <3> QED BY <3>2, <3>3
    <2> QED BY <2>3, <2>4
  <1>7. CASE Accept \/ UNCHANGED vars
    BY <1>7 DEF Accept, vars, setup
  <1> QED BY <1>1, <1>2, <1>3, <1>4, <1>5, <1>6, <1>7, Steps

\* Both hold at the start.
LEMMA ShapeInit == Init => Shape /\ Ends
  <1> SUFFICES ASSUME Init PROVE Shape /\ Ends
    OBVIOUS
  <1>1. <<>> \in Seq({Port}) /\ <<>> \in Seq(DOMAIN Ops) /\ <<>> \in Seq(Commands)
    BY EmptySeq
  <1>2. /\ pc \in [Programs -> Labels] /\ values \in [Programs -> Args]
        /\ code \in [Programs -> {None, 0, -1, Killed}]
        /\ tries \in 0 .. MaxTries + 1
    BY DefaultsType DEF Init, Labels, MaxTries
  <1>3. /\ fifo \in [Fifos -> Seq({Port})] /\ port \in {None, Port, OtherPort, Junk}
        /\ stream \in [Programs -> Seq(DOMAIN Ops)] /\ left \in [Programs -> Seq(Commands)]
    BY <1>1 DEF Init
  <1>4. [c \in Commands |-> 0] \in [Commands -> Nat]
    OBVIOUS
  <1>5. cnt \in [Programs -> [Commands -> Nat]]
    BY <1>4 DEF Init
  <1>6. /\ printed \in [Programs -> {None} \cup [Commands -> Nat]] /\ hasty \in BOOLEAN
        /\ listening \in BOOLEAN /\ conn \in {"none", "pending", "up", "closed"}
        /\ seen_client_ \in BOOLEAN
    BY DEF Init
  <1>7. Shape
    BY <1>2, <1>3, <1>5, <1>6 DEF Shape
  <1>8. Ends
    BY Two DEF Init, Ends, MaxTries
  <1> QED BY <1>7, <1>8

\* It includes the types.
LEMMA ShapeTypes == Shape /\ Ends => TypeOK
  <1> SUFFICES ASSUME Shape, Ends PROVE TypeOK
    OBVIOUS
  <1>1. \A p \in Programs : \A i \in DOMAIN stream[p] : stream[p][i] \in DOMAIN Ops
    BY DEF Shape
  <1>2. \A p \in Programs : \A i \in DOMAIN left[p] : left[p][i] \in Commands
    BY DEF Shape
  <1> QED BY <1>1, <1>2 DEF Shape, Ends, TypeOK

\* Every reachable state has it.
LEMMA ShapeAlways == Spec => [](Shape /\ Ends)
  BY ShapeInit, ShapeStep, EndsStep, PTL DEF Spec

\* Every state has its types: a program has a status when it is over and not
\* before, and the client gives up at its fourth try at the latest (client.cc,
\* the loop around Start).
THEOREM TypeCorrect == Spec => []TypeOK
  BY ShapeAlways, ShapeTypes, PTL
-----------------------------------------------------------------------------
(* The client first, and then the server.                                   *)

Early == pc[Client] \in {"parse", "open", "read", "start"}

\* Before the client connects nothing is sent; the server sends only when it has
\* received something, and only an accepted connection brings it anything.
Order ==
  /\ Early => conn = "none"
  /\ pc[Client] \in {"send", "pause", "stop"} => conn # "none"
  /\ pc[Server] \in {"send", "pause", "stop"} => seen_client_
  /\ seen_client_ => conn \in {"up", "closed"}
  /\ conn = "none" => \A p \in Programs : stream[p] = <<>> /\ cnt[p] = [c \in Commands |-> 0]

\* Every step keeps the order.
LEMMA OrderStep == Shape /\ Order /\ [Next]_vars => Order'
  <1> SUFFICES ASSUME Shape, Order, [Next]_vars PROVE Order'
    OBVIOUS
  <1> USE Two, SgpAssumption DEF Order, Early
  <1>1. ASSUME NEW p \in Programs, ParseArgs(p) PROVE Order'
    <2>1. PICK line \in CommandLines :
            LET v == parse_args(line) IN
            IF v.code # None THEN Exit(p, v.code)
                             ELSE Goto(p, IF p = Server THEN "start" ELSE "open")
      BY <1>1 DEF ParseArgs
    <2>2. pc[p] = "parse" /\ UNCHANGED comm
      BY <1>1 DEF ParseArgs
    <2>3. PICK v : v = parse_args(line)
      OBVIOUS
    <2>4. p = Client => pc'[Client] \in {"exit", "open"} /\ pc'[Server] = pc[Server]
      BY <2>1, <2>3 DEF Exit, Goto, Shape
    <2>5. p = Server => pc'[Server] \in {"exit", "start"} /\ pc'[Client] = pc[Client]
      BY <2>1, <2>3 DEF Exit, Goto, Shape
    <2>6. UNCHANGED <<conn, stream, cnt, seen_client_>>
      BY <2>2 DEF comm
    <2> QED BY <2>2, <2>4, <2>5, <2>6
  <1>2. ASSUME NEW p \in Programs, Send(p) PROVE Order'
    <2>1. conn = "none" => UNCHANGED stream
      BY <1>2 DEF Send, Reaches
    <2>2. UNCHANGED <<pc, conn, cnt, seen_client_>>
      BY <1>2 DEF Send
    <2> QED BY <2>1, <2>2
  <1>3. ASSUME NEW p \in Programs, Recv(p) PROVE Order'
    <2>1. conn # "none" /\ (p = Server => conn # "pending")
      BY <1>3 DEF Recv, Receives
    <2>2. UNCHANGED <<pc, conn>> /\ seen_client_' = (seen_client_ \/ p = Server)
      BY <1>3 DEF Recv
    <2>3. conn \in {"pending", "up", "closed"}
      BY <2>1 DEF Shape
    <2> QED BY <2>1, <2>2, <2>3
  <1>4. ASSUME NEW p \in Programs, Dies(p) \/ Sent(p) PROVE Order'
    BY <1>4 DEF Dies, Sent, comm, Exit, Goto, Shape
  <1>5. ASSUME NEW p \in Programs, PauseEnds(p) PROVE Order'
    BY <1>5 DEF PauseEnds, comm, Goto, Shape
  <1>6. ASSUME NEW p \in Programs, Stop(p) PROVE Order'
    <2>1. conn # "none"
      BY <1>6 DEF Stop
    <2>2. conn' # "none" /\ (seen_client_ => conn' = "closed")
      BY <1>6, <2>1 DEF Stop
    <2>3. pc[p] = "stop" /\ pc' = [pc EXCEPT ![p] = "exit"] /\ UNCHANGED seen_client_
      BY <1>6 DEF Stop, Exit
    <2> QED BY <2>2, <2>3 DEF Shape
  <1>7. CASE ServerStarts \/ ServerCannotStart \/ WritePort \/ SeeClient
    BY <1>7 DEF ServerStarts, ServerCannotStart, WritePort, SeeClient, comm, Exit, Goto, Shape
  <1>8. CASE OpenFifo \/ ReadPort \/ ClientCannotStart
    BY <1>8 DEF OpenFifo, ReadPort, ClientCannotStart, comm, Exit, Goto, Shape
  <1>9. CASE ClientStarts
    BY <1>9 DEF ClientStarts, Goto, Shape
  <1>10. CASE Accept
    BY <1>10 DEF Accept
  <1>11. CASE UNCHANGED vars
    BY <1>11 DEF vars, comm
  <1> QED BY <1>1, <1>2, <1>3, <1>4, <1>5, <1>6, <1>7, <1>8, <1>9, <1>10, <1>11, Steps

\* It holds at the start.
LEMMA OrderInit == Init => Order
  BY Two DEF Init, Order, Early

\* Every reachable state is in order.
LEMMA OrderAlways == Spec => [](Shape /\ Ends /\ Order)
  BY ShapeInit, ShapeStep, EndsStep, OrderInit, OrderStep, PTL DEF Spec

\* When the server starts to send it has accepted the client (server.cc, the loop
\* that waits for seen_client_).
THEOREM ServerHasAClient == Spec => []SendsToSomebody
  <1>1. Order => SendsToSomebody
    BY DEF Order, SendsToSomebody
  <1> QED BY <1>1, OrderAlways, PTL

-----------------------------------------------------------------------------
(* The port.                                                                *)

\* The client has been told the port, or is about to be.
Told == \/ \E f \in Fifos : fifo[f] # <<>>
        \/ pc[Client] = "start" /\ values[Client].fifo \in Fifos

\* The port is known only while the server listens on it, and until the client has
\* connected the server does not go away.
Rendezvous ==
  /\ pc[Server] \in {"open", "wait", "send", "pause", "stop"} => listening
  /\ Early /\ Told => listening
  /\ pc[Client] = "start" /\ values[Client].fifo \in Fifos => port = Port
  /\ pc[Client] \in {"parse", "open", "read"} => tries = 0
  /\ FirstTrySucceeds

\* Every step keeps the rendezvous.
LEMMA RendezvousStep == Shape /\ Order /\ Rendezvous /\ [Next]_vars => Rendezvous'
  <1> SUFFICES ASSUME Shape, Order, Rendezvous, [Next]_vars PROVE Rendezvous'
    OBVIOUS
  <1> USE Two, SgpAssumption DEF Rendezvous, Early, Told, FirstTrySucceeds
  <1>1. ASSUME NEW p \in Programs, ParseArgs(p) PROVE Rendezvous'
    <2>1. PICK line \in CommandLines :
            LET v == parse_args(line) IN
            /\ values' = [values EXCEPT ![p] = v]
            /\ IF v.code # None THEN Exit(p, v.code)
                                ELSE Goto(p, IF p = Server THEN "start" ELSE "open")
      BY <1>1 DEF ParseArgs
    <2>2. pc[p] = "parse" /\ UNCHANGED <<fifo, port, tries, listening>>
      BY <1>1 DEF ParseArgs
    <2>3. PICK v : v = parse_args(line)
      OBVIOUS
    <2>4. CASE p = Client
      <3>1. pc'[Client] \in {"exit", "open"} /\ pc'[Server] = pc[Server]
        BY <2>1, <2>3, <2>4 DEF Exit, Goto, Shape
      <3> QED BY <2>2, <2>4, <3>1
    <2>5. CASE p = Server
      <3>1. pc'[Server] \in {"exit", "start"} /\ pc'[Client] = pc[Client]
        BY <2>1, <2>3, <2>5 DEF Exit, Goto, Shape
      <3>2. values'[Client] = values[Client]
        BY <2>1, <2>3, <2>5 DEF Shape
      <3> QED BY <2>2, <3>1, <3>2
    <2> QED BY <2>4, <2>5
  <1>2. ASSUME NEW p \in Programs, Send(p) \/ Recv(p) PROVE Rendezvous'
    BY <1>2 DEF Send, Recv, setup
  <1>3. ASSUME NEW p \in Programs, Dies(p) \/ Sent(p) PROVE Rendezvous'
    BY <1>3 DEF Dies, Sent, setup, Exit, Goto, Shape
  <1>4. ASSUME NEW p \in Programs, PauseEnds(p) PROVE Rendezvous'
    BY <1>4 DEF PauseEnds, setup, Goto, Shape
  <1>5. ASSUME NEW p \in Programs, Stop(p) PROVE Rendezvous'
    <2>1. /\ pc[p] = "stop" /\ pc' = [pc EXCEPT ![p] = "exit"]
          /\ listening' = (listening /\ p # Server)
          /\ UNCHANGED <<values, fifo, port, tries>>
      BY <1>5 DEF Stop, Exit
    <2>2. CASE p = Client
      BY <2>1, <2>2 DEF Shape
    <2>3. CASE p = Server
      <3>1. ~Early
        BY <2>1, <2>3 DEF Order
      <3>2. pc'[Client] = pc[Client] /\ pc'[Server] = "exit"
        BY <2>1, <2>3 DEF Shape
      <3> QED BY <2>1, <3>1, <3>2
    <2> QED BY <2>2, <2>3
  <1>6. CASE ServerStarts \/ ServerCannotStart \/ SeeClient
    BY <1>6 DEF ServerStarts, ServerCannotStart, SeeClient, setup, Exit, Goto, Shape
  <1>7. CASE WritePort
    <2>1. listening /\ UNCHANGED <<values, port, tries, listening>>
      BY <1>7 DEF WritePort
    <2>2. pc'[Client] = pc[Client]
      BY <1>7 DEF WritePort, Goto, Shape
    <2> QED BY <2>1, <2>2
  <1>8. CASE OpenFifo
    BY <1>8 DEF OpenFifo, setup, Goto, Shape
  <1>9. CASE ReadPort
    <2> DEFINE f == values[Client].fifo
    <2>1. /\ pc[Client] = "read" /\ UNCHANGED <<values, tries, listening>>
          /\ pc'[Client] \in {"exit", "start"} /\ pc'[Server] = pc[Server]
      BY <1>9 DEF ReadPort, Exit, Goto, Shape
    <2>2. ASSUME f \in Fifos PROVE listening /\ port' = Port
      <3>1. fifo[f] # <<>> /\ port' = Head(fifo[f]) /\ fifo[f] \in Seq({Port})
        BY <1>9, <2>2 DEF ReadPort, Shape
      <3>2. Head(fifo[f]) \in {Port}
        BY <3>1, HeadTailProperties
      <3> QED BY <2>1, <2>2, <3>1, <3>2
    <2>3. ASSUME f \notin Fifos PROVE UNCHANGED fifo
      BY <1>9, <2>3 DEF ReadPort
    <2> QED BY <2>1, <2>2, <2>3
  <1>10. CASE ClientStarts
    BY <1>10 DEF ClientStarts, setup, Goto, Shape
  <1>11. CASE ClientCannotStart
    <2>1. values[Client].fifo \notin Fifos
      BY <1>11 DEF ClientCannotStart
    <2>2. /\ pc[Client] = "start" /\ UNCHANGED <<values, fifo, port, listening>>
          /\ pc'[Client] \in {"exit", "start"} /\ pc'[Server] = pc[Server]
      BY <1>11 DEF ClientCannotStart, Exit, Goto, Shape
    <2> QED BY <2>1, <2>2
  <1>12. CASE Accept \/ UNCHANGED vars
    BY <1>12 DEF Accept, vars, setup
  <1> QED BY <1>1, <1>2, <1>3, <1>4, <1>5, <1>6, <1>7, <1>8, <1>9, <1>10, <1>11, <1>12, Steps

\* It holds at the start.
LEMMA RendezvousInit == Init => Rendezvous
  BY Two DEF Init, Rendezvous, Early, Told, FirstTrySucceeds

\* A client that was told the port connects at the first try: the port travels
\* through the fifo only once the server listens (server.cc and client.cc, the use
\* of --fifo).
THEOREM ToldIsEnough == Spec => []FirstTrySucceeds
  <1>1. Rendezvous => FirstTrySucceeds
    BY DEF Rendezvous
  <1>2. Spec => []Rendezvous
    BY OrderAlways, RendezvousInit, RendezvousStep, PTL DEF Spec
  <1> QED BY <1>1, <1>2, PTL
-----------------------------------------------------------------------------
(* The results.                                                             *)

\* Before the client connects, the server listens just while it waits.
Waits ==
  /\ pc[Server] \in {"parse", "start"} => ~listening
  /\ conn = "none" /\ listening => pc[Server] \in {"open", "wait"}

\* The commands c that p's callbacks were given, that are on their way to p, and
\* that the other program has still to send.
Total(p, c) ==
  cnt[p][c] + Occurrences(stream[p], GetTag[c]) + Occurrences(left[Peer(p)], c)

\* None is missing.
Accounted(p) == \A c \in Commands : Total(p, c) = Rounds(values[Peer(p)].cnt[c])

\* No pause is over.
Fresh == \A p \in Programs : printed[p] = None

\* Until one is, the connection stands, and what the programs were asked to send is
\* accounted for; the server's part is when it has seen the client, and before that
\* it has sent nothing.
Calm ==
  Fresh /\ ~hasty /\ conn # "none" =>
    /\ conn \in {"pending", "up"}
    /\ pc[Client] \in {"send", "pause"} /\ Accounted(Server)
    /\ \/ /\ pc[Server] \in {"open", "wait"}
          /\ stream[Client] = <<>> /\ cnt[Client] = [c \in Commands |-> 0]
       \/ pc[Server] \in {"send", "pause"} /\ Accounted(Client)
    /\ \A p \in Programs : pc[p] = "pause" => left[p] = <<>>

\* If no pause was hasty, everything has arrived when one is over, and stays.
Settled ==
  ~Fresh /\ ~hasty =>
    \A p \in Programs :
      /\ Done(p)
      /\ \A c \in Commands : cnt[p][c] = Rounds(values[Peer(p)].cnt[c])
      /\ printed[p] \in {None, cnt[p]}

\* Every step keeps the server's place.
LEMMA WaitsStep == Shape /\ Order /\ Waits /\ [Next]_vars => Waits'
  <1> SUFFICES ASSUME Shape, Order, Waits, [Next]_vars PROVE Waits'
    OBVIOUS
  <1> USE Two, SgpAssumption DEF Waits
  <1>1. ASSUME NEW p \in Programs, ParseArgs(p) PROVE Waits'
    <2>1. PICK line \in CommandLines :
            LET v == parse_args(line) IN
            IF v.code # None THEN Exit(p, v.code)
                             ELSE Goto(p, IF p = Server THEN "start" ELSE "open")
      BY <1>1 DEF ParseArgs
    <2>2. pc[p] = "parse" /\ UNCHANGED <<listening, conn>>
      BY <1>1 DEF ParseArgs, comm
    <2>3. PICK v : v = parse_args(line)
      OBVIOUS
    <2>4. p = Client => pc'[Server] = pc[Server]
      BY <2>1, <2>3 DEF Exit, Goto, Shape
    <2> QED BY <2>2, <2>4
  <1>2. ASSUME NEW p \in Programs, Send(p) \/ Recv(p) PROVE Waits'
    BY <1>2 DEF Send, Recv, setup
  <1>3. ASSUME NEW p \in Programs, Dies(p) \/ Sent(p) \/ PauseEnds(p) PROVE Waits'
    <2>1. pc[p] \in {"send", "pause"} /\ UNCHANGED <<listening, conn>>
      BY <1>3 DEF Dies, Sent, PauseEnds, setup, comm
    <2>2. conn # "none"
      BY <2>1 DEF Order
    <2>3. pc'[Server] \in {"parse", "start"} => pc'[Server] = pc[Server]
      BY <1>3 DEF Dies, Sent, PauseEnds, Exit, Goto, Shape
    <2> QED BY <2>1, <2>2, <2>3
  <1>4. ASSUME NEW p \in Programs, Stop(p) PROVE Waits'
    <2>1. conn # "none"
      BY <1>4 DEF Order, Stop
    <2>2. conn' # "none" /\ (listening' => listening)
      BY <1>4, <2>1 DEF Stop
    <2>3. pc'[Server] \in {"parse", "start"} => pc'[Server] = pc[Server]
      BY <1>4 DEF Stop, Exit, Shape
    <2> QED BY <2>2, <2>3
  <1>5. CASE ServerStarts \/ ServerCannotStart \/ WritePort
    BY <1>5 DEF ServerStarts, ServerCannotStart, WritePort, setup, comm, Exit, Goto, Shape
  <1>6. CASE SeeClient
    BY <1>6 DEF SeeClient, setup, comm, Goto, Shape, Order
  <1>7. CASE OpenFifo \/ ReadPort \/ ClientCannotStart
    BY <1>7 DEF OpenFifo, ReadPort, ClientCannotStart, setup, comm, Exit, Goto, Shape
  <1>8. CASE ClientStarts
    BY <1>8 DEF ClientStarts, setup, Goto, Shape
  <1>9. CASE Accept \/ UNCHANGED vars
    BY <1>9 DEF Accept, vars, setup, comm
  <1> QED BY <1>1, <1>2, <1>3, <1>4, <1>5, <1>6, <1>7, <1>8, <1>9, Steps

\* The numbers are numbers.
LEMMA Numbers ==
  ASSUME Shape, NEW p \in Programs, NEW c \in Commands
  PROVE  /\ cnt[p][c] \in Nat /\ Occurrences(stream[p], GetTag[c]) \in Nat
         /\ Occurrences(left[p], c) \in Nat
  <1>1. stream[p] \in Seq(DOMAIN Ops) /\ left[p] \in Seq(Commands) /\ cnt[p] \in [Commands -> Nat]
    BY DEF Shape
  <1> QED BY <1>1, OccurrencesType

\* What a program sends is under way, if the connection stands, or lost.
LEMMA SendTotal ==
  ASSUME Shape, NEW p \in Programs, Send(p), NEW c \in Commands
  PROVE  /\ Total(Peer(p), c)' \in Nat /\ Total(Peer(p), c)' <= Total(Peer(p), c)
         /\ Reaches(p) => Total(Peer(p), c)' = Total(Peer(p), c)
  <1> DEFINE q == Peer(p)
  <1>1. q \in Programs /\ q # p /\ Peer(q) = p
    BY Two
  <1>2. /\ left[p] \in Seq(Commands) /\ left[p] # <<>>
        /\ left'[p] = Tail(left[p])
        /\ stream'[q] = IF Reaches(p) THEN Append(stream[q], GetTag[Head(left[p])])
                                      ELSE stream[q]
        /\ UNCHANGED cnt
    BY <1>1 DEF Send, Shape
  <1>3. PICK h \in Commands : h = Head(left[p])
    BY <1>2, HeadTailProperties
  <1>4. PICK d \in {0, 1} : d = IF h = c THEN 1 ELSE 0
    OBVIOUS
  <1>5. stream[q] \in Seq(DOMAIN Ops) /\ GetTag[h] \in DOMAIN Ops
    BY <1>1, Tags DEF Shape
  <1>6. Occurrences(stream'[q], GetTag[c])
          = Occurrences(stream[q], GetTag[c]) + IF Reaches(p) THEN d ELSE 0
    <2>1. Occurrences(stream[q], GetTag[c]) \in Nat
      BY <1>1, Numbers
    <2>2. CASE Reaches(p)
      BY <1>2, <1>3, <1>4, <1>5, <2>2, Tags, OccurrencesAppend
    <2>3. CASE ~Reaches(p)
      BY <1>2, <2>1, <2>3
    <2> QED BY <2>2, <2>3
  <1>7. Occurrences(left[p], c) = Occurrences(left'[p], c) + d
    BY <1>2, <1>3, <1>4, OccurrencesTail
  <1>8. left'[p] \in Seq(Commands)
    BY <1>2, HeadTailProperties
  <1>9. PICK k, l, n \in Nat : /\ k = cnt[q][c] /\ l = Occurrences(stream[q], GetTag[c])
                               /\ n = Occurrences(left'[p], c)
    BY <1>1, <1>8, Numbers, OccurrencesType
  <1>10. Total(q, c) = k + l + (n + d)
    BY <1>1, <1>7, <1>9 DEF Total
  <1>11. Total(q, c)' = k + (l + IF Reaches(p) THEN d ELSE 0) + n
    BY <1>1, <1>2, <1>6, <1>9 DEF Total
  <1> HIDE DEF q
  <1>12. /\ Total(q, c)' \in Nat /\ Total(q, c)' <= Total(q, c)
         /\ Reaches(p) => Total(q, c)' = Total(q, c)
    BY <1>10, <1>11
  <1> QED BY <1>12 DEF q

\* What a program receives goes to the callback it is for.
LEMMA RecvTotal ==
  ASSUME Shape, NEW p \in Programs, Recv(p), NEW c \in Commands
  PROVE  Total(p, c)' = Total(p, c)
  <1> DEFINE q == Peer(p)
  <1>1. /\ stream[p] \in Seq(DOMAIN Ops) /\ stream[p] # <<>>
        /\ stream'[p] = Tail(stream[p])
        /\ UNCHANGED left
    BY DEF Recv, Receives, Shape
  <1>2. PICK e \in Commands : /\ Delivers(Head(stream[p]), e)
                              /\ cnt' = [cnt EXCEPT ![p][e] = @ + 1]
    BY DEF Recv
  <1>3. Head(stream[p]) = GetTag[e]
    BY <1>1, <1>2, HeadTailProperties, Tags
  <1>4. PICK d \in {0, 1} : d = IF e = c THEN 1 ELSE 0
    OBVIOUS
  <1>5. Occurrences(stream[p], GetTag[c]) = Occurrences(stream'[p], GetTag[c]) + d
    BY <1>1, <1>3, <1>4, Tags, OccurrencesTail
  <1>6. cnt'[p][c] = cnt[p][c] + d
    BY <1>2, <1>4 DEF Shape
  <1>7. stream'[p] \in Seq(DOMAIN Ops) /\ q \in Programs
    BY <1>1, HeadTailProperties, Two
  <1>8. PICK k, l, n \in Nat : /\ k = cnt[p][c] /\ l = Occurrences(stream'[p], GetTag[c])
                               /\ n = Occurrences(left[q], c)
    BY <1>7, Numbers, OccurrencesType
  <1>9. Total(p, c) = k + (l + d) + n
    BY <1>5, <1>8 DEF Total
  <1>10. Total(p, c)' = (k + d) + l + n
    BY <1>1, <1>6, <1>8 DEF Total
  <1> QED BY <1>9, <1>10

\* So nothing gets lost on a standing connection.
LEMMA SendAccounts ==
  ASSUME Shape, NEW p \in Programs, Send(p), Reaches(p), Accounted(Peer(p))
  PROVE  Accounted(Peer(p))'
  <1>1. UNCHANGED values
    BY DEF Send, setup
  <1> QED BY <1>1, SendTotal DEF Accounted

LEMMA RecvAccounts ==
  ASSUME Shape, NEW p \in Programs, Recv(p), Accounted(p)
  PROVE  Accounted(p)'
  <1>1. UNCHANGED values
    BY DEF Recv, setup
  <1> QED BY <1>1, RecvTotal DEF Accounted

\* A program that starts to send has everything still to be sent.
LEMMA StartAccounts ==
  ASSUME Shape, NEW p \in Programs, stream'[p] = <<>>, cnt'[p] = [c \in Commands |-> 0],
         left' = [left EXCEPT ![Peer(p)] = Batch(values[Peer(p)])], UNCHANGED values
  PROVE  Accounted(p)'
  <1> DEFINE q == Peer(p)
  <1>1. q \in Programs /\ values[q] \in Args
    BY Two DEF Shape
  <1>2. left'[q] = Batch(values[q])
    BY <1>1 DEF Shape
  <1> SUFFICES ASSUME NEW c \in Commands
               PROVE  cnt'[p][c] + Occurrences(stream'[p], GetTag[c]) + Occurrences(left'[q], c)
                        = Rounds(values'[q].cnt[c])
    BY DEF Accounted, Total
  <1>3. cnt'[p][c] = 0
    OBVIOUS
  <1>4. Occurrences(stream'[p], GetTag[c]) = 0
    <2>1. <<>> \in Seq(DOMAIN Ops)
      BY EmptySeq
    <2> QED BY <2>1, OccurrencesType
  <1>5. /\ Occurrences(left'[q], c) = Rounds(values[q].cnt[c])
        /\ Occurrences(left'[q], c) \in Nat
    BY <1>1, <1>2, BatchShape, OccurrencesType
  <1> HIDE DEF q
  <1> QED BY <1>3, <1>4, <1>5

\* When nothing is under way and nothing left, everything has arrived.
LEMMA AllArrived ==
  ASSUME Shape, NEW p \in Programs, Accounted(p), stream[p] = <<>>, left[Peer(p)] = <<>>
  PROVE  \A c \in Commands : cnt[p][c] = Rounds(values[Peer(p)].cnt[c])
  <1> DEFINE q == Peer(p)
  <1>1. ASSUME NEW c \in Commands PROVE cnt[p][c] = Rounds(values[q].cnt[c])
    <2>1. q \in Programs /\ stream[p] \in Seq(DOMAIN Ops) /\ left[q] \in Seq(Commands)
      BY Two DEF Shape
    <2>2. Occurrences(stream[p], GetTag[c]) = 0 /\ Occurrences(left[q], c) = 0
      BY <2>1, OccurrencesType
    <2>3. cnt[p][c] \in Nat
      BY Numbers
    <2>4. cnt[p][c] + Occurrences(stream[p], GetTag[c]) + Occurrences(left[q], c)
            = Rounds(values[q].cnt[c])
      BY DEF Accounted, Total
    <2> QED BY <2>2, <2>3, <2>4
  <1> QED BY <1>1

\* Nothing that Accounted(p) is about has changed.
LEMMA SameAccounts ==
  ASSUME NEW p \in Programs, Accounted(p), cnt'[p] = cnt[p], stream'[p] = stream[p],
         left'[Peer(p)] = left[Peer(p)], UNCHANGED values
  PROVE  Accounted(p)'
  BY DEF Accounted, Total

\* A hasty pause stays one, and what is printed stays printed.
LEMMA HistoryStep == Shape /\ [Next]_vars => (hasty => hasty') /\ (Fresh' => Fresh)
  <1> SUFFICES ASSUME Shape, [Next]_vars PROVE (hasty => hasty') /\ (Fresh' => Fresh)
    OBVIOUS
  <1>1. ASSUME NEW p \in Programs, PauseEnds(p) PROVE (hasty => hasty') /\ (Fresh' => Fresh)
    <2>1. /\ printed' = [printed EXCEPT ![p] = cnt[p]]
          /\ hasty' = (hasty \/ \E q \in Programs : ~Done(q))
      BY <1>1 DEF PauseEnds
    <2>2. printed'[p] # None
      BY <2>1, SgpAssumption DEF Shape
    <2> QED BY <2>1, <2>2 DEF Fresh
  <1>2. ASSUME \A p \in Programs : ~PauseEnds(p) PROVE UNCHANGED <<printed, hasty>>
    BY <1>2, Steps DEF ParseArgs, Send, Dies, Sent, Stop, Recv, ServerStarts, ServerCannotStart,
       WritePort, SeeClient, OpenFifo, ReadPort, ClientStarts, ClientCannotStart, Accept, vars
  <1> QED BY <1>1, <1>2 DEF Fresh

\* Every step keeps the calm.
LEMMA CalmStep == Shape /\ Ends /\ Order /\ Waits /\ Calm /\ Settled /\ [Next]_vars => Calm'
  <1> SUFFICES ASSUME Shape, Ends, Order, Waits, Calm, Settled, [Next]_vars,
                      Fresh', ~hasty', conn' # "none"
               PROVE  Calm'
    BY DEF Calm
  <1> USE Two
  <1>1. CASE conn # "none" /\ Fresh /\ ~hasty
    <2>1. /\ conn \in {"pending", "up"} /\ pc[Client] \in {"send", "pause"} /\ Accounted(Server)
          /\ \/ /\ pc[Server] \in {"open", "wait"}
                /\ stream[Client] = <<>> /\ cnt[Client] = [c \in Commands |-> 0]
             \/ pc[Server] \in {"send", "pause"} /\ Accounted(Client)
          /\ \A p \in Programs : pc[p] = "pause" => left[p] = <<>>
      BY <1>1 DEF Calm
    <2>2. ASSUME NEW p \in Programs, Send(p) PROVE Calm'
      <3>1. Reaches(p)
        <4>1. p = Server => seen_client_
          BY <2>2 DEF Send, Order
        <4> QED BY <2>1, <4>1 DEF Order, Reaches
      <3>2. /\ pc[p] = "send" /\ UNCHANGED <<pc, conn, cnt, values>>
            /\ stream'[p] = stream[p] /\ left'[Peer(p)] = left[Peer(p)]
        BY <2>2 DEF Send, Shape, setup
      <3>3. CASE p = Client
        <4>1. Accounted(Server)'
          BY <2>1, <2>2, <3>1, <3>3, SendAccounts
        <4>2. Accounted(Client) => Accounted(Client)'
          BY <3>2, <3>3, SameAccounts
        <4> QED BY <2>1, <3>2, <3>3, <4>1, <4>2 DEF Calm
      <3>4. CASE p = Server
        <4>1. Accounted(Client)'
          BY <2>1, <2>2, <3>1, <3>2, <3>4, SendAccounts
        <4>2. Accounted(Server)'
          BY <2>1, <3>2, <3>4, SameAccounts
        <4> QED BY <2>1, <3>2, <3>4, <4>1, <4>2 DEF Calm
      <3> QED BY <3>3, <3>4
    <2>3. ASSUME NEW p \in Programs, Recv(p) PROVE Calm'
      <3>1. /\ UNCHANGED <<pc, conn, left, values>> /\ stream[p] # <<>>
            /\ \A q \in Programs \ {p} : stream'[q] = stream[q] /\ cnt'[q] = cnt[q]
        BY <2>3 DEF Recv, Receives, Shape, setup
      <3>2. Accounted(Server)'
        BY <2>1, <2>3, <3>1, RecvAccounts, SameAccounts
      <3>3. Accounted(Client) => Accounted(Client)'
        BY <2>3, <3>1, RecvAccounts, SameAccounts
      <3> QED BY <2>1, <3>1, <3>2, <3>3 DEF Calm
    <2>4. ASSUME NEW p \in Programs, Sent(p) PROVE Calm'
      <3>1. /\ pc[p] = "send" /\ left[p] = <<>> /\ pc' = [pc EXCEPT ![p] = "pause"]
            /\ UNCHANGED <<conn, stream, cnt, left, values>>
        BY <2>4 DEF Sent, Goto, setup, comm
      <3>2. pc'[p] = "pause" /\ \A q \in Programs \ {p} : pc'[q] = pc[q]
        BY <3>1 DEF Shape
      <3>3. Accounted(Server)' /\ (Accounted(Client) => Accounted(Client)')
        BY <2>1, <3>1, SameAccounts
      <3> QED BY <2>1, <3>1, <3>2, <3>3 DEF Calm
    <2>5. CASE WritePort
      <3>1. /\ pc[Server] = "open" /\ pc' = [pc EXCEPT ![Server] = "wait"]
            /\ UNCHANGED <<conn, stream, cnt, left, values>>
        BY <2>5 DEF WritePort, Goto, comm
      <3>2. pc'[Server] = "wait" /\ pc'[Client] = pc[Client]
        BY <3>1 DEF Shape
      <3>3. Accounted(Server)'
        BY <2>1, <3>1, SameAccounts
      <3> QED BY <2>1, <3>1, <3>2, <3>3 DEF Calm
    <2>6. CASE SeeClient
      <3>1. /\ pc[Server] = "wait" /\ pc' = [pc EXCEPT ![Server] = "send"]
            /\ left' = [left EXCEPT ![Server] = Batch(values[Server])]
            /\ UNCHANGED <<conn, stream, cnt, values>>
        BY <2>6 DEF SeeClient, Goto, setup, comm
      <3>2. pc'[Server] = "send" /\ pc'[Client] = pc[Client] /\ left'[Client] = left[Client]
        BY <3>1 DEF Shape
      <3>3. Accounted(Server)'
        BY <2>1, <3>1, <3>2, SameAccounts
      <3>4. Accounted(Client)'
        BY <2>1, <3>1, StartAccounts
      <3> QED BY <2>1, <3>1, <3>2, <3>3, <3>4 DEF Calm
    <2>7. CASE Accept
      <3>1. conn' = "up" /\ UNCHANGED <<pc, stream, cnt, left, values>>
        BY <2>7 DEF Accept, setup
      <3>2. Accounted(Server)' /\ (Accounted(Client) => Accounted(Client)')
        BY <2>1, <3>1, SameAccounts
      <3> QED BY <2>1, <3>1, <3>2 DEF Calm
    <2>8. CASE UNCHANGED vars
      <3>1. UNCHANGED <<pc, conn, stream, cnt, left, values>>
        BY <2>8 DEF vars, setup, comm
      <3>2. Accounted(Server)' /\ (Accounted(Client) => Accounted(Client)')
        BY <2>1, <3>1, SameAccounts
      <3> QED BY <2>1, <3>1, <3>2 DEF Calm
    <2>9. ASSUME NEW p \in Programs PROVE ~ParseArgs(p) /\ ~Stop(p) /\ ~Dies(p)
      <3>1. pc[p] \notin {"parse", "stop"} /\ pc[Peer(p)] # "exit" /\ conn # "closed"
        BY <2>1
      <3> QED BY <3>1 DEF ParseArgs, Stop, Dies
    <2>10. ASSUME NEW p \in Programs PROVE ~PauseEnds(p)
      <3>1. ASSUME PauseEnds(p) PROVE FALSE
        <4>1. printed'[p] = cnt[p] /\ cnt[p] \in [Commands -> Nat]
          BY <3>1 DEF PauseEnds, Shape
        <4> QED BY <4>1, SgpAssumption DEF Fresh
      <3> QED BY <3>1
    <2>11. ~ServerStarts /\ ~ServerCannotStart
      BY <2>1 DEF ServerStarts, ServerCannotStart
    <2>12. ~OpenFifo /\ ~ReadPort /\ ~ClientStarts /\ ~ClientCannotStart
      BY <2>1 DEF OpenFifo, ReadPort, ClientStarts, ClientCannotStart
    <2> QED BY <2>2, <2>3, <2>4, <2>5, <2>6, <2>7, <2>8, <2>9, <2>10, <2>11, <2>12, Steps
  <1>2. ~hasty /\ Fresh
    BY HistoryStep
  <1>3. CASE conn = "none"
    <2>1. ClientStarts
      <3>1. ASSUME NEW p \in Programs PROVE ~Stop(p)
        BY <1>3 DEF Stop, Order
      <3>2. ASSUME ~ClientStarts PROVE conn' = "none"
        BY <1>3, <3>1, <3>2, Steps DEF ParseArgs, Send, Dies, Sent, PauseEnds, Recv, ServerStarts,
           ServerCannotStart, WritePort, SeeClient, OpenFifo, ReadPort, ClientCannotStart, Accept,
           vars, comm
      <3> QED BY <3>2
    <2>2. /\ listening /\ conn' = "pending" /\ pc' = [pc EXCEPT ![Client] = "send"]
          /\ left' = [left EXCEPT ![Client] = Batch(values[Client])]
          /\ UNCHANGED <<stream, cnt, values>>
      BY <2>1 DEF ClientStarts, Goto, setup
    <2>3. pc'[Client] = "send" /\ pc'[Server] \in {"open", "wait"}
      BY <1>3, <2>2 DEF Waits, Shape
    <2>4. \A p \in Programs : stream[p] = <<>> /\ cnt[p] = [c \in Commands |-> 0]
      BY <1>3 DEF Order
    <2>5. Accounted(Server)'
      BY <2>2, <2>4, StartAccounts
    <2> QED BY <2>2, <2>3, <2>4, <2>5 DEF Calm
  <1> QED BY <1>1, <1>2, <1>3

\* And what is settled stays so.
LEMMA SettledStep == Shape /\ Order /\ Calm /\ Settled /\ [Next]_vars => Settled'
  <1> SUFFICES ASSUME Shape, Order, Calm, Settled, [Next]_vars, ~Fresh', ~hasty' PROVE Settled'
    BY DEF Settled
  <1> USE Two
  <1> DEFINE Right(p) == /\ Done(p)
                         /\ \A c \in Commands : cnt[p][c] = Rounds(values[Peer(p)].cnt[c])
                         /\ printed[p] \in {None, cnt[p]}
  <1>1. ~hasty
    BY HistoryStep
  <1>2. ASSUME NEW p \in Programs, PauseEnds(p), \A q \in Programs : Right(q)
        PROVE  Settled'
    <2>1. /\ pc' = [pc EXCEPT ![p] = "stop"] /\ printed' = [printed EXCEPT ![p] = cnt[p]]
          /\ UNCHANGED <<stream, cnt, values>>
      BY <1>2 DEF PauseEnds, Goto, setup, comm
    <2>2. ASSUME NEW q \in Programs PROVE Done(q)' /\ printed'[q] \in {None, cnt'[q]}
      BY <1>2, <2>1 DEF Done, Shape
    <2>3. ASSUME NEW q \in Programs
          PROVE  \A c \in Commands : cnt'[q][c] = Rounds(values'[Peer(q)].cnt[c])
      BY <1>2, <2>1
    <2> HIDE DEF Right
    <2> QED BY <2>2, <2>3 DEF Settled
  <1>3. CASE Fresh
    <2>1. PICK p \in Programs : PauseEnds(p)
      <3>1. ASSUME \A p \in Programs : ~PauseEnds(p) PROVE UNCHANGED printed
        BY <3>1, Steps DEF ParseArgs, Send, Dies, Sent, Stop, Recv, ServerStarts,
           ServerCannotStart, WritePort, SeeClient, OpenFifo, ReadPort, ClientStarts,
           ClientCannotStart, Accept, vars
      <3> QED BY <1>3, <3>1 DEF Fresh
    <2>2. pc[p] = "pause" /\ \A q \in Programs : Done(q)
      BY <2>1 DEF PauseEnds
    <2>3. conn # "none"
      BY <2>2 DEF Order
    <2>4. \A q \in Programs : pc[q] \in {"pause", "stop", "exit"} /\ stream[q] = <<>>
      BY <2>2 DEF Done
    <2>5. /\ pc[Client] \in {"send", "pause"} /\ Accounted(Server)
          /\ pc[Server] \in {"open", "wait"} \/ (pc[Server] \in {"send", "pause"} /\ Accounted(Client))
          /\ \A q \in Programs : pc[q] = "pause" => left[q] = <<>>
      BY <1>1, <1>3, <2>3 DEF Calm
    <2>6. Accounted(Client) /\ Accounted(Server) /\ left[Client] = <<>> /\ left[Server] = <<>>
      BY <2>4, <2>5
    <2>7. ASSUME NEW q \in Programs PROVE Right(q)
      <3>1. \A c \in Commands : cnt[q][c] = Rounds(values[Peer(q)].cnt[c])
        BY <2>4, <2>6, AllArrived
      <3> QED BY <1>3, <2>2, <3>1 DEF Fresh
    <2> HIDE DEF Right
    <2> QED BY <1>2, <2>1, <2>7
  <1>4. CASE ~Fresh
    <2>1. ASSUME NEW q \in Programs
          PROVE  /\ pc[q] \in {"pause", "stop", "exit"} /\ stream[q] = <<>>
                 /\ \A c \in Commands : cnt[q][c] = Rounds(values[Peer(q)].cnt[c])
                 /\ printed[q] \in {None, cnt[q]}
      BY <1>1, <1>4 DEF Settled, Done
    <2>2. ASSUME NEW p \in Programs, PauseEnds(p) PROVE Settled'
      <3>1. \A q \in Programs : Right(q)
        BY <2>1 DEF Done
      <3> HIDE DEF Right
      <3> QED BY <1>2, <2>2, <3>1
    <2>3. ASSUME NEW p \in Programs, Stop(p) PROVE Settled'
      <3>1. /\ pc' = [pc EXCEPT ![p] = "exit"]
            /\ UNCHANGED <<cnt, values, printed>>
        BY <2>3 DEF Stop, Exit
      <3>2. stream' = [stream EXCEPT ![p] = <<>>, ![Peer(p)] = <<>>]
        BY <2>1, <2>3 DEF Stop
      <3>3. \A q \in Programs : stream'[q] = <<>> /\ pc'[q] \in {"pause", "stop", "exit"}
        BY <2>1, <3>1, <3>2 DEF Shape
      <3> QED BY <2>1, <3>1, <3>3 DEF Settled, Done
    <2>4. CASE Accept \/ UNCHANGED vars
      <3>1. UNCHANGED <<pc, stream, cnt, values, printed>>
        BY <2>4 DEF Accept, vars, setup, comm
      <3> QED BY <2>1, <3>1 DEF Settled, Done
    <2>5. ASSUME NEW p \in Programs
          PROVE  ~ParseArgs(p) /\ ~Send(p) /\ ~Dies(p) /\ ~Sent(p) /\ ~Recv(p)
      BY <2>1 DEF ParseArgs, Send, Dies, Sent, Recv, Receives
    <2>6. ~ServerStarts /\ ~ServerCannotStart /\ ~WritePort /\ ~SeeClient
      BY <2>1 DEF ServerStarts, ServerCannotStart, WritePort, SeeClient
    <2>7. ~OpenFifo /\ ~ReadPort /\ ~ClientStarts /\ ~ClientCannotStart
      BY <2>1 DEF OpenFifo, ReadPort, ClientStarts, ClientCannotStart
    <2> QED BY <2>2, <2>3, <2>4, <2>5, <2>6, <2>7, Steps
  <1> QED BY <1>3, <1>4

\* They hold at the start.
LEMMA ResultsInit == Init => Waits /\ Calm /\ Settled
  BY Two DEF Init, Waits, Calm, Settled, Fresh

\* As long as the pauses outlast the traffic, each program prints just what the
\* other was asked to send (server.cc and client.cc, the counters the callbacks
\* keep and the results that main prints).
THEOREM ResultsAreExact == Spec => []ResultsExact
  <1>1. Settled => ResultsExact
    <2> SUFFICES ASSUME Settled, NEW p \in Programs, printed[p] # None, ~hasty, NEW c \in Commands
                 PROVE  printed[p][c] = Rounds(values[Peer(p)].cnt[c])
      BY DEF ResultsExact, Rounds
    <2> QED BY DEF Settled, Fresh
  <1>2. Spec => []Settled
    BY OrderAlways, ResultsInit, WaitsStep, CalmStep, SettledStep, PTL DEF Spec
  <1> QED BY <1>1, <1>2, PTL

-----------------------------------------------------------------------------
(* However the two end, nothing is counted twice.                           *)

\* Until a program starts to send, nothing of its commands is about.
Unsent(q) ==
  pc[q] \in {"parse", "start", "open", "wait", "read"} =>
    left[q] = <<>> /\ stream[Peer(q)] = <<>> /\ cnt[Peer(q)] = [c \in Commands |-> 0]

\* And after that its commands become fewer, if anything.
Bounded(q) == \A c \in Commands : Total(Peer(q), c) <= Rounds(values[q].cnt[c])

Limits == \A q \in Programs : Unsent(q) /\ Bounded(q)

\* Where nothing is about there is nothing to count.
LEMMA NothingTotal ==
  ASSUME NEW q \in Programs, NEW c \in Commands,
         left[q] = <<>>, stream[Peer(q)] = <<>>, cnt[Peer(q)] = [d \in Commands |-> 0]
  PROVE  Total(Peer(q), c) = 0
  <1>1. Peer(q) \in Programs /\ Peer(Peer(q)) = q
    BY Two
  <1>2. <<>> \in Seq(DOMAIN Ops) /\ <<>> \in Seq(Commands)
    BY EmptySeq
  <1>3. Occurrences(<<>>, GetTag[c]) = 0 /\ Occurrences(<<>>, c) = 0
    BY <1>2, OccurrencesType
  <1>4. cnt[Peer(q)][c] = 0
    OBVIOUS
  <1> QED BY <1>1, <1>3, <1>4 DEF Total

\* Nothing of q's commands has changed.
LEMMA SameLimits ==
  ASSUME NEW q \in Programs, Unsent(q), Bounded(q), left'[q] = left[q],
         stream'[Peer(q)] = stream[Peer(q)], cnt'[Peer(q)] = cnt[Peer(q)],
         values'[q] = values[q],
         pc'[q] \in {"parse", "start", "open", "wait", "read"}
           => pc[q] \in {"parse", "start", "open", "wait", "read"}
  PROVE  Unsent(q)' /\ Bounded(q)'
  <1>1. Peer(Peer(q)) = q
    BY Two
  <1>2. \A c \in Commands : Total(Peer(q), c)' = Total(Peer(q), c)
    BY <1>1 DEF Total
  <1> QED BY <1>2 DEF Unsent, Bounded

\* A program that starts to send has all its commands left.
LEMMA StartLimits ==
  ASSUME Shape, NEW q \in Programs, Unsent(q), pc[q] \in {"start", "wait"}, pc'[q] = "send",
         left' = [left EXCEPT ![q] = Batch(values[q])], UNCHANGED <<stream, cnt, values>>
  PROVE  Unsent(q)' /\ Bounded(q)'
  <1>1. Peer(q) \in Programs /\ Peer(Peer(q)) = q
    BY Two
  <1>2. stream'[Peer(q)] = <<>> /\ cnt'[Peer(q)] = [c \in Commands |-> 0]
    BY DEF Unsent
  <1>3. Accounted(Peer(q))'
    BY <1>1, <1>2, StartAccounts
  <1>4. \A c \in Commands : Rounds(values'[q].cnt[c]) \in Nat
    <2>1. values[q] \in Args
      BY DEF Shape
    <2> QED BY <2>1 DEF Args, Rounds
  <1>5. \A c \in Commands : Total(Peer(q), c)' = Rounds(values'[q].cnt[c])
    BY <1>1, <1>3 DEF Accounted
  <1>6. Bounded(q)'
    BY <1>4, <1>5 DEF Bounded
  <1> QED BY <1>6 DEF Unsent

\* Every step keeps the limits.
LEMMA LimitsStep == Shape /\ Limits /\ [Next]_vars => Limits'
  <1> SUFFICES ASSUME Shape, Limits, [Next]_vars, NEW q \in Programs
               PROVE  Unsent(q)' /\ Bounded(q)'
    BY DEF Limits
  <1> DEFINE Mute == {"parse", "start", "open", "wait", "read"}
  <1> USE Two
  <1>1. Unsent(q) /\ Bounded(q)
    BY DEF Limits
  <1>2. \A c \in Commands : Rounds(values[q].cnt[c]) \in Nat
    <2>1. values[q] \in Args
      BY DEF Shape
    <2> QED BY <2>1 DEF Args, Rounds
  <1>3. \A c \in Commands : Total(Peer(q), c) \in Nat
    BY Numbers DEF Total
  <1>4. ASSUME NEW p \in Programs, ParseArgs(p) PROVE Unsent(q)' /\ Bounded(q)'
    <2>1. PICK v \in Args : /\ values' = [values EXCEPT ![p] = v]
                            /\ \E l \in {"exit", "start", "open"} : pc' = [pc EXCEPT ![p] = l]
      <3>1. PICK line \in CommandLines :
              LET v == parse_args(line) IN
              /\ values' = [values EXCEPT ![p] = v]
              /\ IF v.code # None THEN Exit(p, v.code)
                                  ELSE Goto(p, IF p = Server THEN "start" ELSE "open")
        BY <1>4 DEF ParseArgs
      <3>2. PICK v \in Args : v = parse_args(line)
        BY ParseType
      <3> QED BY <3>1, <3>2 DEF Exit, Goto
    <2>2. pc[p] = "parse" /\ UNCHANGED <<stream, cnt, left>>
      BY <1>4 DEF ParseArgs, comm
    <2>3. CASE q = p
      <3>1. left[q] = <<>> /\ stream[Peer(q)] = <<>> /\ cnt[Peer(q)] = [c \in Commands |-> 0]
        BY <1>1, <2>2, <2>3 DEF Unsent
      <3>2. \A c \in Commands : Total(Peer(q), c)' = 0
        BY <2>2, <3>1, NothingTotal DEF Total
      <3>3. values'[q] = v
        BY <2>1, <2>3 DEF Shape
      <3>4. \A c \in Commands : Rounds(v.cnt[c]) >= 0
        BY DEF Args, Rounds
      <3> QED BY <2>2, <3>1, <3>2, <3>3, <3>4 DEF Unsent, Bounded
    <2>4. CASE q # p
      <3>1. values'[q] = values[q] /\ pc'[q] = pc[q]
        BY <2>1, <2>4 DEF Shape
      <3> QED BY <1>1, <2>2, <3>1, SameLimits
    <2> QED BY <2>3, <2>4
  <1>5. ASSUME NEW p \in Programs, Send(p) PROVE Unsent(q)' /\ Bounded(q)'
    <2>1. pc[p] = "send" /\ UNCHANGED <<pc, cnt, values>>
      BY <1>5 DEF Send, setup
    <2>2. CASE q = p
      <3>1. \A c \in Commands : Total(Peer(q), c)' <= Total(Peer(q), c)
        BY <1>5, <2>2, SendTotal
      <3>2. \A c \in Commands : Total(Peer(q), c)' \in Nat
        BY <1>5, <2>2, SendTotal
      <3>3. Bounded(q)'
        BY <1>1, <1>2, <1>3, <2>1, <3>1, <3>2 DEF Bounded
      <3> QED BY <2>1, <2>2, <3>3 DEF Unsent
    <2>3. CASE q # p
      <3>1. left'[q] = left[q]
        BY <1>5, <2>3 DEF Send, Shape
      <3>2. Peer(q) # Peer(p) /\ Peer(q) \in Programs /\ Peer(p) \in Programs
        BY <2>3
      <3>3. stream'[Peer(q)] = stream[Peer(q)]
        <4>1. PICK t : stream' = [stream EXCEPT ![Peer(p)] = t] \/ stream' = stream
          BY <1>5 DEF Send
        <4> QED BY <3>2, <4>1 DEF Shape
      <3> QED BY <1>1, <2>1, <3>1, <3>3, SameLimits
    <2> QED BY <2>2, <2>3
  <1>6. ASSUME NEW p \in Programs, Recv(p) PROVE Unsent(q)' /\ Bounded(q)'
    <2>1. stream[p] # <<>> /\ UNCHANGED <<pc, values, left>>
      BY <1>6 DEF Recv, Receives, setup
    <2>2. CASE Peer(q) = p
      <3>1. \A c \in Commands : Total(Peer(q), c)' = Total(Peer(q), c)
        BY <1>6, <2>2, RecvTotal
      <3>2. pc'[q] \notin Mute
        BY <1>1, <2>1, <2>2 DEF Unsent
      <3> QED BY <1>1, <2>1, <3>1, <3>2 DEF Unsent, Bounded
    <2>3. CASE Peer(q) # p
      <3>1. stream'[Peer(q)] = stream[Peer(q)] /\ cnt'[Peer(q)] = cnt[Peer(q)]
        BY <1>6, <2>3 DEF Recv, Shape
      <3> QED BY <1>1, <2>1, <3>1, SameLimits
    <2> QED BY <2>2, <2>3
  <1>7. ASSUME NEW p \in Programs, Stop(p) PROVE Unsent(q)' /\ Bounded(q)'
    <2>1. /\ pc' = [pc EXCEPT ![p] = "exit"] /\ UNCHANGED <<cnt, left, values>>
          /\ stream'[Peer(q)] \in {stream[Peer(q)], <<>>}
      <3>1. PICK rest \in {stream[Peer(p)], <<>>} :
              stream' = [stream EXCEPT ![p] = <<>>, ![Peer(p)] = rest]
        BY <1>7 DEF Stop
      <3>2. stream'[Peer(q)] \in {stream[Peer(q)], <<>>}
        BY <3>1 DEF Shape
      <3> QED BY <1>7, <3>2 DEF Stop, Exit
    <2>2. \A c \in Commands :
            Total(Peer(q), c)' \in Nat /\ Total(Peer(q), c)' <= Total(Peer(q), c)
      <3> TAKE c \in Commands
      <3>1. PICK k, l, n \in Nat : /\ k = cnt[Peer(q)][c] /\ n = Occurrences(left[q], c)
                                   /\ l = Occurrences(stream[Peer(q)], GetTag[c])
        BY Numbers
      <3>2. Occurrences(<<>>, GetTag[c]) = 0
        <4>1. <<>> \in Seq(DOMAIN Ops)
          BY EmptySeq
        <4> QED BY <4>1, OccurrencesType
      <3>3. Occurrences(stream'[Peer(q)], GetTag[c]) \in {l, 0}
        BY <2>1, <3>1, <3>2
      <3>4. Total(Peer(q), c) = k + l + n
        BY <3>1 DEF Total
      <3>5. Total(Peer(q), c)' = k + Occurrences(stream'[Peer(q)], GetTag[c]) + n
        BY <2>1, <3>1 DEF Total
      <3> QED BY <3>3, <3>4, <3>5
    <2>3. Bounded(q)'
      BY <1>1, <1>2, <1>3, <2>1, <2>2 DEF Bounded
    <2>4. pc'[q] \in Mute => pc[q] \in Mute
      BY <2>1 DEF Shape
    <2> QED BY <1>1, <2>1, <2>3, <2>4 DEF Unsent
  <1>8. CASE SeeClient
    <2>1. /\ pc[Server] = "wait" /\ pc' = [pc EXCEPT ![Server] = "send"]
          /\ left' = [left EXCEPT ![Server] = Batch(values[Server])]
          /\ UNCHANGED <<stream, cnt, values>>
      BY <1>8 DEF SeeClient, Goto, setup, comm
    <2>2. CASE q = Server
      <3>1. pc'[q] = "send"
        BY <2>1, <2>2 DEF Shape
      <3> QED BY <1>1, <2>1, <2>2, <3>1, StartLimits
    <2>3. CASE q # Server
      <3>1. pc'[q] = pc[q] /\ left'[q] = left[q]
        BY <2>1, <2>3 DEF Shape
      <3> QED BY <1>1, <2>1, <3>1, SameLimits
    <2> QED BY <2>2, <2>3
  <1>9. CASE ClientStarts
    <2>1. /\ pc[Client] = "start" /\ pc' = [pc EXCEPT ![Client] = "send"]
          /\ left' = [left EXCEPT ![Client] = Batch(values[Client])]
          /\ UNCHANGED <<stream, cnt, values>>
      BY <1>9 DEF ClientStarts, Goto, setup
    <2>2. CASE q = Client
      <3>1. pc'[q] = "send"
        BY <2>1, <2>2 DEF Shape
      <3> QED BY <1>1, <2>1, <2>2, <3>1, StartLimits
    <2>3. CASE q # Client
      <3>1. pc'[q] = pc[q] /\ left'[q] = left[q]
        BY <2>1, <2>3 DEF Shape
      <3> QED BY <1>1, <2>1, <3>1, SameLimits
    <2> QED BY <2>2, <2>3
  <1>10. ASSUME NEW p \in Programs, Dies(p) \/ Sent(p) \/ PauseEnds(p)
         PROVE  Unsent(q)' /\ Bounded(q)'
    <2>1. pc'[q] \in Mute => pc[q] \in Mute
      BY <1>10 DEF Dies, Sent, PauseEnds, Exit, Goto, Shape
    <2>2. UNCHANGED <<stream, cnt, left, values>>
      BY <1>10 DEF Dies, Sent, PauseEnds, setup, comm
    <2> QED BY <1>1, <2>1, <2>2, SameLimits
  <1>11. CASE ServerStarts \/ ServerCannotStart \/ WritePort
    <2>1. pc'[q] \in Mute => pc[q] \in Mute
      BY <1>11 DEF ServerStarts, ServerCannotStart, WritePort, Exit, Goto, Shape
    <2>2. UNCHANGED <<stream, cnt, left, values>>
      BY <1>11 DEF ServerStarts, ServerCannotStart, WritePort, setup, comm
    <2> QED BY <1>1, <2>1, <2>2, SameLimits
  <1>12. CASE OpenFifo \/ ReadPort \/ ClientCannotStart
    <2>1. pc'[q] \in Mute => pc[q] \in Mute
      BY <1>12 DEF OpenFifo, ReadPort, ClientCannotStart, Exit, Goto, Shape
    <2>2. UNCHANGED <<stream, cnt, left, values>>
      BY <1>12 DEF OpenFifo, ReadPort, ClientCannotStart, setup, comm
    <2> QED BY <1>1, <2>1, <2>2, SameLimits
  <1>13. CASE Accept \/ UNCHANGED vars
    <2>1. UNCHANGED <<pc, stream, cnt, left, values>>
      BY <1>13 DEF Accept, vars, setup, comm
    <2> QED BY <1>1, <2>1, SameLimits
  <1> QED BY <1>4, <1>5, <1>6, <1>7, <1>8, <1>9, <1>10, <1>11, <1>12, <1>13, Steps

\* They hold at the start.
LEMMA LimitsInit == Init => Limits
  <1> SUFFICES ASSUME Init, NEW q \in Programs PROVE Unsent(q) /\ Bounded(q)
    BY DEF Limits
  <1>1. Peer(q) \in Programs
    BY Two
  <1>2. left[q] = <<>> /\ stream[Peer(q)] = <<>> /\ cnt[Peer(q)] = [c \in Commands |-> 0]
    BY <1>1 DEF Init
  <1>3. \A c \in Commands : Total(Peer(q), c) = 0
    BY <1>2, NothingTotal
  <1>4. \A c \in Commands : Rounds(values[q].cnt[c]) >= 0
    <2>1. values[q] \in Args
      BY DefaultsType DEF Init
    <2> QED BY <2>1 DEF Args, Rounds
  <1> QED BY <1>2, <1>3, <1>4 DEF Unsent, Bounded

\* Whatever the command lines, the order of the threads, and the moment at which a
\* pause ends and a connection is closed or reset, no callback of a program runs
\* more often than the other program was asked to send its command (server.cc and
\* client.cc, the loops of main and the counters of the Recv()s).
THEOREM NothingCountedTwice == Spec => []NothingExtra
  <1>1. Shape /\ Limits => NothingExtra
    <2> SUFFICES ASSUME Shape, Limits, NEW p \in Programs, NEW c \in Commands
                 PROVE  cnt[p][c] <= Rounds(values[Peer(p)].cnt[c])
      BY DEF NothingExtra, Rounds
    <2>1. Peer(p) \in Programs /\ Peer(Peer(p)) = p
      BY Two
    <2>2. Total(p, c) <= Rounds(values[Peer(p)].cnt[c])
      BY <2>1 DEF Limits, Bounded
    <2>3. PICK k, l, n \in Nat : /\ k = cnt[p][c] /\ l = Occurrences(stream[p], GetTag[c])
                                 /\ n = Occurrences(left[Peer(p)], c)
      BY <2>1, Numbers
    <2>4. Total(p, c) = k + l + n
      BY <2>3 DEF Total
    <2>5. Rounds(values[Peer(p)].cnt[c]) \in Nat
      <3>1. values[Peer(p)] \in Args
        BY <2>1 DEF Shape
      <3> QED BY <3>1 DEF Args, Rounds
    <2> QED BY <2>2, <2>3, <2>4, <2>5
  <1>2. Spec => []Limits
    BY ShapeInit, ShapeStep, EndsStep, LimitsInit, LimitsStep, PTL DEF Spec
  <1> QED BY <1>1, <1>2, ShapeAlways, PTL
=============================================================================
