---------------------------- MODULE MCGepChannel ----------------------------
(***************************************************************************)
(* Instances of GepChannel for TLC.  The values are those of a message     *)
(* with one optional integer, field number 1, in the binary encoding of    *)
(* protobuf: nothing, or a key and an integer below 128, the last of       *)
(* several counting.                                                       *)
(***************************************************************************)
EXTENDS GepChannel, TLC

CONSTANTS c1, c2, s1     \* application threads: two at the client, one at the server

MsgMagic == <<103, 101, 112, 112>>    \* "gepp"
TagA == <<99, 109, 100, 49>>          \* "cmd1", a tag with a callback
TagB == <<99, 109, 100, 50>>          \* "cmd2", a tag without one

Key == 8

\* Messages by what is special about them.
Empty == [tag |-> TagA, value |-> <<>>]
One   == [tag |-> TagA, value |-> <<Key, 1>>]
Two   == [tag |-> TagA, value |-> <<Key, 2>>]
Reply == [tag |-> TagA, value |-> <<Key, 3>>]
Alien == [tag |-> TagB, value |-> <<>>]
\* More than MaxMsgLen == 16 allows, and more than the buffer holds.
Large == [tag |-> TagA, value |-> <<Key, 4, Key, 5, Key, 6>>]
\* A message with a field that the receiver's version of it does not have.
Foreign == [tag |-> TagA, value |-> <<Key + 8, 1>>]
\* A message that does not serialize.
Broken == [tag |-> TagA, value |-> <<Key, 7>>]

AllMessages == {Empty, One, Two, Reply, Alien, Large, Broken}
Handled == {TagA}
Serializables == AllMessages \ {Broken}
MCAppEnd == (c1 :> Client) @@ (c2 :> Client) @@ (s1 :> Server)

\* The values that parse.
IsValue(v) == /\ Len(v) % 2 = 0
              /\ \A i \in DOMAIN v : IF i % 2 = 1 THEN v[i] = Key ELSE v[i] < 128
BinaryMode == {m \in TLV : IsValue(m.value)}
\* Text mode, a field's name and its integer as one byte each: it refuses a
\* field it does not know (which binary mode keeps) and one given twice.
TextMode == {m \in TLV : m.value = <<>> \/ m.value \in {Key} \X (0 .. 127)}

\* Two senders at the client; the server sends from a thread and from a callback.
\* Some messages do not serialize, are too large, or have no callback.
DuplexApps == {c1, c2, s1}
DuplexEnd  == [t \in DuplexApps |-> MCAppEnd[t]]
DuplexOut  == (c1 :> <<Broken, One>>) @@ (c2 :> <<Large>>) @@ (s1 :> <<Alien>>)
              @@ (Client :> <<>>) @@ (Server :> <<Reply>>)

\* The smallest instance in which both ends may wait for each other, and one
\* recv() may return the end of a message and a whole one behind it.  The
\* client's callback sends what does not parse.
CrossApps == {c1, s1}
CrossEnd  == [t \in CrossApps |-> MCAppEnd[t]]
CrossOut  == (c1 :> <<One>>) @@ (s1 :> <<Two>>)
             @@ (Client :> <<Foreign>>) @@ (Server :> <<Empty>>)
CrossMessages == {Empty, One, Two, Foreign}

\* One thread sends two messages, and nobody ever stops.
LossApps == {c1}
LossEnd  == [t \in LossApps |-> MCAppEnd[t]]
LossOut  == (c1 :> <<One, Two>>) @@ (Client :> <<>>) @@ (Server :> <<>>)
=============================================================================
