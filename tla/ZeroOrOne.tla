------------------------------ MODULE ZeroOrOne ------------------------------
(***************************************************************************)
(* What a pair of GEP channels promises: zero or one execution of each     *)
(* message.  Each end has a queue of the messages that were sent to it.    *)
(* While the stream to an end is whole, its oldest message is executed, or *)
(* skipped when nobody handles its kind, and none is executed before it;   *)
(* the sender takes back the newest, or the connection goes with all of    *)
(* them.  Once a sender has given up in the middle of a message the stream *)
(* is broken, and nothing is promised until the next connection but that   *)
(* what was executed was executed.                                         *)
(***************************************************************************)
EXTENDS Naturals, Sequences

CONSTANTS
  Ends,       \* the two ends of the connection
  Messages,   \* what may be sent
  Handled     \* the messages somebody handles

VARIABLES
  queue,      \* queue[e]: sent to e, neither executed nor lost yet
  executed,   \* executed[e]: what e has executed, in order
  broken      \* broken[e]: the stream to e is no longer whole

vars == <<queue, executed, broken>>

Init == /\ queue    = [e \in Ends |-> <<>>]
        /\ executed = [e \in Ends |-> <<>>]
        /\ broken   = [e \in Ends |-> FALSE]

Send(e, m) == /\ queue' = [queue EXCEPT ![e] = Append(@, m)]
              /\ UNCHANGED <<executed, broken>>

TakeBack(e) == /\ queue[e] # <<>>
               /\ queue' = [queue EXCEPT ![e] = SubSeq(@, 1, Len(@) - 1)]
               /\ UNCHANGED <<executed, broken>>

Execute(e) == /\ queue[e] # <<>> /\ Head(queue[e]) \in Handled
              /\ executed' = [executed EXCEPT ![e] = Append(@, Head(queue[e]))]
              /\ queue' = [queue EXCEPT ![e] = Tail(@)]
              /\ UNCHANGED broken

Skip(e) == /\ queue[e] # <<>> /\ Head(queue[e]) \notin Handled
           /\ queue' = [queue EXCEPT ![e] = Tail(@)]
           /\ UNCHANGED <<executed, broken>>

Disconnect(e) == /\ queue' = [queue EXCEPT ![e] = <<>>]
                 /\ UNCHANGED <<executed, broken>>

Break(e) == /\ broken' = [broken EXCEPT ![e] = TRUE]
            /\ UNCHANGED <<queue, executed>>

\* A step on a broken stream: messages are lost, anything may be executed next.
Stray(e) ==
  /\ broken[e]
  /\ \E i, j \in 0 .. Len(queue[e]) + 1 :
       i >= 1 /\ j <= Len(queue[e]) /\ queue' = [queue EXCEPT ![e] = SubSeq(@, i, j)]
  /\ \/ UNCHANGED executed
     \/ /\ Len(executed'[e]) = Len(executed[e]) + 1
        /\ executed' = [executed EXCEPT ![e] = Append(@, executed'[e][Len(@) + 1])]
  /\ UNCHANGED broken

Reconnect == /\ \A e \in Ends : queue[e] = <<>>
             /\ broken' = [e \in Ends |-> FALSE]
             /\ UNCHANGED <<queue, executed>>

Next == \/ \E e \in Ends :
             \/ \E m \in Messages : Send(e, m)
             \/ TakeBack(e) \/ Execute(e) \/ Skip(e) \/ Disconnect(e)
             \/ Break(e) \/ Stray(e)
        \/ Reconnect

Spec == Init /\ [][Next]_vars
=============================================================================
