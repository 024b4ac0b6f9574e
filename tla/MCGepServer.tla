----------------------------- MODULE MCGepServer -----------------------------
(***************************************************************************)
(* Instances of GepServer for TLC.                                         *)
(***************************************************************************)
EXTENDS GepServer, TLC

CONSTANTS c1, c2, c3, s1      \* connections, and a sending thread

\* A client that sends a message and two that only come and go: together one
\* more than the limit of two.
CrowdInput == (c1 :> <<"message">>) @@ (c2 :> <<>>) @@ (c3 :> <<>>)
SilentClients == Permutations({c2, c3})

\* A client that never has to pause, and one that sends, and then garbage: either
\* may connect first.
BusyInput == (c1 :> <<"message">>) @@ (c2 :> <<"fragment", "garbage">>)
=============================================================================
