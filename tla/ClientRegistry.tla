---------------------------- MODULE ClientRegistry ----------------------------
(***************************************************************************)
(* What a GepServer promises to its application's callbacks: clients are   *)
(* announced (AddClient) and withdrawn (DelClient) once each, under an     *)
(* identifier that is never given to another client; messages come from    *)
(* announced clients only; and callbacks never overlap.                    *)
(***************************************************************************)
CONSTANTS
  Ids,        \* identifiers of clients
  Nobody      \* no client is being served

VARIABLES
  announced,  \* clients AddClient was called for and DelClient was not
  withdrawn,  \* clients DelClient was called for
  serving     \* the client whose message the application is handling

vars == <<announced, withdrawn, serving>>

Init == announced = {} /\ withdrawn = {} /\ serving = Nobody

AddClient(id) ==
  /\ serving = Nobody /\ id \notin announced \cup withdrawn
  /\ announced' = announced \cup {id}
  /\ UNCHANGED <<withdrawn, serving>>

\* One client, or all of them when the server stops.
DelClients(ids) ==
  /\ serving = Nobody /\ ids \subseteq announced
  /\ announced' = announced \ ids
  /\ withdrawn' = withdrawn \cup ids
  /\ UNCHANGED serving

Call(id) ==
  /\ serving = Nobody /\ id \in announced
  /\ serving' = id
  /\ UNCHANGED <<announced, withdrawn>>

Return ==
  /\ serving' = Nobody
  /\ UNCHANGED <<announced, withdrawn>>

Next == \/ \E id \in Ids : AddClient(id)
        \/ \E ids \in SUBSET announced : DelClients(ids)
        \/ \E id \in announced : Call(id)
        \/ Return

Spec == Init /\ [][Next]_vars
=============================================================================
