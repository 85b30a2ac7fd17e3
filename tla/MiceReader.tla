----------------------------- MODULE MiceReader -----------------------------
(***************************************************************************)
(* What a caller of the MICE decoder may rely on, whatever the network     *)
(* does: it is handed ever longer beginnings of the payload, and told that *)
(* the stream has ended only when it holds all of it.  Calls that return no*)
(* octet, and calls that fail, are stuttering steps.                       *)
(***************************************************************************)
EXTENDS Integers, Sequences

VARIABLES
  payload,    \* the payload whose digest the caller trusts
  received,   \* the octets handed to the caller
  atEnd       \* the last call said that the stream has ended

vars == <<payload, received, atEnd>>

Init ==
  /\ received = <<>>
  /\ atEnd = FALSE

(* The caller receives the next octets of the payload. *)
Extend ==
  /\ \E n \in Len(received)..Len(payload) : received' = SubSeq(payload, 1, n)
  /\ atEnd' = FALSE
  /\ ~atEnd
  /\ UNCHANGED payload

(* The caller is told that there is no more. *)
End ==
  /\ received = payload
  /\ atEnd' = TRUE
  /\ UNCHANGED <<payload, received>>

Next == Extend \/ End

Spec == Init /\ [][Next]_vars
=============================================================================
