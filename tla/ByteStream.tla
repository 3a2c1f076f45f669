----------------------------- MODULE ByteStream -----------------------------
(***************************************************************************)
(* What reading a remote file promises: the bytes of the requested range   *)
(* are delivered in order, none twice and none left out, and the reader is *)
(* told the range is finished only when nothing of it is left in the file. *)
(* A byte is named by its position in the file.                            *)
(***************************************************************************)
EXTENDS Naturals, Sequences

CONSTANTS Offset, Length

VARIABLES
  out,       \* the positions delivered so far
  size,      \* the size of the file on the server
  state      \* "open", "finished", "stopped" (an error, or cancelled)

Init == out = <<>> /\ size \in Nat /\ state = "open"

(* n more bytes; a file that shrinks takes back nothing that was delivered *)
Deliver ==
  /\ state = "open"
  /\ \E n \in 0 .. Length - Len(out) :
       out' = out \o [j \in 1 .. n |-> Offset + Len(out) + j - 1]
  /\ UNCHANGED <<size, state>>

Finish ==
  /\ state = "open"
  /\ Len(out) >= Length \/ Offset + Len(out) >= size
  /\ state' = "finished"
  /\ UNCHANGED <<out, size>>

Stop ==
  /\ state = "open"
  /\ state' = "stopped"
  /\ UNCHANGED <<out, size>>

Resize == size' \in Nat /\ UNCHANGED <<out, state>>

Next == Deliver \/ Finish \/ Stop \/ Resize

Spec == Init /\ [][Next]_<<out, size, state>>
=============================================================================
