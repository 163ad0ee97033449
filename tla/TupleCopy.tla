------------------------------ MODULE TupleCopy -----------------------------
(***************************************************************************)
(* What a converter promises: it copies the tuples of its sources, one by  *)
(* one and in their order, and ends when it has copied them all.           *)
(***************************************************************************)
EXTENDS Sequences, Naturals

VARIABLES
  wanted,   \* the tuples to copy; does not change
  copy,     \* the tuples copied so far
  ended

vars == <<wanted, copy, ended>>

Init == copy = <<>> /\ ended = FALSE

CopyOne ==
  /\ ~ended /\ Len(copy) < Len(wanted)
  /\ copy' = Append(copy, wanted[Len(copy) + 1])
  /\ UNCHANGED <<wanted, ended>>

End ==
  /\ ~ended /\ copy = wanted
  /\ ended' = TRUE
  /\ UNCHANGED <<wanted, copy>>

Next == CopyOne \/ End

Spec == Init /\ [][Next]_vars

\* Next is enabled until the end, so that this says as much as WF_vars(Next).
ComesToItsEnd == <>ended
=============================================================================
