------------------------------- MODULE MCWaits -------------------------------
(* Waits for TLC: where only safety is checked, no Bot differs from another. *)
EXTENDS Waits, TLC

Symmetry == Permutations(Bots)

\* Another answer says more than "done".
MCHolds ==
  [w \in Prompts \cup Replies |-> IF w = "done so" THEN {"done", "done so"} ELSE {w}]
=============================================================================
