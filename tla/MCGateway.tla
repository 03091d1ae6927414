------------------------------ MODULE MCGateway ------------------------------
(* Gateway for TLC: of two organizations, snapshots or acting calls it does   *)
(* not matter which is which.                                                 *)
EXTENDS Gateway, TLC

Symmetry == Permutations(Orgs) \cup Permutations(Snappers) \cup Permutations(Clickers)
=============================================================================
