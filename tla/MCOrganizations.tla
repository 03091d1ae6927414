--------------------------- MODULE MCOrganizations ---------------------------
(* Organizations for TLC: of two requests or webhooks it does not matter which *)
(* is which.                                                                   *)
EXTENDS Organizations, TLC

Symmetry == Permutations(Creates) \cup Permutations(Hooks)
=============================================================================
