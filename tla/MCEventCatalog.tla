---------------------------- MODULE MCEventCatalog ----------------------------
(* EventCatalog for TLC: what may be permuted. *)
EXTENDS EventCatalog, TLC

MCEventSymmetry ==
  Permutations(Events \ Illustrated) \cup Permutations(Images) \cup Permutations(Edits)
=============================================================================
