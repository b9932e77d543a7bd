--------------------------- MODULE MCModelServices ---------------------------
(* Instances of ModelServices for TLC. *)
EXTENDS ModelServicesProperties, TLC

(* Identifiers are only compared, so they may be permuted. *)
Symmetry ==
  Permutations(ProjectIds) \cup Permutations(BranchIds) \cup
  Permutations(CommitIds) \cup Permutations(TagIds) \cup
  Permutations(QueryIds) \cup Permutations(TwinIds) \cup Permutations(Threads)
=============================================================================
