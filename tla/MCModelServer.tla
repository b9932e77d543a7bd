---------------------------- MODULE MCModelServer ----------------------------
(* Instances of ModelServer for TLC. *)
EXTENDS ModelServerProperties, TLC

(* Identifiers are only compared, so they may be permuted. *)
Symmetry ==
  Permutations(ProjectIds) \cup Permutations(BranchIds) \cup
  Permutations(CommitIds) \cup Permutations(TagIds) \cup Permutations(Threads)
=============================================================================
