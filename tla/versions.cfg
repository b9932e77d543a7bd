SPECIFICATION Spec
CONSTANTS
  ProjectIds = {p1}
  BranchIds = {b1, b2}
  CommitIds = {c1, c2, c3}
  TagIds = {g1}
  Names = {main, dev}
  MainName = main
  Attributes = {a1}
  Null = Null
  DbOutcomes = {"ok", "refused", "lost"}
  QueryOutcomes = {"ok", "refused", "lost"}
  Threads = {t1, t2}
  Operations = {"createProject", "createBranch", "deleteBranch", "createCommit", "mergeIntoBranch"}
  MaxRestarts = 1
SYMMETRY Symmetry
INVARIANTS
  TypeOK
  DocumentsClosed
  AckedCommitsReachable
PROPERTIES
  HeadsAdvance
  ImplementsStore
