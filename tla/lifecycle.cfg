SPECIFICATION Spec
CONSTANTS
  ProjectIds = {p1, p2}
  BranchIds = {b1, b2, b3}
  CommitIds = {c1}
  TagIds = {g1, g2}
  Names = {main, dev}
  MainName = main
  Attributes = {a1}
  Null = Null
  DbOutcomes = {"ok", "refused"}
  QueryOutcomes = {"ok", "refused"}
  Threads = {t1, t2}
  Operations = {"createProject", "deleteProject", "deleteBranch", "updateProject", "changeOwnership", "createBranch", "createTag", "deleteTag", "createCommit"}
  MaxRestarts = 1
SYMMETRY Symmetry
INVARIANTS
  LiveReferencesResolve
  DeletedStaysDeleted
  UniqueNames
PROPERTY ImplementsStore
