SPECIFICATION Spec
CONSTANTS
  ProjectIds = {p1}
  BranchIds = {b1, b2}
  CommitIds = {c1}
  TagIds = {g1}
  Names = {main, dev}
  MainName = main
  Attributes = {a1}
  Null = Null
  DbOutcomes = {"ok"}
  QueryOutcomes = {"ok"}
  Threads = {t1, t2}
  Operations = {"createProject", "deleteProject", "createBranch", "createCommit"}
  MaxRestarts = 0
INVARIANT DeletedProjectForgotten
