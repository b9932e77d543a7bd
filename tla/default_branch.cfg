SPECIFICATION FairServices
CONSTANTS
  ProjectIds = {p1}
  BranchIds = {b1, b2}
  CommitIds = {c1, c2}
  TagIds = {g1}
  QueryIds = {q1}
  TwinIds = {}
  Names = {main, dev}
  MainName = main
  Attributes = {a1}
  Bodies = {x1}
  Null = Null
  DbOutcomes = {"ok"}
  QueryOutcomes = {"ok", "refused"}
  Threads = {t1, t2}
  Operations = {"createProject", "updateProject", "deleteProject", "createBranch", "deleteBranch", "createCommit"}
  MaxRestarts = 0
INVARIANT DefaultBranchStored
PROPERTY AllLocksReleased
