SPECIFICATION SpecServices
CONSTANTS
  ProjectIds = {p1}
  BranchIds = {b1, b2}
  CommitIds = {c1}
  TagIds = {g1}
  QueryIds = {q1}
  TwinIds = {w1}
  Names = {main, dev}
  MainName = main
  Attributes = {a1, a2}
  Bodies = {x1, x2}
  Null = Null
  DbOutcomes = {"ok", "refused"}
  QueryOutcomes = {"ok", "refused"}
  Threads = {t1, t2}
  Operations = {"createProject", "updateProject", "changeOwnership", "deleteProject", "createBranch", "deleteBranch", "createTag", "deleteTag", "createCommit"}
  MaxRestarts = 1
SYMMETRY Symmetry
INVARIANTS
  ServicesTypeOK
  MemoryFollowsDatabase
  QueriesFollowDatabase
  DeletedQueriesStayDeleted
  TwinsResolve
