SPECIFICATION FairSpec
CONSTANTS
  Null = Null
  DbOutcomes = {"ok", "refused", "lost"}
  ProjectIds = {l1, l2, p1}
  Library = {l1, l2}
  Usernames = {u1, u2}
  MaxFailures = 2
INVARIANTS
  TypeOK
  SchemaTellsForm
  
PROPERTIES
  NothingOverwritten
  EventuallyServes
CHECK_DEADLOCK FALSE
