SPECIFICATION Spec
CONSTANTS
  Null = Null
  DbOutcomes = {"ok", "refused"}
  NoGroup = NoGroup
  Usernames = {admin, alice}
  AdminName = admin
  Roles = {0, 100}
  Groups = {NoGroup, g1}
  Hashes = {h1, h2, h3, h4}
  Tokens = {k1, k2}
  Threads = {t1, t2}
SYMMETRY Symmetry
INVARIANTS
  TypeOK
  SessionsCurrent
  MemoryIsStored
PROPERTY PendingChangeStays
