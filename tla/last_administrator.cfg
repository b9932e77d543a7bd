SPECIFICATION Spec
CONSTANTS
  Null = Null
  DbOutcomes = {"ok"}
  NoGroup = NoGroup
  Usernames = {admin, alice}
  AdminName = admin
  Roles = {0, 100}
  Groups = {NoGroup}
  Hashes = {h1, h2}
  Tokens = {k1, k2}
  Threads = {t1, t2}
INVARIANT AdministratorRemains
