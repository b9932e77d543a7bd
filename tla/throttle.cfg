SPECIFICATION Spec
CONSTANTS
  Threads = {t1, t2}
  Ips = {i1, i2}
  Usernames = {alice, bob}
  MaxRequestsPerIp = 2
  IpWindow = 3
  MaxFailuresPerUser = 1
  FailureWindow = 3
  MaxTrackedKeys = 1
  Delay = 1
  MaxTime = 5
SYMMETRY Symmetry
INVARIANTS
  TypeOK
  IpLimit
  FailureLimit
  RetryAfterSuffices
