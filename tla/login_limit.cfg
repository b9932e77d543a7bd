SPECIFICATION Spec
CONSTANTS
  Threads = {t1, t2}
  Ips = {i1}
  Usernames = {alice}
  MaxRequestsPerIp = 3
  IpWindow = 3
  MaxFailuresPerUser = 1
  FailureWindow = 3
  MaxTrackedKeys = 1
  Delay = 0
  MaxTime = 5
INVARIANT FailuresWithinLimit
