CONSTANTS
  Workers = {w1, w2}
  Emails = {e1}
  Ips = {ip1}
  Keys = {k1}
  SessionTTL = 2
  LockoutAfter = 2
  LockoutDuration = 2
  IpWindow = 1
  IpLimit = 2
  HookWindow = 2
  HookLimit = 1
  MaxTime = 3
  MaxRequests = 4
  None = None
SYMMETRY Symmetry
SPECIFICATION Spec
CHECK_DEADLOCK FALSE
INVARIANTS
  TypeOK
  SessionsHonest
  LoginsLimited
  WebhooksLimited
PROPERTIES
  LockoutHolds
