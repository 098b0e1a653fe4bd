CONSTANTS
  Workers = {w1, w2}
  Digests = {d1, d2}
  Tag = tag
  FormRefs = {tag, d1, d2}
  BadImages = {d2}
  Confs = {plain, checked}
  Checked = {checked}
  Faults = {"pull", "docker", "slow", "publish"}
  ListLimit = 2
  MaxRequests = 1
  None = None
  Absent = Absent
  Gone = Gone
SPECIFICATION FairSpec
CHECK_DEADLOCK FALSE
PROPERTIES
  ImplementsDeployLog
  RequestsEnd
