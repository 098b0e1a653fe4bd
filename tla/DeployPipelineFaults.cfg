CONSTANTS
  Workers = {w1, w2}
  Digests = {d1, d2}
  Tag = tag
  FormRefs = {tag}
  BadImages = {d2}
  Confs = {checked}
  Checked = {checked}
  Faults = {"pull", "docker", "slow", "publish", "cancel", "restart"}
  ListLimit = 3
  MaxRequests = 2
  None = None
  Absent = Absent
  Gone = Gone
SPECIFICATION Spec
SYMMETRY WorkerSymmetry
CHECK_DEADLOCK FALSE
INVARIANTS
  TypeOK
  HistoryPinsOwnImage
  OneRollbackPerRequest
  LiveMeansServing
  RollbackRestoresPrevious
  ServingSurvives
