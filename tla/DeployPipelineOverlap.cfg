CONSTANTS
  Workers = {w1, w2}
  Digests = {d1, d2}
  Tag = tag
  FormRefs = {tag}
  BadImages = {d2}
  Confs = {plain, checked}
  Checked = {checked}
  Faults = {}
  ListLimit = 2
  MaxRequests = 2
  None = None
  Absent = Absent
  Gone = Gone
SPECIFICATION Spec
CHECK_DEADLOCK FALSE
INVARIANT LiveDeployIsServing
