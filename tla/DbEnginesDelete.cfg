CONSTANTS
  Workers = {w1, w2}
  Projects = {p1}
  p1 = p1
  p2 = p2
  Names = {n1, n2}
  n1 = n1
  n2 = n2
  n3 = n3
  Owner <- MCOwner
  Faults = {}
  MaxRequests = 2
  None = None
SPECIFICATION Spec
CHECK_DEADLOCK FALSE
INVARIANT DeletedProjectHasNoDatabase
