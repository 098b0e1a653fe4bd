CONSTANTS
  Workers = {w1, w2}
  Projects = {p1, p2}
  p1 = p1
  p2 = p2
  Names = {n1, n2, n3}
  n1 = n1
  n2 = n2
  n3 = n3
  Owner <- MCOwner
  Faults = {"interrupt", "statement", "engine", "deploy"}
  MaxRequests = 3
  None = None
SPECIFICATION Spec
SYMMETRY WorkerSymmetry
CHECK_DEADLOCK FALSE
INVARIANTS
  TypeOK
  RootPasswordKnown
  Consistent
  EnvFollows
