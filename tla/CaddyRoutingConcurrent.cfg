CONSTANTS
  Workers = {w1, w2}
  Projects = {p1, p2}
  Subs = {s1, s2}
  Roots = {r1}
  CustomHosts = {h1}
  h1 = h1
  elsewhere = elsewhere
  RuleSets <- MCRuleSets
  Ports = {80, 81}
  Unmanaged <- MCUnmanaged
  Faults = {"deploy", "caddy"}
  MaxRequests = 3
  None = None
  Controller = Controller
SPECIFICATION Spec
CHECK_DEADLOCK FALSE
SYMMETRY WorkerSymmetry
INVARIANTS
  TypeOK
  UnmanagedStays
  Published
PROPERTIES
  ReconcileIsIdempotent
