CONSTANTS
  Workers = {w1, w2}
  Roots = {r1, r2}
  r1 = r1
  r2 = r2
  Zones = {z1}
  z1 = z1
  Targets = {alias, ip}
  alias = alias
  ip = ip
  TypeOf <- MCTypeOf
  CfgRoot = r1
  CfgApp = TRUE
  Forms <- MCForms
  AppForms <- MCAppForms
  Foreign <- MCForeign
  SettingsFaults = {"interrupt"}
  MaxRequests = 3
  Blank = Blank
  None = None
  Installations = {i1}
  Projects = {p1}
SYMMETRY Symmetry
SPECIFICATION Spec
CHECK_DEADLOCK FALSE
INVARIANTS
  TypeOK
  SavesStick
  AdminRecordFollows
  OthersRecordsStay
  InstallationsFollow
  ImportsHonest
PROPERTIES
  SecretsKept
