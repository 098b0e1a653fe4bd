CONSTANTS
  MaxTime = 2
  MaxWork = 3
  None = None
  Deploys = {d1, d2}
  Viewers = {v1}
  Buffer = 1
  Requests = {r1}
  Day = 2
  ScheduledAt = 1
  Retention = 2
  Resources = {ram, disk}
  Interval = 1
  Cooldown = 2
  Updates = {u1, u2}
  Releases = {1, 2, 3}
  Installed = 1
SPECIFICATION Spec
CHECK_DEADLOCK FALSE
INVARIANTS
  TypeOK
  NeverPanics
  StreamsFaithful
  ReportedBackupsKept
  EachNightOnce
  MailsSpaced
  SilenceEarned
  ControllerSurvives
  PortsKept
PROPERTIES
  ReleasesForward
