SPECIFICATION OfficeSpec
CONSTANTS
  Requests = {q1, q2}
  NoRow = NoRow
  h1 = h1
  u1 = u1
  direction = direction
  library = library
  modify = modify
  users = users
  Home <- HomeOf
  Given = {1}
  Limit <- OneOrTwo
  MaxCalls <- Bounds
  Parts = {"sessions", "attempts", "rights", "library", "audit", "incidents"}
  Students = {s1}
  Classes = {c1}
  Levels = {l1}
  Cards = {}
  Schools = {h1, h2}
  Capacities = {1}
  Services = {{"enrolment"}}
  MaxEnrol = 0
  MaxClasses = 0
  MaxCards = 0
  MAX_LOGIN_ATTEMPTS = 2
  MaxPasswords = 3
  MaxTokens = 2
  MaxLogins = 5
  Callers = {u1, u2}
  Allowed = 2
  Window = 2
  MaxCallers = 1
  MaxSeconds = 4
  Users = {u1, u2}
  Super = super
  Posts = {direction, library}
  Permissions = {modify, users}
  Profiles = {direction}
  ProfilePermissions <- Profiled
  Direction = direction
  MODIFY_PERMISSIONS = modify
  MODIFY_USERS = users
  MODIFY_SETTINGS = users
  MaxGrants = 3
  Beginnings <- TwoSchools
  Texts = {x1, x2, x3}
  Titles = {t1, t2}
  MaxIndexings = 4
  Writers = {w1, w2}
  Actions = {t1, t2}
  Checked = 2
  MaxLines = 3
  Codes = {a1}
  MaxActions = 1
  Cooldown = 1
  PerMinute = 2
  Month = 2
  MaxTicks = 3
  MaxIncidents = 3
  MaxReports = 1
  MaxStarts = 1
SYMMETRY Alike
INVARIANTS
  SessionsHold
  NothingWidens
  AuditTells
PROPERTIES
  EndedForGood
CHECK_DEADLOCK FALSE
