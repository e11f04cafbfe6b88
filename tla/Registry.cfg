SPECIFICATION OfficeSpec
CONSTANTS
  Requests = {q1, q2}
  NoRow = NoRow
  h1 = h1
  u1 = u1
  direction = direction
  library = library
  modify = modify
  users = users
  Home <- HomeOf
  Given = {1}
  Limit <- OneOrTwo
  MaxCalls <- Bounds
  Parts = {"register"}
  Students = {s1, s2, s3}
  Classes = {c1, c2}
  Levels = {l1}
  Cards = {k1, k2, k3}
  Schools = {h1}
  Capacities = {1, 2}
  Services <- AllServices
  MaxEnrol = 5
  MaxClasses = 4
  MaxCards = 5
  MAX_LOGIN_ATTEMPTS = 2
  MaxPasswords = 1
  MaxTokens = 1
  MaxLogins = 0
  Callers = {u1}
  Allowed = 2
  Window = 2
  MaxCallers = 1
  MaxSeconds = 0
  Users = {u1}
  Super = super
  Posts = {direction, library}
  Permissions = {modify, users}
  Profiles = {direction}
  ProfilePermissions <- Profiled
  Direction = direction
  MODIFY_PERMISSIONS = modify
  MODIFY_USERS = users
  MODIFY_SETTINGS = users
  MaxGrants = 0
  Beginnings <- TwoSchools
  Texts = {x1}
  Titles = {t1}
  MaxIndexings = 0
  Writers = {w1}
  Actions = {t1}
  Checked = 2
  MaxLines = 1
  Codes = {a1}
  MaxActions = 1
  Cooldown = 1
  PerMinute = 2
  Month = 2
  MaxTicks = 0
  MaxIncidents = 0
  MaxReports = 0
  MaxStarts = 0
SYMMETRY Alike
INVARIANTS
  Limits
  GeneratedIsFree
PROPERTIES
  RevivedKnowingly
CHECK_DEADLOCK FALSE
