SPECIFICATION Servers
CONSTANTS
  e1 = e1
  e2 = e2
  o1 = o1
  o2 = o2
  o3 = o3
  o4 = o4
  s1 = s1
  s2 = s2
  g1 = g1
  g2 = g2
  g3 = g3
  g4 = g4
  l1 = l1
  l2 = l2
  m1 = m1
  m2 = m2
  n1 = n1
  ida = ida
  idb = idb
  idc = idc
  idn = idn
  id1 = id1
  anyone = anyone
  dupont = dupont
  durand = durand
  k1 = k1
  k2 = k2
  exam = exam
  Nobody = Nobody
  Absent = Absent
  None = None
  Ops = {o1, o2, o3, o4}
  Entities = {e1, e2}
  Workers = {t1, t2, t3}
  OpEntity <- UpdatesEntity
  OpKind <- UpdatesKind
  OpRef <- UpdatesRef
  ServerKnown = {e2}
  VersionedEdits = {}
  SilentEdits = {}
  RowLocks = TRUE
  Overlap = FALSE
  MaxWrites = 3
  LiteOps = {o1, o2, o3}
  LiteWorkers = {1, 2}
  LiteEntity <- PairEntity
  LiteKind <- PairKind
  LiteRef <- PairRef
  LiteVersioned = {e2}
  LiteSilent = {e1}
  Calls = {q1, q2}
  Records = {s1, s2, g1, g2, g3, g4, l1, l2, m1, m2, n1}
  Type <- CreatedType
  ClientId <- CreatedName
  Content <- CreatedContent
  StudentRef <- OfStudent
  GuardianRef <- OfGuardian
  IntOf <- ReadAs
  Unphoned = {durand}
  ClassOf <- ExamClass
  MaxStudents = 1
  MaxStarts = 4
  Users = {u1, u2}
  Stations = {d1}
  Pushed = {o1}
INVARIANTS
  SerialLog
  JournalMatchesWrites
  NamedOnce
  HangsOnTheNamed
  OneAccount
PROPERTIES
  ImplementsStore
  SettledIsFinal
  LiteIsRight
CHECK_DEADLOCK FALSE
