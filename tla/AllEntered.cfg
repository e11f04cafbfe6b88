SPECIFICATION GradesFromThere
CONSTANTS
  a1 = a1
  a2 = a2
  a3 = a3
  maths = maths
  french = french
  c1 = c1
  c2 = c2
  NoSubject = NoSubject
  NoScore = NoScore
  Nobody = Nobody
  y1 = y1
  y2 = y2
  l1 = l1
  d1 = d1
  k1 = k1
  k2 = k2
  g1 = g1
  own = own
  u1 = u1
  s1 = s1
  s2 = s2
  t1 = t1
  t2 = t2
  q1 = q1
  q2 = q2
  Tasks = {a1, a2, a3}
  SubjectOf <- SubjectsOf
  ClassOf <- ClassesOf
  MaxOf <- Maxima
  Coefficient <- Coefficients
  OwnMaxima = {NoScore, 20}
  MarksEntered = {NoScore, 0, 13, 18}
  Scales <- SchoolScales
  Years = {y1, y2}
  FirstYear = y1
  FrameworkKinds = {l1}
  StarterDomains = {d1}
  StarterCompetencies = {k1, k2}
  StarterScales = {g1}
  OwnCode = own
  MaxFrameworks = 2
  MaxEdits = 3
  Staff = {u1}
  Pupils = {s1, s2}
  Rooms = {c1}
  Courses = {maths, french}
  Tests = {t1, t2}
  Evaluated = {t2}
  Scopes <- Posts
  Recorders = {q1, q2}
  Requests = {r1, r2}
  Students = {1, 2}
  Activities = {1, 2}
  Weight <- Weights
  Scores <- Entries18
  Starts <- BeginOrMiddle
  Batches <- ClassOrOne
  Minima = {0, 10}
  Schools = {{"results"}, {"board", "notes"}}
  MaxCalls <- FourOrThree
  NoRow = NoRow
SYMMETRY Callers
INVARIANTS
  AllEntered
CHECK_DEADLOCK FALSE
