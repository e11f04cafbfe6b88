SPECIFICATION Spec
CONSTANTS
  g1 = g1
  g2 = g2
  s1 = s1
  s2 = s2
  s3 = s3
  i1 = i1
  i2 = i2
  i3 = i3
  Workers = {w1, w2}
  Campaigns = {c1}
  Proposals = {p1}
  Sends = {m1}
  Exports = {e1}
  Guardians = {g1, g2}
  Students = {s1, s2, s3}
  NoStudent = NoStudent
  Invoices = {i1, i2, i3}
  Billed <- InvoiceOf
  Linked <- Contacts
  Primary <- FirstContact
  Reach <- Means
  Requested = {"auto", "sms"}
  Wishes <- AllOrSome
  Services <- Separately
  MaxRecipients = 2
  MaxWishes = 1
  MaxDecisions = 3
  MaxFaults = 1
  NoRow = NoRow
INVARIANTS
  ReportIsTrue
  OnceAndApproved
PROPERTIES
  TasksEnd
CHECK_DEADLOCK FALSE
