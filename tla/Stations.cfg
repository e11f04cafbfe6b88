SPECIFICATION ClientsSpec
CONSTANTS
  Parts = {"browser", "phone"}
  d1 = d1
  d2 = d2
  e1 = e1
  Devices = {d1, d2}
  Ops = {1, 2}
  Entities = {e1}
  OpDevice <- OneWriter
  OpEntity <- OneEntity
  OpRef <- ServerRefs
  Creations = {}
  InOrder = TRUE
  Rebases = FALSE
  Author <- TwoWriters
  Naming <- Refs
  Made = {1}
  MaxLate = 1
  MaxRows = 2
  Tabs = {t1, t2}
  Writes = {w1, w2, w3}
  Bare = {w1}
  Refused = {w3}
  MaxFaults = 3
  o1 = o1
  o2 = o2
  o3 = o3
  o4 = o4
  Operations = {o1, o2, o3, o4}
  Sizes <- Weights
  MAX_OPERATIONS = 2
  MAX_OPERATION_BYTES = 3
  MAX_QUEUE_BYTES = 3
  MaxKills = 1
INVARIANTS
  QueueKeeps
PROPERTIES
  QueuesEmpty
CHECK_DEADLOCK FALSE
