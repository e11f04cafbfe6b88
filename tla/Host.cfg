SPECIFICATION FairHost
CONSTANTS
  a1 = a1
  a2 = a2
  a3 = a3
  Archives = {a1, a2, a3}
  ArchiveSchema <- SchemaOf
  Refused = {a3}
  Unpictured <- Albums
  Launchers = {"run_server", "uvicorn"}
  MaxWrites = 2
  MaxCrashes = 1
  MaxErrors = 2
  g1 = g1
  g2 = g2
  c1 = c1
  c2 = c2
  c3 = c3
  NoLock = NoLock
  Unwritten = Unwritten
  Agents = {g1, g2}
  Manual = {g2}
  Target <- Installs
  First = 1
  Broken = {3}
  MAX_RESTARTS = 2
  MaxFaults = 2
  MaxUpdates = 3
  Calls = {c1, c2, c3}
  Creators = {c1, c2}
  MAX_BACKUPS_TO_KEEP = 1
  MaxArchives = 3
  Nobody = Nobody
  Requests = {q1, q2}
  Frozen = TRUE
  MaxSecrets = 6
  MaxCuts = 3
  MaxRefusals = 2
  Destinations = {d1, d2}
  Keep = 1
  MaxCopied = 2
  MaxSecretKeys = 2
  Owners = {s1, logo}
  Removable = {s1}
  MaxPictures = 3
  MaxBackups = 1
  MaxMediaFaults = 1
  Launches = {m1, m2}
  Askers = {p1, p2}
  MaxStops = 2
  MaxStopFaults = 1
INVARIANTS
  NothingLost
  OutcomeIsTrue
  CopiesAreThere
  FilesAreThere
  StopsAreTold
PROPERTIES
  ServerComesBack
  FirstRunOpens
CHECK_DEADLOCK FALSE
