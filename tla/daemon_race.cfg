SPECIFICATION Spec
CONSTANTS
  c1 = c1
  c2 = c2
  c3 = c3
  Nobody = nobody
  Clients = {c1, c2}
  Scenes <- RaceScenes
  Remote = {c2}
  Files = {"f", "g"}
  Names = {"T"}
  Concurrent = TRUE
  PortSpan = 1
  MaxChannels = 0
  MaxServers = 2
  SetEndMarker = TRUE
PROPERTIES NobodyWaitsForEver
INVARIANTS
  AckedRowsAreInTheirFile
CHECK_DEADLOCK FALSE
