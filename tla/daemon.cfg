SPECIFICATION Spec
CONSTANTS
  c1 = c1
  c2 = c2
  c3 = c3
  Nobody = nobody
  Clients = {c1, c2, c3}
  Scenes <- MCScenes
  Remote = {c3}
  Files = {"f", "g"}
  Names = {"T"}
  Concurrent = FALSE
  PortSpan = 1
  MaxChannels = 0
  MaxServers = 2
  SetEndMarker = TRUE
INVARIANTS
  TypeOK
  
  OneChannelPerFile
  AckedRowsAreInTheirFile
  EndKeepsRows
PROPERTIES
  NobodyWaitsForEver
CHECK_DEADLOCK FALSE
