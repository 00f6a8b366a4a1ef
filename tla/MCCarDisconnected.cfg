SPECIFICATION FairSpec
CONSTANTS
  ID = 1
  NumFloors = 3
  Peers <- OneMCPeer
  Old = {}
  News = {{}}
  MaxPending = 1
PROPERTY KnownCallsServed
