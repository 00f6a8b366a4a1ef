SPECIFICATION FairSpec
CONSTANTS
  ID = 1
  NumFloors = 4
  Peers = {}
  Old = {}
  News = {{}}
  MaxPending = 1
PROPERTY CabCallsServed
