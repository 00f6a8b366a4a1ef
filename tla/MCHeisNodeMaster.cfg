SPECIFICATION Spec
CONSTANTS
  NumFloors = 3
  ID = 2
  Peers = {}
  PeerCars <- MCPeerCars
  MaxUpdates = 1
INVARIANT MasterAssigns
