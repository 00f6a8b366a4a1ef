SPECIFICATION FairSpec
CONSTANTS
  NumFloors = 3
  ID = 2
  Peers = {1}
  PeerCars <- MCPeerCars
  MaxUpdates = 1
INVARIANTS TypeOK DoorTimed MotorSafe InShaft
PROPERTIES DoorHeld CabKept CabServed
