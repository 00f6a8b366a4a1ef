SPECIFICATION Spec
CONSTANTS
  ID = 1
  NumFloors = 3
  Peers <- MCPeers
  Old <- MCOld
  News <- MCNews
  MaxPending = 2
INVARIANTS TypeOK MotorSafe NotStuck AtMostOneOff
PROPERTIES DoorInterval CabClearedByDoor
