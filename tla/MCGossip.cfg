SPECIFICATION FairSpec
CONSTANTS
  Elevators = {1, 2}
  Floors = {1}
  HallDirs <- MCHallDirs
  MaxCounter = 2
  MaxBoots = 2
  MaxPackets = 1
CHECK_DEADLOCK FALSE
INVARIANTS TypeOK VersionIdentifiesWrite OwnerCabIsLatest CabMergeCommutes SameBootsCommute
PROPERTIES CellsOnlyAdvance CabCallsOwned Agreement
