SPECIFICATION Spec
CONSTANTS
  Elevators = {1, 2}
  Floors = {1}
  HallDirs <- MCHallDirs
  MaxCounter = 2
  MaxBoots = 2
  MaxPackets = 2
CHECK_DEADLOCK FALSE
INVARIANTS MergeCommutes
