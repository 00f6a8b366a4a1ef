SPECIFICATION FairSpec
CONSTANTS
  Nodes = {1, 2}
  Floors = {1}
  Types = {"hallUp"}
  Lossy = TRUE
  MaxPackets = 2
  MaxUpdates = 1
INVARIANTS TypeOK ListCurrent
PROPERTIES OneMaster MasterSpreads
