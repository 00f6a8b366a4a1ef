SPECIFICATION FairSpec
CONSTANTS
  Nodes = {1, 2}
  Floors = {1}
  Types = {"hallUp"}
  Lossy = FALSE
  MaxPackets = 2
  MaxUpdates = 1
PROPERTY InSync
