SPECIFICATION FairSpec
CONSTANTS
  NumFloors = 3
  Nodes = {1, 2}
  Called <- HallCalls
  MaxCounter <- OneRound
  MaxLate = 0
PROPERTY SameConclusion
