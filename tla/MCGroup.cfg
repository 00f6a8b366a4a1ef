SPECIFICATION FairSpec
CONSTANTS
  NumFloors = 2
  Nodes = {1, 2}
  Called <- OneCalled
  MaxCounter <- TwoRounds
  MaxLate = 1
INVARIANTS TypeOK OneTakesIt
PROPERTIES EachIsACar HallClearedByDoor SomeoneTakesIt AloneServes
