SPECIFICATION FairSpec
CONSTANTS
  NumButtons = 1
  Floors = {0, 1}
  Switches = {"obstruction"}
  Cap <- MCCap
INVARIANTS TypeOK OwnReply
PROPERTIES LoopUpToDate LoopReturns InputsArrive
