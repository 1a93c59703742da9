SPECIFICATION Spec
CONSTANTS
  QuietMin = 1
  QuietMax = 4
  Budget = 20
  RampFrames = 7
  Win = 4
  Floor = 16
  Moved = 8
  Drift = 4
  WdLimit = 8
  IdleLimit = 2
  DoneLimit = 3
  Take = 0
  FillLuma = 5
  Levels = {12, 17, 30}
  Needs = {0, 4, 9}
  MaxFaults = 2
  None = None
  WantKhz = 320
  PinnedRail = None
  Other = Other
INVARIANT OneDriver
