\* Three blocks, so that a half of got[] is reused; two channel blocks; two
\* layers, so that caches meet another layer; every combination of modes.
SPECIFICATION FairSpec
CONSTANTS
  NLayers = 2
  NBlocks = 3
  PosBlocks = 2
  NPass = 2
  Plans <- MCPlans
  Slots = 8
  MaxFaults = 1
  MaxFrames = 2
  Nobody = Nobody
INVARIANTS
  NoRace
  OutputsRight
  CleanFrameSucceeds
PROPERTIES
  FrameEnds
