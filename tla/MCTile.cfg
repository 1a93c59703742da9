SPECIFICATION Spec
CONSTANTS
  NMAC = 2
  ADEPTH = 8
  WDEPTH = 36
  STRIPD = 64
  ACTMAX = 64
  WGTMAX = 72
  RQBASE = 40
  MAXQ = 4
  CWM = 32
  KPacks = {TRUE, FALSE}
  RunBlocks = 2
  None = None
  Zero = Zero
  Twice = Twice
  Garbled = Garbled
  Poison = Poison
  Layers <- MCLayers
INVARIANTS
  PlanTilesTheLayer
  SumsAreTheConvolution
  WordsAreInOrder
  NeverUnderruns
  SweepFitsItsClocks
