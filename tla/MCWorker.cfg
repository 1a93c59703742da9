\* Two slots, so that the rings fill; a modulus of 4, so that the counters wrap.
SPECIFICATION FairSpec
CONSTANTS
  Slots = 2
  Wrap = 4
  Horizon = 1
  Torn = Torn
  None = None
INVARIANTS
  RunsTheJobPosted
  WaitMeansDone
  DrainMeansIdle
  HiWaitsForOneLo
PROPERTIES
  IsTwoFifos
  CallsReturn
