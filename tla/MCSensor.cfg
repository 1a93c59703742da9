SPECIFICATION SensorSpec
CONSTANTS
  Layers = 2
  Paces <- ThePaces
  Rooms = {1, 4}
  LeadStart = 2
  LeadMin = 1
  LeadMax = 8
  LeadStep = 1
  LeadCalm = 2
  Early = 1
  Late = 1
  MaxFaults = 2
  MaxPresses = 2
  None = None
  Loops <- MCLoops
  Order <- MCOrder
  AE = "exposure"
  Steps <- MCSteps
  Settle = 1
  Spacing = 2
  Try <- MCTry
  Lit <- MCLit
  LowZero = {4}
  Bursts <- MCBursts
  Frames = 2
  MaxBursts = 2
  MaxStalls = 1
  MaxDrops = 1
  Nothing = Nothing
INVARIANTS
  AgeIsOfThisFrame
  ArmedIsInFlight
  CountedIsOffTheSource
  LinesHaveGrounds
  PairUnlessDropped
