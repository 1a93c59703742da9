SPECIFICATION WitnessSpec
CONSTANTS
  Loops <- MCLoops
  Order <- MCOrder
  AE = "exposure"
  Steps <- MCSteps
  Settle = 1
  Spacing = 2
  Try <- MCTry
  Lit <- MCLit
  LowZero = {4}
  Bursts <- MCBursts
  Frames = 2
  MaxBursts = 2
  MaxStalls = 1
  MaxDrops = 1
  Nothing = Nothing
INVARIANTS
  MovedIsConclusive
