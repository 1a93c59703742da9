SPECIFICATION Spec
CONSTANTS
  MaxQ = 2
  EnrolN = 2
  BootTau = 2
  Offers <- AllOffers
  MaxPresses = 3
  None = None
INVARIANT NeverHalfLoaded
