SPECIFICATION ScoresSpec
CONSTANTS
  MaxQ = 2
  EnrolN = 2
  BootTau = 2
  Offers <- AllOffers
  MaxPresses = 6
  None = None
  MAX_WCHAN = 18
  TILE = 3
  MBITS = 10
  SMAX = 18
  SCRATCH_MAX = 36
  COL_MAX = 64
  EMBED_MAX = 2
  Stale = Stale
  Blobs <- MCBlobs
  Vectors <- MCVectors
INVARIANTS
  ReferencesAreOfThisRoom
  VisitsAreWhole
  BackgroundIsOfThisSet
  AnswersAreTheModels
  BuffersAreKept
\* m5b.c's program ends: the blob is refused, or every row of the table is printed.
CHECK_DEADLOCK FALSE
