\* The thresholds in their order, one tick or more apart; two outages in a life.
\* Three pages and five attempts, so that the sector fills; four boots, so that an
\* erase is cut and the boot after it cut too.
SPECIFICATION WatchSpec
CONSTANTS
  Quiet = 1
  Sof = 2
  Kick = 3
  Kick2 = 5
  GiveUp = 7
  MaxLosses = 2
  MaxLives = 2
  None = None
  Pages = 3
  MaxBoots = 3
  MaxSeq = 5
  Blank = Blank
  Torn = Torn
  NoRecord = NoRecord
INVARIANTS
  NamesTheReset
  OutageIsAttributed
  CountedOnce
  TakenIsLastLife
PROPERTIES
  NotGoneForEver
  NewestIsTaken
