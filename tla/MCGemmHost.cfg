\* One fault anywhere; two split-K passes; one payload shorter than the memory,
\* and one that holds a SYNC and a DRAIN, so that a dropped frame's payload is taken for
\* a frame; every call.  A buffer of four words, transactions shorter and longer than it.
SPECIFICATION DriverSpec
CONSTANTS
  MaxPass = 2
  Payloads <- MCPayloads
  Calls <- MCCalls
  More = {"defer", "sync", "mode"}
  None = None
  MaxFaults = 1
  MaxAge = 1
  MidStream = FALSE
  TxbWords = 4
  WireMax = 24
  Inks = {1, 2}
INVARIANTS
  NoSilentCorruption
  AtMostOneLate
  HearsAgain
  WireIsFrame
