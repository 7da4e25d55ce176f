\* Answers may come after the timeout, beside that to the next request.
CONSTANTS
  Commands <- JsonLines
  Batteries <- NoDcbAndThree
  MaxRetries = 2
  Faults = {"denied", "error", "nodata", "bare", "lost", "close"}
  MaxInFlight = 2
  Oddities <- OddityKinds
SPECIFICATION JsonSpec
INVARIANTS
  JsonTypeOK
  
  DumpDocument
